---------------------------- MODULE AgentServer -----------------------------
(***************************************************************************)
(* The gRPC AgentService of the control plane                              *)
(* (control-plane/internal/agent/agent.go) over the node registry: the     *)
(* Register RPC and any number of concurrent Heartbeat streams, each with  *)
(* its handler goroutine and the goroutine that sends its periodic acks.   *)
(*                                                                         *)
(* A handler takes the registry lock several times and everything else may *)
(* happen in between, so each locked section is a step of its own:         *)
(*                                                                         *)
(*   "first"   waiting for the first message                               *)
(*   "update"  the connection number is read, the beat not yet applied     *)
(*   "ack"     the first beat is applied, the first ack not yet sent       *)
(*   "loop"    receiving                                                   *)
(*   "idle"    no handler: never opened, or returned                       *)
(*                                                                         *)
(* What the agents send is a choice of the environment.  A stream or RPC   *)
(* rejected by the bearer-token check, and a Register rejected by          *)
(* validation, change nothing and have no step.                            *)
(***************************************************************************)
EXTENDS NodeRegistry

CONSTANTS
    Streams,    \* identities of heartbeat streams, reused once all is over
    BadID       \* a node id that validator.ValidateNodeID refuses

ASSUME BadIDAssumption == BadID \notin Nodes

VARIABLES
    stream,     \* handler of each stream: its pc and local variables
    acker       \* ack goroutine of each stream: "none", "waiting", "sending"

serverVars == <<registryVars, stream, acker>>

-----------------------------------------------------------------------------
PCs == {"idle", "first", "update", "ack", "loop"}

(* Locals of a handler.  capRegs and capBorn are history: the registration *)
(* (and the residence) of the node when its connection number was read.    *)
Handlers ==
    [pc : PCs, node : Nodes \cup {BadID}, connID : Nat,
     tasks : TaskLists(MaxTasks), capRegs : Nat, capBorn : Nat]

NoHandler ==
    [pc |-> "idle", node |-> BadID, connID |-> 0,
     tasks |-> << >>, capRegs |-> 0, capBorn |-> 0]

Heartbeats ==
    [node : Nodes \cup {BadID}, tasks : TaskLists(MaxTasks + 1)]

\* Mutant: one task too many passes.
ValidHeartbeatOffByOne(m) == m.node \in Nodes /\ Len(m.tasks) <= MaxTasks + 1

ValidHeartbeat(m) == m.node \in Nodes /\ Len(m.tasks) <= MaxTasks

GoTo(s, label) == stream' = [stream EXCEPT ![s].pc = label]

\* The handler returns; its locals are gone.  "done" is closed.
Return(s) == stream' = [stream EXCEPT ![s] = NoHandler]

AckerGoTo(s, label) == acker' = [acker EXCEPT ![s] = label]

ServerInit ==
    /\ RegistryInit
    /\ stream = [s \in Streams |-> NoHandler]
    /\ acker = [s \in Streams |-> "none"]

-----------------------------------------------------------------------------
\* The Register RPC past authentication and validation, with resources.
RegisterRPC(n) == Register(n) /\ UNCHANGED <<stream, acker>>

\* An authenticated Heartbeat call starts a handler.
OpenStream(s) ==
    /\ stream[s].pc = "idle"
    /\ acker[s] = "none"
    /\ GoTo(s, "first")
    /\ UNCHANGED <<registryVars, acker>>

\* The first message passes validation and the connection number of its
\* node is read (0 if it is not registered).
RecvFirst(s, m) ==
    /\ stream[s].pc = "first"
    /\ ValidHeartbeat(m)
    /\ stream' = [stream EXCEPT ![s] =
         [pc |-> "update", node |-> m.node, connID |-> ConnectionID(m.node),
          tasks |-> m.tasks, capRegs |-> regs[m.node],
          capBorn |-> IF Registered(m.node) THEN nodes[m.node].born
                                            ELSE regs[m.node]]]
    /\ UNCHANGED <<registryVars, acker>>

\* The stream ends before its first message, or that message is refused.
RecvFirstFails(s) ==
    /\ stream[s].pc = "first"
    /\ Return(s)
    /\ UNCHANGED <<registryVars, acker>>

\* Mutant: the ack goroutine is started ahead of the first ack.
FirstUpdateStartsAcker(s) ==
    /\ stream[s].pc = "update"
    /\ UpdateHeartbeat(stream[s].node, stream[s].tasks)
    /\ GoTo(s, "ack")
    /\ AckerGoTo(s, "waiting")

\* The first heartbeat is applied under a lock of its own.
FirstUpdate(s) ==
    /\ stream[s].pc = "update"
    /\ UpdateHeartbeat(stream[s].node, stream[s].tasks)
    /\ GoTo(s, "ack")
    /\ UNCHANGED acker

\* The first ack is sent and the ack goroutine starts.
SendFirstAck(s) ==
    /\ stream[s].pc = "ack"
    /\ GoTo(s, "loop")
    /\ AckerGoTo(s, "waiting")
    /\ UNCHANGED registryVars

\* The first ack cannot be sent: the node stays registered.
SendFirstAckFails(s) ==
    /\ stream[s].pc = "ack"
    /\ Return(s)
    /\ UNCHANGED <<registryVars, acker>>

\* A further message passes validation.  The node it names need not be the
\* one the stream was opened with, and its connection number is not looked at.
RecvLoop(s, m) ==
    /\ stream[s].pc = "loop"
    /\ ValidHeartbeat(m)
    /\ UpdateHeartbeat(m.node, m.tasks)
    /\ UNCHANGED <<stream, acker>>

\* A further message is refused: the handler returns, the node stays.
RecvInvalid(s, m) ==
    /\ stream[s].pc = "loop"
    /\ ~ValidHeartbeat(m)
    /\ Return(s)
    /\ UNCHANGED <<registryVars, acker>>

\* Mutant: the number is read again when the stream ends.
StreamEndRereads(s) ==
    /\ stream[s].pc = "loop"
    /\ RemoveIfConnectionMatches(stream[s].node, ConnectionID(stream[s].node))
    /\ Return(s)
    /\ UNCHANGED acker

\* Recv reports the end of the stream or an error.
StreamEnd(s) ==
    /\ stream[s].pc = "loop"
    /\ RemoveIfConnectionMatches(stream[s].node, stream[s].connID)
    /\ Return(s)
    /\ UNCHANGED acker

-----------------------------------------------------------------------------
(* The ack goroutine.  It shares the stream with the handler, and "done".  *)

\* The ticker fires and the goroutine calls Send.  It may do so although
\* "done" is closed: a select with both ready picks either.
AckTick(s) ==
    /\ acker[s] = "waiting"
    /\ AckerGoTo(s, "sending")
    /\ UNCHANGED <<registryVars, stream>>

\* Send returns: the periodic ack is out.
AckSent(s) ==
    /\ acker[s] = "sending"
    /\ AckerGoTo(s, "waiting")
    /\ UNCHANGED <<registryVars, stream>>

\* Send fails and the goroutine ends, while the handler may still receive.
AckFails(s) ==
    /\ acker[s] = "sending"
    /\ AckerGoTo(s, "none")
    /\ UNCHANGED <<registryVars, stream>>

\* The goroutine sees "done", which the handler's return has closed.
AckerStops(s) ==
    /\ acker[s] = "waiting"
    /\ stream[s].pc = "idle"
    /\ AckerGoTo(s, "none")
    /\ UNCHANGED <<registryVars, stream>>

-----------------------------------------------------------------------------
\* The process dies: every handler and goroutine with it.
Crash ==
    /\ Restart
    /\ stream' = [s \in Streams |-> NoHandler]
    /\ acker' = [s \in Streams |-> "none"]

Background == (StaleNodeCleanup \/ Tick) /\ UNCHANGED <<stream, acker>>

Handler(s) ==
    \/ OpenStream(s)
    \/ \E m \in Heartbeats : RecvFirst(s, m) \/ RecvLoop(s, m) \/ RecvInvalid(s, m)
    \/ RecvFirstFails(s)
    \/ FirstUpdate(s)
    \/ SendFirstAck(s)
    \/ SendFirstAckFails(s)
    \/ StreamEnd(s)

AckGoroutine(s) == AckTick(s) \/ AckSent(s) \/ AckFails(s) \/ AckerStops(s)

ServerNext ==
    \/ \E n \in Nodes : RegisterRPC(n)
    \/ \E s \in Streams : Handler(s) \/ AckGoroutine(s)
    \/ Background
    \/ Crash

ServerSpec == ServerInit /\ [][ServerNext]_serverVars

(* Time passes and the cleanup runs.  No agent is obliged to send anything *)
(* and no stream to end.                                                   *)
ServerFairness ==
    /\ WF_serverVars(Tick /\ UNCHANGED <<stream, acker>>)
    /\ WF_serverVars(StaleNodeCleanup /\ UNCHANGED <<stream, acker>>)

ServerFairSpec == ServerSpec /\ ServerFairness

-----------------------------------------------------------------------------
(* Properties.                                                             *)

\* Type invariant of the handlers.
ServerTypeOK ==
    /\ stream \in [Streams -> Handlers]
    /\ acker \in [Streams -> {"none", "waiting", "sending"}]

Serving(s) == stream[s].pc \in {"update", "ack", "loop"}

\* The entry of the stream's node is the residence the stream saw.
SameResidence(s) ==
    /\ Registered(stream[s].node)
    /\ nodes[stream[s].node].born = stream[s].capBorn

\* While the node a stream serves has not left the map since the stream read
\* its connection number, the number matches exactly if the node has not
\* registered again since: the comparison in RemoveIfConnectionMatches tells
\* the stream's own registration from every later one.
CapturedNumberIdentifies ==
    \A s \in Streams : Serving(s) /\ SameResidence(s) =>
        (nodes[stream[s].node].connID = stream[s].connID
            <=> regs[stream[s].node] = stream[s].capRegs)

\* In the residence it saw, a stream that ends removes exactly its own
\* registration: neither a later one nor, if it was the last, nothing.  A
\* stream opened for an unregistered node (number 0) removes nothing, whoever
\* registers that id later.  And whatever nodes its messages named, its end
\* takes none but the one it was opened with.
EndRemovesOwnRegistration ==
    [][\A s \in Streams : StreamEnd(s) =>
         /\ SameResidence(s) =>
              (stream[s].node \notin DOMAIN nodes'
                 <=> regs[stream[s].node] = stream[s].capRegs)
         /\ stream[s].connID = 0 => UNCHANGED nodes
         /\ DOMAIN nodes \ {stream[s].node} \subseteq DOMAIN nodes']_serverVars

\* What the comment on RemoveIfConnectionMatches says: an old stream does
\* not remove a node that has reconnected under a newer one.  It fails when
\* the node left the map in between (stale cleanup, or the end of another
\* stream): its numbers start again at 1 and the old stream's number matches.
OldStreamKeepsReconnectedNode ==
    [][\A s, new \in Streams :
         /\ StreamEnd(s)
         /\ stream[new].pc = "loop"
         /\ stream[new].node = stream[s].node
         /\ stream[new].capRegs = regs[stream[s].node]
         /\ stream[new].connID = ConnectionID(stream[s].node)
         /\ stream[s].capRegs < stream[new].capRegs
         => UNCHANGED nodes]_serverVars

\* No periodic ack is being sent before the first heartbeat is applied and
\* acknowledged: the handler and its goroutine never call Send on one stream
\* at the same time, which grpc-go does not allow, and what an agent hears
\* first is the answer to its first heartbeat.
OneSenderPerStream ==
    \A s \in Streams :
        acker[s] = "sending" => stream[s].pc \in {"loop", "idle"}
=============================================================================
