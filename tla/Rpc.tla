-------------------------------- MODULE Rpc ---------------------------------
(***************************************************************************)
(* A gRPC call on its way through the control plane: the generated client  *)
(* stub and service descriptor (gen/compute/v1/agent_grpc.pb.go), the      *)
(* metrics and authentication interceptors (internal/metrics,              *)
(* internal/agent), the validators (internal/validator) and the handler's  *)
(* answer.  What the handlers do inside the registry is in AgentServer;    *)
(* here they hand their arguments over to it.                              *)
(*                                                                         *)
(* The server side of a call is at                                         *)
(*                                                                         *)
(*   "none"       not made yet                                             *)
(*   "arrived"    its path and its request are at the server               *)
(*   "entered"    inside the metrics interceptor                           *)
(*   "handling"   in the handler                                           *)
(*   "streaming"  a Heartbeat handler in its receive loop                  *)
(*   "returned"   back in the metrics interceptor                          *)
(*   "replied"    over                                                     *)
(*                                                                         *)
(* A string is a member of Text with the attributes the validators look    *)
(* at.  A path is the sequence of its parts between slashes and dots.      *)
(***************************************************************************)
EXTENDS Messages, FiniteSets, Bags, SequencesExt

CONSTANTS
    Calls,          \* calls, each made at most once
    Offers,         \* call -> the [path, body, tokens] its client may send
    Later,          \* messages that may follow the first on a stream
    Malformed,      \* a request that is not an encoded message
    AgentToken,     \* --agent-token, "" if none
    ClusterID,      \* what NewAgentServer was given
    LeaderAddr,
    Text,           \* strings
    Length,         \* string -> its length in bytes
    WithNul,        \* strings with a null byte
    SafeID,         \* strings that match SafeIDPattern
    ImageRef,       \* strings that match ContainerImagePattern
    Limits          \* the bounds of validator.go

ASSUME TextAssumption ==
    /\ Length \in [Text -> Nat]
    /\ \A t \in Text : Length[t] = 0 <=> t = ""

ASSUME LimitsAssumption ==
    Limits \in [NodeID : Nat, TaskID : Nat, JobID : Nat, AllocationID : Nat,
                ContainerImage : Nat, Command : Nat, EnvKey : Nat, EnvValue : Nat,
                EnvCount : Nat, Memory : Nat, GPUMem : Nat, Replicas : Nat,
                Priority : Nat, TasksPerHeartbeat : Nat, Version : Nat, Address : Nat]

VARIABLES
    up,             \* the process lives
    sent,           \* call -> what its client sent
    call,           \* call -> the server side
    answer,         \* call -> what its client got: [code, msg]
    knownMethods,   \* the label cache of metrics.go
    requests,       \* bag of <<label, type, code>>: grpcServerRequests
    activeStreams   \* gauge grpcActiveStreams

rpcVars == <<up, sent, call, answer, knownMethods, requests, activeStreams>>

-----------------------------------------------------------------------------
(* The service.                                                            *)

FullMethodName(m) == <<"compute", "v1", "AgentService", m>>

\* The methods of AgentService, their kinds and their messages.
ServiceDesc ==
    [Register |->
        [type |-> "unary", req |-> "RegisterRequest", resp |-> "RegisterResponse"],
     Heartbeat |->
        [type |-> "stream", req |-> "HeartbeatRequest", resp |-> "HeartbeatResponse"],
     ExecuteTask |->
        [type |-> "unary", req |-> "TaskSpec", resp |-> "TaskAck"],
     AllocateMemory |->
        [type |-> "unary", req |-> "MemoryAllocRequest", resp |-> "MemoryAllocResponse"],
     AllocateGPUMemory |->
        [type |-> "unary", req |-> "GPUMemoryAllocRequest", resp |-> "GPUMemoryAllocResponse"],
     FreeMemory |->
        [type |-> "unary", req |-> "FreeMemoryRequest", resp |-> "FreeMemoryResponse"],
     FreeGPUMemory |->
        [type |-> "unary", req |-> "FreeGPUMemoryRequest", resp |-> "FreeGPUMemoryResponse"]]

\* AgentService is the only service registered with the server.
Served(path) == \E m \in DOMAIN ServiceDesc : path = FullMethodName(m)

\* What a field of a Go struct can hold, as far as anything looks at it.
Holds(field, v) ==
    CASE field.type = "string" /\ ~field.rep -> v \in Text
      [] field.type = "string" /\ field.rep -> v \in Seq(Text)
      [] field.type = "map" -> /\ v = [k \in DOMAIN v |-> v[k]] /\ IsFiniteSet(DOMAIN v)
                               /\ \A k \in DOMAIN v : k \in Text /\ v[k] \in Text
      [] field.type = "uint64" /\ ~field.rep -> v \in Nat
      [] field.type = "int32" /\ ~field.rep -> v \in Int
      [] IsMessage(field) /\ field.rep -> Len(v) \in Nat
      [] OTHER -> TRUE

\* A request that a stub can be given.
Request(T, m) ==
    /\ m \notin {Nil, Malformed}
    /\ Shaped(T, m)
    /\ \A f \in DOMAIN Schema[T] : Holds(Schema[T][f], m[f])

\* Clients that use a stub send what Go's types allow; others send something
\* that may not be a message.  Only a stream can stay without one.
ASSUME OffersAssumption ==
    /\ IsFiniteSet(Calls)
    /\ \A c \in Calls : \A o \in Offers[c] :
         \A m \in DOMAIN ServiceDesc : o.path = FullMethodName(m) =>
            \/ o.body = Malformed
            \/ o.body = Nil /\ ServiceDesc[m].type = "stream"
            \/ Request(ServiceDesc[m].req, o.body)

ASSUME LaterAssumption ==
    \A m \in Later : m = Malformed \/ Request("HeartbeatRequest", m)

Method(c) == Last(sent[c].path)

Desc(c) == ServiceDesc[Method(c)]

-----------------------------------------------------------------------------
(* Validators.                                                             *)

HasNullBytes(s) == s \in WithNul

\* Mutant: the length is not looked at.
ValidateStringIDAnyLength(s, maxLen) ==
    s # "" /\ ~HasNullBytes(s) /\ s \in SafeID

ValidateStringID(s, maxLen) ==
    /\ s # ""
    /\ ~HasNullBytes(s)
    /\ Length[s] <= maxLen
    /\ s \in SafeID

ValidateNodeID(s) == ValidateStringID(s, Limits.NodeID)

ValidateTaskID(s) == ValidateStringID(s, Limits.TaskID)

ValidateJobID(s) == ValidateStringID(s, Limits.JobID)

ValidateAllocationID(s) == ValidateStringID(s, Limits.AllocationID)

ValidateContainerImage(s) ==
    /\ s # ""
    /\ ~HasNullBytes(s)
    /\ Length[s] <= Limits.ContainerImage
    /\ s \in ImageRef

ValidateMemorySize(size) == size # 0 /\ size <= Limits.Memory

ValidateGPUMemorySize(size) == size # 0 /\ size <= Limits.GPUMem

ValidateReplicationFactor(n) == ~(n < 0 \/ n > Limits.Replicas)

ValidatePriority(p) == ~(p < 0 \/ p > Limits.Priority)

ValidateEnvVars(env) ==
    /\ Cardinality(DOMAIN env) <= Limits.EnvCount
    /\ \A k \in DOMAIN env : /\ ~(Length[k] = 0 \/ Length[k] > Limits.EnvKey)
                             /\ Length[env[k]] <= Limits.EnvValue

ValidateCommands(cmds) ==
    LET total[i \in 0..Len(cmds)] ==
            IF i = 0 THEN 0 ELSE total[i - 1] + Length[cmds[i]]
    IN  total[Len(cmds)] <= Limits.Command

ValidateHeartbeatTaskCount(n) == n <= Limits.TasksPerHeartbeat

ValidateGPUDeviceIndex(idx) == ~(idx < -1)

ValidateVersion(v) == ~HasNullBytes(v) /\ Length[v] <= Limits.Version

ValidateAddress(addr) == ~HasNullBytes(addr) /\ Length[addr] <= Limits.Address

\* The chain of checks of a method.  All failures have the same code, so the
\* order only shows in the audit log.
Checks(m, req) ==
    CASE m = "Register" ->
            <<ValidateNodeID(req.NodeId), ValidateAddress(req.Address),
              ValidateVersion(req.AgentVersion)>>
      [] m = "Heartbeat" ->
            <<ValidateNodeID(req.NodeId),
              ValidateHeartbeatTaskCount(Len(req.Tasks))>>
      [] m = "ExecuteTask" ->
            <<ValidateTaskID(req.TaskId), ValidateJobID(req.JobId),
              ValidateContainerImage(req.ContainerImage),
              ValidateCommands(req.Command), ValidateEnvVars(req.Env),
              ValidatePriority(req.Priority)>>
      [] m = "AllocateMemory" ->
            <<ValidateAllocationID(req.AllocationId),
              ValidateMemorySize(req.SizeBytes),
              ValidateReplicationFactor(req.ReplicationFactor)>>
      [] m = "AllocateGPUMemory" ->
            <<ValidateAllocationID(req.AllocationId),
              ValidateGPUMemorySize(req.SizeBytes),
              ValidateGPUDeviceIndex(req.GpuDeviceIndex)>>
      [] m \in {"FreeMemory", "FreeGPUMemory"} ->
            <<ValidateAllocationID(req.AllocationId)>>

validateAll(checks) == \A i \in DOMAIN checks : checks[i]

-----------------------------------------------------------------------------
(* Authentication, labels and answers.                                     *)

Bearer(token) == <<"Bearer", token>>

\* The verdict on the tokens a call presents.
validateBearerToken(tokens) ==
    CASE AgentToken = "" -> "OK"
      [] AgentToken # "" /\ tokens = << >> -> "Unauthenticated"
      [] AgentToken # "" /\ Bearer(AgentToken) \in ToSet(tokens) -> "OK"
      [] OTHER -> "PermissionDenied"

\* The pairs of service and method that may be a label.
knownServiceMethods ==
    ({"AgentService"} \X
        {"Register", "Heartbeat", "ExecuteTask", "AllocateMemory",
         "AllocateGPUMemory", "FreeMemory", "FreeGPUMemory"})
    \cup ({"MemoryService"} \X {"AllocateDistributed", "MigrateRegion", "GetRegion"})
    \cup ({"ControlService"} \X {"GetClusterState", "JoinCluster"})

unknown_method == <<"unknown_method">>

\* SplitN into at most four parts; the rest stays together in the last one.
SplitN4(path) ==
    IF Len(path) <= 4 THEN path
    ELSE Append(SubSeq(path, 1, 3), SubSeq(path, 4, Len(path)))

\* A known method is one whose last two parts are listed.
KnownPattern(path) ==
    LET parts == SplitN4(path)
    IN  /\ Len(parts) >= 3
        /\ <<parts[Len(parts) - 1], parts[Len(parts)]>> \in knownServiceMethods

sanitizeMethod(path) ==
    IF path \in knownMethods \/ KnownPattern(path) THEN path ELSE unknown_method

\* The cache after sanitizeMethod.
Cached(path) == IF KnownPattern(path) THEN knownMethods \cup {path} ELSE knownMethods

\* The message a handler answers an accepted request with.
Response(m, req) ==
    CASE m = "Register" ->
            New("RegisterResponse",
                [Accepted |-> TRUE, ClusterId |-> ClusterID,
                 ControlPlaneLeader |-> LeaderAddr, HeartbeatIntervalMs |-> 5000])
      [] m = "Heartbeat" ->
            New("HeartbeatResponse", [Acknowledged |-> TRUE, Sequence |-> req.Sequence])
      [] m = "ExecuteTask" -> New("TaskAck", [Accepted |-> TRUE])
      [] m = "AllocateMemory" ->
            New("MemoryAllocResponse",
                [Success |-> TRUE,
                 Handle |-> New("MemoryHandle", [AllocationId |-> req.AllocationId,
                                                 SizeBytes |-> req.SizeBytes])])
      [] m = "AllocateGPUMemory" ->
            New("GPUMemoryAllocResponse",
                [Success |-> TRUE,
                 Handle |-> New("GPUHandle", [AllocationId |-> req.AllocationId,
                                              SizeBytes |-> req.SizeBytes])])
      [] m = "FreeMemory" -> New("FreeMemoryResponse", [Success |-> TRUE])
      [] m = "FreeGPUMemory" -> New("FreeGPUMemoryResponse", [Success |-> TRUE])

\* What a handler hands over to the registry.
Handed(m, req) ==
    CASE m = "Register" -> [NodeId |-> req.NodeId, Address |-> req.Address, Resources |-> req.Resources]
      [] m = "Heartbeat" -> [NodeId |-> req.NodeId, Utilization |-> req.Utilization, Tasks |-> req.Tasks]
      [] OTHER -> Nil

\* The nil pointer is none of the messages and handles the handlers build.
ASSUME NilAssumption ==
    /\ Nil # Malformed
    /\ \A c \in Calls : \A o \in Offers[c] :
         \A m \in DOMAIN ServiceDesc :
            o.path = FullMethodName(m) /\ o.body \notin {Nil, Malformed} =>
                /\ Response(m, o.body) # Nil
                /\ m \in {"AllocateMemory", "AllocateGPUMemory"} =>
                      Response(m, o.body).Handle # Nil

-----------------------------------------------------------------------------
\* The server side of a call.  last is history: the message that came last
\* after the first one of a stream, as its client built it.
NoCall == [at |-> "none", req |-> Nil, code |-> "OK", resp |-> Nil, handed |-> Nil,
           last |-> Nil]

NotSent == [path |-> << >>, body |-> Nil, tokens |-> << >>]

NoAnswer == [code |-> "none", msg |-> Nil]

RpcInit ==
    /\ up = TRUE
    /\ sent = [c \in Calls |-> NotSent]
    /\ call = [c \in Calls |-> NoCall]
    /\ answer = [c \in Calls |-> NoAnswer]
    /\ knownMethods = knownServiceMethods
    /\ requests = EmptyBag
    /\ activeStreams = 0

\* What travels.  A stream may be opened and closed without a message: its
\* body is Nil.
Wire(c) ==
    IF sent[c].body \in {Nil, Malformed} THEN sent[c].body
    ELSE Encode(Desc(c).req, sent[c].body)

Waiting(c) == call[c].at # "none" /\ answer[c] = NoAnswer

\* The client stub sends the request.
Invoke(c, o) ==
    /\ up /\ call[c].at = "none"
    /\ sent' = [sent EXCEPT ![c] = o]
    /\ call' = [call EXCEPT ![c].at = "arrived"]
    /\ UNCHANGED <<up, answer, knownMethods, requests, activeStreams>>

\* The server knows no such service or method: no interceptor sees the call.
RejectUnknown(c) ==
    /\ up /\ call[c].at = "arrived" /\ ~Served(sent[c].path)
    /\ call' = [call EXCEPT ![c].at = "replied", ![c].code = "Unimplemented"]
    /\ UNCHANGED <<up, sent, answer, knownMethods, requests, activeStreams>>

\* The generated handler of a unary method decodes the request before it
\* calls the interceptors: a request it cannot decode is neither
\* authenticated nor counted.
RejectMalformed(c) ==
    /\ up /\ call[c].at = "arrived" /\ Served(sent[c].path)
    /\ Desc(c).type = "unary" /\ sent[c].body = Malformed
    /\ call' = [call EXCEPT ![c].at = "replied", ![c].code = "Internal"]
    /\ UNCHANGED <<up, sent, answer, knownMethods, requests, activeStreams>>

EnterUnary(c) ==
    /\ up /\ call[c].at = "arrived" /\ Served(sent[c].path)
    /\ Desc(c).type = "unary" /\ sent[c].body # Malformed
    /\ call' = [call EXCEPT ![c].at = "entered",
                            ![c].req = Decode(Desc(c).req, Wire(c))]
    /\ UNCHANGED <<up, sent, answer, knownMethods, requests, activeStreams>>

\* Mutant: the stream is not counted in.
EnterStreamUncounted(c) ==
    /\ up /\ call[c].at = "arrived" /\ Served(sent[c].path)
    /\ Desc(c).type = "stream"
    /\ call' = [call EXCEPT ![c].at = "entered"]
    /\ knownMethods' = Cached(sent[c].path)
    /\ UNCHANGED <<up, sent, answer, requests, activeStreams>>

EnterStream(c) ==
    /\ up /\ call[c].at = "arrived" /\ Served(sent[c].path)
    /\ Desc(c).type = "stream"
    /\ call' = [call EXCEPT ![c].at = "entered"]
    /\ knownMethods' = Cached(sent[c].path)
    /\ activeStreams' = activeStreams + 1
    /\ UNCHANGED <<up, sent, answer, requests>>

\* The interceptor of a unary call, or the Heartbeat handler itself.
Authenticate(c) ==
    /\ up /\ call[c].at = "entered"
    /\ LET verdict == validateBearerToken(sent[c].tokens)
       IN  call' = [call EXCEPT
                      ![c].at = IF verdict = "OK" THEN "handling" ELSE "returned",
                      ![c].code = verdict]
    /\ UNCHANGED <<up, sent, answer, knownMethods, requests, activeStreams>>

\* The handler goes on with a request: it is refused, or handed over and
\* answered.
Proceed(c, req, at) ==
    call' = [call EXCEPT ![c] =
        IF validateAll(Checks(Method(c), req))
        THEN [@ EXCEPT !.at = at, !.req = req, !.code = "OK",
                       !.resp = Response(Method(c), req),
                       !.handed = Handed(Method(c), req)]
        ELSE [@ EXCEPT !.at = "returned", !.req = req, !.code = "InvalidArgument"]]

\* Mutant: nil resources are met before the request is validated.
FatalUnchecked(c) ==
    /\ Method(c) = "Register"
    /\ call[c].req.Resources = Nil

\* A Register without Resources that passes validation.
Fatal(c) ==
    /\ Method(c) = "Register"
    /\ validateAll(Checks("Register", call[c].req))
    /\ call[c].req.Resources = Nil

HandleUnary(c) ==
    /\ up /\ call[c].at = "handling" /\ Desc(c).type = "unary"
    /\ ~Fatal(c)
    /\ Proceed(c, call[c].req, "returned")
    /\ UNCHANGED <<up, sent, answer, knownMethods, requests, activeStreams>>

\* NodeRegistry.Register panics on nil resources, nothing recovers, and the
\* process is gone with everything in it.
Panic(c) ==
    /\ up /\ call[c].at = "handling" /\ Desc(c).type = "unary"
    /\ Fatal(c)
    /\ up' = FALSE
    /\ UNCHANGED <<sent, call, answer, knownMethods, requests, activeStreams>>

\* The first Recv of a stream: a message, one that cannot be decoded, or none.
RecvFirst(c) ==
    /\ up /\ call[c].at = "handling" /\ Desc(c).type = "stream"
    /\ CASE sent[c].body = Nil -> call' = [call EXCEPT ![c].at = "returned"]
         [] sent[c].body = Malformed ->
                call' = [call EXCEPT ![c].at = "returned", ![c].code = "Internal"]
         [] OTHER -> Proceed(c, Decode(Desc(c).req, Wire(c)), "streaming")
    /\ UNCHANGED <<up, sent, answer, knownMethods, requests, activeStreams>>

\* Mutant: the loop hands over the first message once more.
ProceedLaterWithFirst(c, req) ==
    IF validateAll(Checks("Heartbeat", req))
    THEN [call[c] EXCEPT !.req = req, !.handed = Handed("Heartbeat", sent[c].body)]
    ELSE [call[c] EXCEPT !.at = "returned", !.req = req, !.code = "InvalidArgument"]

\* The receive loop goes on with a decoded message: it is refused and the
\* handler returns, or it is handed over.
ProceedLater(c, req) ==
    IF validateAll(Checks("Heartbeat", req))
    THEN [call[c] EXCEPT !.req = req, !.handed = Handed("Heartbeat", req)]
    ELSE [call[c] EXCEPT !.at = "returned", !.req = req, !.code = "InvalidArgument"]

\* A further message on a stream, or one that cannot be decoded.
RecvLater(c, m) ==
    /\ up /\ call[c].at = "streaming"
    /\ LET next == IF m = Malformed
                   THEN [call[c] EXCEPT !.at = "returned", !.code = "Internal"]
                   ELSE ProceedLater(c, Decode("HeartbeatRequest",
                                               Encode("HeartbeatRequest", m)))
       IN  call' = [call EXCEPT ![c] = [next EXCEPT !.last = m]]
    /\ UNCHANGED <<up, sent, answer, knownMethods, requests, activeStreams>>

\* The client closes the stream.
CloseStream(c) ==
    /\ up /\ call[c].at = "streaming"
    /\ call' = [call EXCEPT ![c].at = "returned"]
    /\ UNCHANGED <<up, sent, answer, knownMethods, requests, activeStreams>>

\* What grpc-go reports of a connection that is gone.
BrokenCodes == {"Canceled", "Unavailable"}

\* The connection broke: Recv fails, or the Send of the first ack.
StreamBroken(c) ==
    /\ up /\ call[c].at \in {"handling", "streaming"} /\ Desc(c).type = "stream"
    /\ answer[c].code = "Unavailable"
    /\ \E code \in BrokenCodes :
         call' = [call EXCEPT ![c].at = "returned", ![c].code = code]
    /\ UNCHANGED <<up, sent, answer, knownMethods, requests, activeStreams>>

\* Mutant: a call that was refused is not counted.
CountAccepted(c) ==
    /\ up /\ call[c].at = "returned"
    /\ call' = [call EXCEPT ![c].at = "replied"]
    /\ knownMethods' = Cached(sent[c].path)
    /\ requests' = IF call[c].code = "OK"
                   THEN requests (+) SetToBag({<<sanitizeMethod(sent[c].path),
                                                 Desc(c).type, call[c].code>>})
                   ELSE requests
    /\ activeStreams' = IF Desc(c).type = "stream" THEN activeStreams - 1
                                                   ELSE activeStreams
    /\ UNCHANGED <<up, sent, answer>>

\* The metrics interceptor counts the call.
Count(c) ==
    /\ up /\ call[c].at = "returned"
    /\ call' = [call EXCEPT ![c].at = "replied"]
    /\ knownMethods' = Cached(sent[c].path)
    /\ requests' = requests (+) SetToBag({<<sanitizeMethod(sent[c].path),
                                            Desc(c).type, call[c].code>>})
    /\ activeStreams' = IF Desc(c).type = "stream" THEN activeStreams - 1
                                                   ELSE activeStreams
    /\ UNCHANGED <<up, sent, answer>>

\* The stub returns the decoded response, or nil and the error.
Deliver(c) ==
    /\ up /\ call[c].at = "replied" /\ answer[c] = NoAnswer
    /\ answer' = [answer EXCEPT ![c] =
         [code |-> call[c].code,
          msg |-> IF call[c].resp = Nil THEN Nil
                  ELSE Decode(Desc(c).resp, Encode(Desc(c).resp, call[c].resp))]]
    /\ UNCHANGED <<up, sent, call, knownMethods, requests, activeStreams>>

\* The connection breaks, or the process is gone: the client gets an error,
\* whatever becomes of its call.
Lose(c) ==
    /\ Waiting(c)
    /\ answer' = [answer EXCEPT ![c] = [code |-> "Unavailable", msg |-> Nil]]
    /\ UNCHANGED <<up, sent, call, knownMethods, requests, activeStreams>>

\* Nothing is left to do.
Rest ==
    /\ \A c \in Calls : ~Waiting(c) /\ (up => call[c].at = "replied")
    /\ UNCHANGED rpcVars

\* What the server and the way back do by themselves.
ServerStep(c) ==
    \/ RejectUnknown(c) \/ RejectMalformed(c) \/ EnterUnary(c) \/ EnterStream(c)
    \/ Authenticate(c) \/ HandleUnary(c) \/ Panic(c) \/ RecvFirst(c)
    \/ (\E m \in Later : RecvLater(c, m)) \/ CloseStream(c) \/ StreamBroken(c)
    \/ Count(c) \/ Deliver(c)

RpcNext ==
    \/ \E c \in Calls : \/ \E o \in Offers[c] : Invoke(c, o)
                        \/ ServerStep(c)
                        \/ Lose(c)
    \/ Rest

RpcSpec == RpcInit /\ [][RpcNext]_rpcVars

-----------------------------------------------------------------------------
(* Properties.                                                             *)

CallAts == {"none", "arrived", "entered", "handling", "streaming", "returned",
            "replied"}

Codes == {"OK", "Unimplemented", "Internal", "Unauthenticated",
          "PermissionDenied", "InvalidArgument", "Canceled", "Unavailable"}

\* Type invariant: a request the server holds is a message of the type its
\* method takes, with every field of that type.
RpcTypeOK ==
    /\ up \in BOOLEAN
    /\ \A c \in Calls :
         /\ call[c].at \in CallAts
         /\ call[c].code \in Codes
         /\ answer[c].code \in Codes \cup {"none"}
         /\ call[c].req # Nil => DOMAIN call[c].req = DOMAIN Schema[Desc(c).req]
         /\ call[c].last \in Later \cup {Nil}
    /\ IsABag(requests)
    /\ activeStreams \in 0..Cardinality(Calls)

IDs(max) == {t \in SafeID \ WithNul : Length[t] \in 1..max}

\* What the fields of a request may be, field by field.
Accepts ==
    [Register |-> [NodeId |-> IDs(Limits.NodeID),
                   Address |-> {t \in Text \ WithNul : Length[t] <= Limits.Address},
                   AgentVersion |-> {t \in Text \ WithNul : Length[t] <= Limits.Version}],
     Heartbeat |-> [NodeId |-> IDs(Limits.NodeID)],
     ExecuteTask |-> [TaskId |-> IDs(Limits.TaskID), JobId |-> IDs(Limits.JobID),
                      ContainerImage |-> {t \in ImageRef \ WithNul :
                                            Length[t] \in 1..Limits.ContainerImage},
                      Priority |-> 0..Limits.Priority],
     AllocateMemory |-> [AllocationId |-> IDs(Limits.AllocationID),
                         SizeBytes |-> 1..Limits.Memory,
                         ReplicationFactor |-> 0..Limits.Replicas],
     AllocateGPUMemory |-> [AllocationId |-> IDs(Limits.AllocationID),
                            SizeBytes |-> 1..Limits.GPUMem,
                            GpuDeviceIndex |-> Nat \cup {-1}],
     FreeMemory |-> [AllocationId |-> IDs(Limits.AllocationID)],
     FreeGPUMemory |-> [AllocationId |-> IDs(Limits.AllocationID)]]

\* A request as its client built it is acceptable.
Legal(m, body) ==
    /\ \A f \in DOMAIN Accepts[m] : body[f] \in Accepts[m][f]
    /\ m = "Heartbeat" => Len(body.Tasks) \in 0..Limits.TasksPerHeartbeat
    /\ m = "ExecuteTask" =>
         /\ Cardinality(DOMAIN body.Env) \in 0..Limits.EnvCount
         /\ \A k \in DOMAIN body.Env : /\ Length[k] \in 1..Limits.EnvKey
                                       /\ Length[body.Env[k]] \in 0..Limits.EnvValue
         /\ Cardinality(UNION {{i} \X (1..Length[body.Command[i]]) :
                                 i \in DOMAIN body.Command}) <= Limits.Command

\* The code a message deserves of a handler.
Judged(m, body) ==
    CASE body = Malformed -> "Internal"
      [] body = Nil -> "OK"
      [] OTHER -> IF Legal(m, body) THEN "OK" ELSE "InvalidArgument"

\* The code the request of a call deserves, in the order in which the server
\* finds out.
Verdict(c) ==
    LET o == sent[c]
        stream == Method(c) = "Heartbeat"
    IN  CASE ~Served(o.path) -> "Unimplemented"
          [] Served(o.path) /\ ~stream /\ o.body = Malformed -> "Internal"
          [] Served(o.path) /\ (stream \/ o.body # Malformed)
                /\ AgentToken # "" /\ Bearer(AgentToken) \notin ToSet(o.tokens) ->
                IF o.tokens = << >> THEN "Unauthenticated" ELSE "PermissionDenied"
          [] OTHER -> Judged(Method(c), o.body)

\* The code a call deserves when the messages that followed are counted in.
Deserved(c) ==
    IF Verdict(c) = "OK" /\ call[c].last # Nil THEN Judged("Heartbeat", call[c].last)
                                              ELSE Verdict(c)

\* The code a call ends with says what its request, its tokens and, on a
\* stream, the last of its messages deserve: nothing that is refused here gets
\* past the chain of decoding, authentication and validation, in the first
\* message or in a later one, and nothing legal is refused, however the fields
\* travelled.  Only a stream whose connection broke ends otherwise.
CodeTellsWhy ==
    \A c \in Calls :
        call[c].at = "replied" =>
            \/ call[c].code = Deserved(c)
            \/ /\ Method(c) = "Heartbeat"
               /\ call[c].code \in BrokenCodes /\ answer[c].code = "Unavailable"

\* Message m is the answer to an accepted request.
Answers(method, m, body) ==
    CASE method = "Register" -> m.Accepted /\ m.ClusterId = ClusterID
      [] method = "Heartbeat" -> m.Acknowledged /\ m.Sequence = body.Sequence
      [] method = "ExecuteTask" -> m.Accepted /\ m.Error = ""
      [] method = "AllocateMemory" ->
            /\ Get("MemoryHandle", m.Handle, "AllocationId") = body.AllocationId
            /\ Get("MemoryHandle", m.Handle, "SizeBytes") = body.SizeBytes
      [] method = "AllocateGPUMemory" ->
            /\ Get("GPUHandle", m.Handle, "AllocationId") = body.AllocationId
            /\ Get("GPUHandle", m.Handle, "SizeBytes") = body.SizeBytes
      [] OTHER -> m.Success

\* The message a handler is at.
Latest(c) == IF call[c].last = Nil THEN sent[c].body ELSE call[c].last

\* Nobody gets another's message, or a stale one.  What a handler hands to the
\* registry is what its own client said last, and only for a call with a right
\* to it: no message that is refused reaches the registry, on a stream that was
\* accepted either.  What a client gets answers its own request, with the
\* handle of the allocation and the sequence number it asked with; it is there
\* when the call succeeds and, for all but a stream, nil when it does not.
EachGetsItsOwn ==
    \A c \in Calls :
        LET m == answer[c].msg
            body == sent[c].body
            handed == call[c].handed
        IN  /\ handed # Nil =>
                 /\ Verdict(c) = "OK"
                 /\ Deserved(c) = "OK" => handed = Handed(Method(c), Latest(c))
                 /\ handed.NodeId \in IDs(Limits.NodeID)
                 /\ Method(c) = "Heartbeat" =>
                      Len(handed.Tasks) \in 0..Limits.TasksPerHeartbeat
            /\ answer[c].code = "OK" /\ body # Nil => m # Nil
            /\ m # Nil => /\ Answers(Method(c), m, body)
                          /\ Method(c) # "Heartbeat" => answer[c].code = "OK"

\* Calls the metrics interceptor has finished with.
CountedCalls ==
    {c \in Calls : /\ call[c].at = "replied"
                   /\ Served(sent[c].path)
                   /\ Desc(c).type = "unary" => sent[c].body # Malformed}

\* The request counter holds every call that got past the generated decoder
\* exactly once, under its own full name, its kind and its code, and nothing
\* else: refused calls count, two methods never share a label, and the cache
\* of labels holds nothing the server does not serve.  The stream gauge is
\* the number of streams still inside.
CountedUnderOwnName ==
    up => /\ \A k \in BagToSet(requests) \cup
                      {<<sent[c].path, Desc(c).type, call[c].code>> : c \in CountedCalls} :
               (IF BagIn(k, requests) THEN requests[k] ELSE 0) =
                 Cardinality({c \in CountedCalls :
                                k = <<sent[c].path, Desc(c).type, call[c].code>>})
          /\ \A p \in knownMethods : p \in knownServiceMethods \/ Served(p)
          /\ activeStreams =
               Cardinality({c \in Calls :
                   /\ call[c].at \in {"entered", "handling", "streaming", "returned"}
                   /\ Method(c) = "Heartbeat"})

\* The process dies only of a Register that was let in, is legal and carries
\* no Resources at all.  An agent that found nothing sends empty Resources,
\* which arrive as such.
DiesOnlyOfMissingResources ==
    ~up => \E c \in Calls :
              /\ sent[c].path = FullMethodName("Register")
              /\ Verdict(c) = "OK"
              /\ sent[c].body.Resources = Nil
=============================================================================
