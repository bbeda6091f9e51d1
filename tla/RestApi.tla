------------------------------ MODULE RestApi -------------------------------
(***************************************************************************)
(* The HTTP side of the control plane                                      *)
(* (control-plane/internal/restapi/restapi.go) on top of the registry and  *)
(* its lock: the API key, the three routes, the listing NodesHandler makes *)
(* of what GetAll returned, and clients that may take as long as they like *)
(* to read their response.                                                 *)
(*                                                                         *)
(* Each goroutine of Readers serves one connection, request by request.    *)
(* A response is its status; the listing's contents are compared when it   *)
(* is made.  Headers and JSON are left out.                                *)
(***************************************************************************)
EXTENDS LockedRegistry, Messages

CONSTANTS
    ApiKey,         \* --api-key, "" if none
    Requests,       \* requests: [route, header, query], the two keys "" if absent
    Registration,   \* profile -> the [Address, Resources] it stands for
    GiB             \* 1024 * 1024 * 1024

\* Register takes no registration without Resources: it panics.
ASSUME RegistrationAssumption == \A p \in Profiles : Registration[p].Resources # Nil

VARIABLE http       \* goroutine -> [at, and req or status]

restVars == <<lockedVars, http>>

-----------------------------------------------------------------------------
(* Shapes.                                                                 *)

\* Bytes in GiB, as whole part and rest.
GB(bytes) == <<bytes \div GiB, bytes % GiB>>

cpuSummary(c) ==
    IF c = Nil
    THEN [PhysicalCores |-> 0, LogicalCores |-> 0, Architecture |-> "", Model |-> ""]
    ELSE [PhysicalCores |-> c.PhysicalCores, LogicalCores |-> c.LogicalCores,
          Architecture |-> c.Architecture, Model |-> c.ModelName]

memorySummary(m) == [TotalGB |-> IF m = Nil THEN GB(0) ELSE GB(m.TotalBytes)]

\* Mutant: a device is numbered by its place in the list.
gpuSummaryByPlace(gs) ==
    [i \in DOMAIN gs |->
        [Index |-> i - 1, Vendor |-> gs[i].Vendor, Model |-> gs[i].Model,
         VRamGB |-> GB(gs[i].VramBytes)]]

gpuSummary(gs) ==
    [i \in DOMAIN gs |->
        [Index |-> gs[i].Index, Vendor |-> gs[i].Vendor, Model |-> gs[i].Model,
         VRamGB |-> GB(gs[i].VramBytes)]]

\* The response for one node, from what GetAll copied of it.
NodeResponse(n, summary) ==
    LET r == Registration[summary.profile]
    IN  [NodeID |-> n, Hostname |-> r.Resources.Hostname, Address |-> r.Address,
         CPU |-> cpuSummary(r.Resources.Cpu),
         Memory |-> memorySummary(r.Resources.Memory),
         GPUs |-> gpuSummary(r.Resources.Gpus)]

NodesResponse(all) == {NodeResponse(n, all[n]) : n \in DOMAIN all}

-----------------------------------------------------------------------------
NoRequest == [at |-> "none"]

\* What the gRPC handlers call: nothing calls Remove.
HandlerCalls == {o \in WriteCalls : o.kind # "Remove"}

RestInit ==
    /\ LockedInit
    /\ http = [t \in Readers |-> NoRequest]

\* The status a response starts with; then it is written.
Answer(t, status) ==
    http' = [http EXCEPT ![t] = [at |-> "writing", status |-> status]]

\* The query's key counts only if there is none in the header.
RequireAPIKey(req) ==
    \/ ApiKey = ""
    \/ (IF req.header = "" THEN req.query ELSE req.header) = ApiKey

HealthHandler(t, req) ==
    /\ http[t].at = "none" /\ req.route = "/health"
    /\ Answer(t, 200)
    /\ UNCHANGED lockedVars

Unauthorized(t, req) ==
    /\ http[t].at = "none" /\ req.route \in {"/api/v1/nodes", "/metrics"}
    /\ ~RequireAPIKey(req)
    /\ Answer(t, 401)
    /\ UNCHANGED lockedVars

\* The Prometheus handler reads the gauges without the registry's lock.
MetricsHandler(t, req) ==
    /\ http[t].at = "none" /\ req.route = "/metrics"
    /\ RequireAPIKey(req)
    /\ Answer(t, 200)
    /\ UNCHANGED lockedVars

NodesHandler(t, req) ==
    /\ http[t].at = "none" /\ req.route = "/api/v1/nodes"
    /\ RequireAPIKey(req)
    /\ CallGetAll(t)
    /\ http' = [http EXCEPT ![t] = [at |-> "listing", req |-> req]]

\* Mutant: the read lock is kept until the response is written.
NodesReturnedLocked(t) ==
    /\ http[t].at = "listing"
    /\ pc[t] = "copy" /\ Wanted(t) \subseteq DOMAIN out[t]
    /\ Answer(t, 200)
    /\ UNCHANGED lockedVars

\* GetAll returns and the response is encoded from its copy.
NodesReturned(t) ==
    /\ http[t].at = "listing"
    /\ RUnlock(t)
    /\ Answer(t, 200)

\* The client has read its response, or WriteTimeout is over.
Written(t) ==
    /\ http[t].at = "writing"
    /\ http' = [http EXCEPT ![t] = NoRequest]
    /\ UNCHANGED lockedVars

RestNext ==
    \/ /\ \/ \E t \in Handlers :
                \/ \E o \in HandlerCalls : CallWrite(t, o)
                \/ \E o \in ReadCalls : CallConnectionID(t, o)
                \/ RUnlock(t)
          \/ CallCleanup
          \/ \E t \in Threads : Lock(t) \/ Inside(t)
          \/ InsideCleanup
          \/ LockedTick
       /\ UNCHANGED http
    \/ \E t \in Readers :
         \/ \E req \in Requests : \/ HealthHandler(t, req) \/ Unauthorized(t, req)
                                  \/ MetricsHandler(t, req) \/ NodesHandler(t, req)
         \/ NodesReturned(t)
         \/ Written(t)

RestSpec == RestInit /\ [][RestNext]_restVars

(* As in LockedRegistry; nothing is assumed of the clients, so a response  *)
(* may stay unread.                                                        *)
RestFairSpec ==
    /\ RestSpec
    /\ \A t \in Threads : /\ WF_restVars(Inside(t) /\ UNCHANGED http)
                          /\ SF_restVars(Lock(t) /\ UNCHANGED http)
    /\ \A t \in Handlers : WF_restVars(RUnlock(t) /\ UNCHANGED http)
    /\ \A t \in Readers : WF_restVars(NodesReturned(t))
    /\ WF_restVars(InsideCleanup /\ UNCHANGED http)

-----------------------------------------------------------------------------
(* Properties.                                                             *)

\* A field of a nested message that may be missing.
Field(res, part, T, f) == Get(T, Get("NodeResources", res, part), f)

\* What a listing should show of a node: what its agent registered with last,
\* and zero for what it left out.
Expected(n) ==
    LET reg == Registration[profile[n]]
        res == reg.Resources
    IN  [NodeID |-> n, Hostname |-> res.Hostname, Address |-> reg.Address,
         CPU |-> [PhysicalCores |-> Field(res, "Cpu", "CpuResources", "PhysicalCores"),
                  LogicalCores |-> Field(res, "Cpu", "CpuResources", "LogicalCores"),
                  Architecture |-> Field(res, "Cpu", "CpuResources", "Architecture"),
                  Model |-> Field(res, "Cpu", "CpuResources", "ModelName")],
         Memory |-> [TotalGB |-> GB(Field(res, "Memory", "MemoryResources", "TotalBytes"))],
         GPUs |-> [i \in DOMAIN res.Gpus |->
                    [Index |-> res.Gpus[i].Index, Vendor |-> res.Gpus[i].Vendor,
                     Model |-> res.Gpus[i].Model, VRamGB |-> GB(res.Gpus[i].VramBytes)]]]

\* What the response to t's request, if this step makes it, lists.
ListsRegistry(t) ==
    http[t].at = "listing" /\ http'[t].at = "writing" =>
        /\ NodesResponse(out[t]) = {Expected(n) : n \in DOMAIN nodes}
        /\ LET req == http[t].req
           IN  ApiKey \in {"", req.header} \/ <<req.header, req.query>> = <<"", ApiKey>>

\* A listing shows every registered node exactly once and nothing else, each
\* with what it registered with last: the registry at the moment GetAll
\* returned, whatever was registered, removed or cleaned up while the request
\* was under way, and with agents that left out any part of their resources.
\* It is made only for a request whose key, the header's before the query's,
\* is the right one.
ListingIsRegistry == [][\A t \in Readers : ListsRegistry(t)]_restVars
=============================================================================
