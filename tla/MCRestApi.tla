----------------------------- MODULE MCRestApi ------------------------------
(***************************************************************************)
(* The REST API on a small instance: an agent registers with all of its    *)
(* resources or with none of them.                                         *)
(***************************************************************************)
EXTENDS RestApi

CONSTANTS Full, Bare        \* the two profiles

MCRegistration ==
    [p \in {Full, Bare} |->
        [Address |-> "addr",
         Resources |->
            IF p = Bare THEN Reset("NodeResources")
            ELSE New("NodeResources",
                     [Hostname |-> "host",
                      Cpu |-> New("CpuResources", [PhysicalCores |-> 2, LogicalCores |-> 4]),
                      Memory |-> New("MemoryResources", [TotalBytes |-> 5]),
                      Gpus |-> <<New("GpuResources", [Index |-> 1, VramBytes |-> 3])>>])]]

\* With the right key in the header, in the query and behind a wrong one.
MCRequests ==
    {[route |-> "/api/v1/nodes", header |-> "key", query |-> ""],
     [route |-> "/api/v1/nodes", header |-> "bad", query |-> "key"],
     [route |-> "/metrics", header |-> "", query |-> "key"],
     [route |-> "/health", header |-> "", query |-> ""]}
=============================================================================
