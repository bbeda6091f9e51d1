------------------------------- MODULE MCRpc --------------------------------
(***************************************************************************)
(* Calls to the service on a small instance.  The first call is any of the *)
(* requests below: one that is in order, and every one that differs from   *)
(* it in a field, its tokens or its encoding; the second is one of a few.  *)
(* The limits are scaled down and all different.                           *)
(***************************************************************************)
EXTENDS Rpc

CONSTANTS First, Second     \* the two calls

MCLimits ==
    [NodeID |-> 3, TaskID |-> 4, JobID |-> 5, AllocationID |-> 6,
     ContainerImage |-> 7, Command |-> 4, EnvKey |-> 2, EnvValue |-> 3,
     EnvCount |-> 1, Memory |-> 9, GPUMem |-> 8, Replicas |-> 2, Priority |-> 3,
     TasksPerHeartbeat |-> 1, Version |-> 4, Address |-> 5]

\* Safe strings of every length up to one more than any limit, and the other
\* kinds: with a null byte, with other characters, an image reference that is
\* no id.
Safe == [i \in 1..8 |-> <<"a", "ab", "abc", "abcd", "abcde", "abcdef", "abcdefg",
                          "abcdefgh">>[i]]

MCText == {"", "nul", "a b", "r/i:t"} \cup Range(Safe)

MCLength ==
    [t \in MCText |-> CASE t = "" -> 0 [] t \in {"nul", "a b"} -> 3 [] t = "r/i:t" -> 5
                        [] OTHER -> CHOOSE i \in 1..8 : Safe[i] = t]

MCSafeID == Range(Safe)

MCImageRef == Range(Safe) \cup {"r/i:t"}

\* A message with something in every field.
RECURSIVE Filled(_)
Filled(T) ==
    LET One(type) == CASE type \in DOMAIN Schema -> Filled(type)
                       [] type = "string" -> "a"
                       [] type = "bool" -> TRUE
                       [] type = "map" -> "a"
                       [] OTHER -> 1
    IN  [f \in DOMAIN Schema[T] |->
            CASE Schema[T][f].type = "map" -> [k \in {"a"} |-> "a"]
              [] Schema[T][f].rep -> <<One(Schema[T][f].type)>>
              [] OTHER -> One(Schema[T][f].type)]

\* The values a field is varied over.
Variants(m, f) ==
    CASE f \in {"NodeId", "TaskId", "JobId", "AllocationId"} -> MCText
      [] f \in {"ContainerImage", "Address", "AgentVersion"} -> MCText
      [] f = "Command" -> {<< >>, <<"abc", "a">>, <<"abc", "ab">>, <<"abcde">>}
      [] f = "Env" -> {<< >>, [k \in {"", "a"} |-> ""], [k \in {""} |-> ""],
                       [k \in {"ab"} |-> "abc"], [k \in {"abc"} |-> ""],
                       [k \in {"a"} |-> "abcd"]}
      [] f = "Priority" -> {-1, 0, 3, 4}
      [] f = "ReplicationFactor" -> {-1, 0, 2, 3}
      [] f = "SizeBytes" -> {0, 8, 9, 10}
      [] f = "GpuDeviceIndex" -> {-2, -1, 0}
      [] f = "Tasks" -> {<< >>, <<Reset("TaskStatus"), Filled("TaskStatus")>>}
      [] f = "Resources" -> {Nil, Reset("NodeResources"),
                             New("NodeResources", [Gpus |-> <<Reset("GpuResources")>>])}
      [] f = "Utilization" -> {Nil, Reset("NodeUtilization")}
      [] f = "Consistency" -> {Nil, New("ConsistencyMode",
                                        [Mode |-> ConsistencyMode_Mode.STRICT])}
      [] OTHER -> {}

Offer(m, body, tokens) == [path |-> FullMethodName(m), body |-> body, tokens |-> tokens]

\* A message with another value in a field.
With(msg, field, v) == [f \in DOMAIN msg |-> IF f = field THEN v ELSE msg[f]]

Right == Bearer(AgentToken)

Base(m) == Offer(m, Filled(ServiceDesc[m].req), <<Right>>)

\* A request with nothing set.
Empty(m) == Offer(m, Reset(ServiceDesc[m].req), <<Right>>)

Varied(m) ==
    UNION {{Offer(m, With(Filled(ServiceDesc[m].req), f, v), <<Right>>) :
              v \in Variants(m, f)} : f \in DOMAIN Schema[ServiceDesc[m].req]}

Unknown == {[path |-> p, body |-> Malformed, tokens |-> <<Right>>] :
              p \in {<<"compute", "v1", "MemoryService", "GetRegion">>,
                     FullMethodName("Nope"), <<"AgentService", "Register">>}}

Odd(m) ==
    {[Base(m) EXCEPT !.tokens = ts] :
        ts \in {<< >>, <<Bearer("a b")>>, <<Bearer("a b"), Right>>}}
    \cup {[Base(m) EXCEPT !.body = Malformed],
          [Base(m) EXCEPT !.body = Malformed, !.tokens = << >>]}

MCOffers ==
    (First :> (Unknown
               \cup {[Base("Heartbeat") EXCEPT !.body = Nil]}
               \cup UNION {{Base(m), Empty(m)} \cup Odd(m) \cup Varied(m) : m \in DOMAIN ServiceDesc}))
    @@ (Second :> {Base("Register"), Base("Heartbeat"), Base("FreeMemory"),
                   [Base("Heartbeat") EXCEPT !.tokens = << >>],
                   Offer("Register", With(Filled("RegisterRequest"), "Resources", Nil), <<Right>>)})

\* What may follow on a stream: a message of another node, one with a task too
\* many, one with an id too long, and one that is none.
MCLater ==
    {New("HeartbeatRequest", [NodeId |-> "ab", Sequence |-> 2]),
     With(Filled("HeartbeatRequest"), "Tasks", <<Reset("TaskStatus"), Reset("TaskStatus")>>),
     With(Filled("HeartbeatRequest"), "NodeId", Safe[4]),
     Malformed}
=============================================================================
