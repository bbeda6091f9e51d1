------------------------------ MODULE Messages ------------------------------
(***************************************************************************)
(* The protobuf messages of AgentService as the control plane's generated  *)
(* code declares them (control-plane/gen/compute/v1/agent.pb.go and        *)
(* resource.pb.go), and what the generated methods and the wire do to      *)
(* them.                                                                   *)
(*                                                                         *)
(* A message type is a function from the fields of its Go struct to their  *)
(* protobuf tags: the number, the type and whether the field is repeated.  *)
(* A message is a function from the same fields to values; Nil is the nil  *)
(* pointer.  A string is opaque here, "" the empty one; floating-point     *)
(* numbers are integers.  The reflection methods (ProtoReflect,            *)
(* Descriptor) give the protobuf library these same tags.                  *)
(*                                                                         *)
(* The messages of the job, storage, memory and control services are not   *)
(* here: no code sends or receives them.                                   *)
(***************************************************************************)
EXTENDS Integers, Sequences

CONSTANT Nil    \* the nil pointer

Opt(num, type) == [num |-> num, type |-> type, rep |-> FALSE]

Rep(num, type) == [num |-> num, type |-> type, rep |-> TRUE]

-----------------------------------------------------------------------------
(* Enumerations.  They are open: a number without a name is kept.          *)

TaskState ==
    [TASK_STATE_UNKNOWN |-> 0, TASK_STATE_PENDING |-> 1,
     TASK_STATE_RUNNING |-> 2, TASK_STATE_COMPLETED |-> 3,
     TASK_STATE_FAILED |-> 4, TASK_STATE_PREEMPTED |-> 5,
     TASK_STATE_CANCELLED |-> 6]

ConsistencyMode_Mode == [STRICT |-> 0, RELAXED |-> 1, RELEASE |-> 2]

GpuCapability_Cap ==
    [FP64 |-> 0, FP32 |-> 1, FP16 |-> 2, BF16 |-> 3, INT8 |-> 4, INT4 |-> 5,
     TF32 |-> 6, FP8 |-> 7]

AffinityRule_Type ==
    [SAME_NODE_AS_DATA |-> 0, SAME_NODE_AS_SERVICE |-> 1,
     DIFFERENT_NODE_THAN_SERVICE |-> 2, SAME_RACK |-> 3, SAME_SWITCH |-> 4]

-----------------------------------------------------------------------------
(* Messages of the agent service.                                          *)

RegisterRequest ==
    [NodeId |-> Opt(1, "string"), Address |-> Opt(2, "string"),
     Resources |-> Opt(3, "NodeResources"), AgentVersion |-> Opt(4, "string")]

RegisterResponse ==
    [Accepted |-> Opt(1, "bool"), ClusterId |-> Opt(2, "string"),
     ControlPlaneLeader |-> Opt(3, "string"),
     HeartbeatIntervalMs |-> Opt(4, "uint64")]

HeartbeatRequest ==
    [NodeId |-> Opt(1, "string"), Sequence |-> Opt(2, "uint64"),
     Utilization |-> Opt(3, "NodeUtilization"), Tasks |-> Rep(4, "TaskStatus")]

HeartbeatResponse ==
    [Acknowledged |-> Opt(1, "bool"), Sequence |-> Opt(4, "uint64"),
     PendingTasks |-> Rep(2, "PendingTask"),
     CancelTaskIds |-> Rep(3, "string")]

TaskSpec ==
    [TaskId |-> Opt(1, "string"), JobId |-> Opt(2, "string"),
     ContainerImage |-> Opt(3, "string"), Command |-> Rep(4, "string"),
     Env |-> Rep(5, "map"), Requirements |-> Opt(6, "ResourceRequirements"),
     MemoryHandles |-> Rep(7, "MemoryHandle"),
     GpuHandles |-> Rep(8, "GPUHandle"), Priority |-> Opt(9, "int32")]

TaskAck ==
    [Accepted |-> Opt(1, "bool"), Error |-> Opt(2, "string")]

PendingTask ==
    [Spec |-> Opt(1, "TaskSpec")]

TaskStatus ==
    [TaskId |-> Opt(1, "string"), State |-> Opt(2, "TaskState"),
     Utilization |-> Opt(3, "ResourceUtilization"),
     StartedAtNs |-> Opt(4, "int64"), ErrorMessage |-> Opt(5, "string")]

MemoryAllocRequest ==
    [AllocationId |-> Opt(1, "string"), SizeBytes |-> Opt(2, "uint64"),
     Consistency |-> Opt(3, "ConsistencyMode"),
     UseHugepages |-> Opt(4, "bool"), ReplicationFactor |-> Opt(5, "int32")]

ConsistencyMode ==
    [Mode |-> Opt(1, "ConsistencyMode_Mode")]

MemoryAllocResponse ==
    [Success |-> Opt(1, "bool"), Handle |-> Opt(2, "MemoryHandle"),
     Error |-> Opt(3, "string")]

MemoryHandle ==
    [AllocationId |-> Opt(1, "string"), NodeId |-> Opt(2, "string"),
     RemoteKey |-> Opt(3, "uint64"), Address |-> Opt(4, "uint64"),
     SizeBytes |-> Opt(5, "uint64")]

FreeMemoryRequest ==
    [AllocationId |-> Opt(1, "string")]

FreeMemoryResponse ==
    [Success |-> Opt(1, "bool")]

GPUMemoryAllocRequest ==
    [AllocationId |-> Opt(1, "string"), SizeBytes |-> Opt(2, "uint64"),
     GpuDeviceIndex |-> Opt(3, "int32")]

GPUMemoryAllocResponse ==
    [Success |-> Opt(1, "bool"), Handle |-> Opt(2, "GPUHandle"),
     Error |-> Opt(3, "string")]

GPUHandle ==
    [AllocationId |-> Opt(1, "string"), NodeId |-> Opt(2, "string"),
     GpuDeviceIndex |-> Opt(3, "int32"), GpuAddress |-> Opt(4, "uint64"),
     SizeBytes |-> Opt(5, "uint64"), GpuRemoteKey |-> Opt(6, "uint64")]

FreeGPUMemoryRequest ==
    [AllocationId |-> Opt(1, "string")]

FreeGPUMemoryResponse ==
    [Success |-> Opt(1, "bool")]

-----------------------------------------------------------------------------
(* Resources, utilization and requirements.                                *)

NodeResources ==
    [NodeId |-> Opt(1, "string"), Hostname |-> Opt(2, "string"),
     Cpu |-> Opt(3, "CpuResources"), Memory |-> Opt(4, "MemoryResources"),
     Gpus |-> Rep(5, "GpuResources"), Storage |-> Opt(6, "StorageResources"),
     Network |-> Opt(7, "NetworkResources"),
     Capabilities |-> Rep(8, "Capability"), KernelVersion |-> Opt(9, "string"),
     OsRelease |-> Opt(10, "string")]

CpuResources ==
    [PhysicalCores |-> Opt(1, "int32"), LogicalCores |-> Opt(2, "int32"),
     Architecture |-> Opt(3, "string"), ModelName |-> Opt(4, "string"),
     FrequencyMhz |-> Opt(5, "int64"), MaxFrequencyMhz |-> Opt(6, "int64"),
     NumaNodes |-> Rep(7, "NumaNode")]

NumaNode ==
    [Id |-> Opt(1, "int32"), CoreIds |-> Rep(2, "int32"),
     MemoryBytes |-> Opt(3, "uint64")]

MemoryResources ==
    [TotalBytes |-> Opt(1, "uint64"), Hugepage_2MbCount |-> Opt(2, "uint64"),
     Hugepage_1GbCount |-> Opt(3, "uint64"), SpeedMhz |-> Opt(4, "int64"),
     Type |-> Opt(5, "string"), Tiers |-> Rep(6, "MemoryTier")]

MemoryTier ==
    [Name |-> Opt(1, "string"), TotalBytes |-> Opt(2, "uint64"),
     AvailableBytes |-> Opt(3, "uint64"), LatencyNs |-> Opt(4, "int64"),
     BandwidthMbps |-> Opt(5, "int64")]

GpuResources ==
    [Index |-> Opt(1, "int32"), Vendor |-> Opt(2, "string"),
     Model |-> Opt(3, "string"), Architecture |-> Opt(4, "string"),
     ArchitectureGeneration |-> Opt(5, "int32"),
     VramBytes |-> Opt(6, "uint64"), ComputeCapability |-> Opt(7, "string"),
     Capabilities |-> Rep(8, "GpuCapability"),
     MultiprocessorCount |-> Opt(9, "int32"), MaxClockMhz |-> Opt(10, "int64"),
     MemoryClockMhz |-> Opt(11, "int64"),
     MemoryBusWidthBits |-> Opt(12, "int32"),
     MemoryBandwidthMbps |-> Opt(13, "int64"),
     PcieGeneration |-> Opt(14, "int32"), PcieWidth |-> Opt(15, "int32"),
     NvlinkCount |-> Opt(16, "int32"),
     NvlinkBandwidthMbps |-> Opt(17, "int64"),
     SupportsGpudirectRdma |-> Opt(18, "bool"),
     SupportsMig |-> Opt(19, "bool"), SupportsSriov |-> Opt(20, "bool")]

GpuCapability ==
    [Cap |-> Opt(1, "GpuCapability_Cap"), Supported |-> Opt(2, "bool"),
     Tflops |-> Opt(3, "int64")]

StorageResources ==
    [Devices |-> Rep(1, "StorageDevice")]

StorageDevice ==
    [Path |-> Opt(1, "string"), Type |-> Opt(2, "string"),
     Filesystem |-> Opt(3, "string"), TotalBytes |-> Opt(4, "uint64"),
     AvailableBytes |-> Opt(5, "uint64"), ReadIops |-> Opt(6, "int64"),
     WriteIops |-> Opt(7, "int64"), ReadThroughputMbps |-> Opt(8, "int64"),
     WriteThroughputMbps |-> Opt(9, "int64")]

NetworkResources ==
    [Interfaces |-> Rep(1, "NetworkInterface"),
     TotalBandwidthMbps |-> Opt(2, "int64")]

NetworkInterface ==
    [Name |-> Opt(1, "string"), Driver |-> Opt(2, "string"),
     MacAddress |-> Opt(3, "string"), IpAddresses |-> Rep(4, "string"),
     SpeedMbps |-> Opt(5, "int64"), SupportsRdma |-> Opt(6, "bool"),
     SupportsRoce |-> Opt(7, "bool"), SupportsInfiniband |-> Opt(8, "bool"),
     PciAddress |-> Opt(9, "string"), NumaNode |-> Opt(10, "int32")]

Capability ==
    [Key |-> Opt(1, "string"), Value |-> Opt(2, "string")]

NodeUtilization ==
    [NodeId |-> Opt(1, "string"), TimestampNs |-> Opt(2, "uint64"),
     Cpu |-> Opt(3, "CpuUtilization"), Memory |-> Opt(4, "MemoryUtilization"),
     Gpus |-> Rep(5, "GpuUtilization"),
     Storage |-> Opt(6, "StorageUtilization"),
     Network |-> Opt(7, "NetworkUtilization")]

CpuUtilization ==
    [OverallPercent |-> Opt(1, "float64"),
     PerCorePercent |-> Rep(2, "float64"), Load_1M |-> Opt(3, "float64"),
     Load_5M |-> Opt(4, "float64"), Load_15M |-> Opt(5, "float64")]

MemoryUtilization ==
    [UsedBytes |-> Opt(1, "uint64"), AvailableBytes |-> Opt(2, "uint64"),
     Hugepage_2MbUsed |-> Opt(3, "uint64"),
     Hugepage_1GbUsed |-> Opt(4, "uint64")]

GpuUtilization ==
    [Index |-> Opt(1, "int32"), GpuPercent |-> Opt(2, "float64"),
     MemoryPercent |-> Opt(3, "float64"), VramUsedBytes |-> Opt(4, "uint64"),
     VramTotalBytes |-> Opt(5, "uint64"),
     TemperatureCelsius |-> Opt(6, "int32"),
     PowerDrawWatts |-> Opt(7, "int64"), PowerLimitWatts |-> Opt(8, "int64"),
     ClockMhz |-> Opt(9, "int64"), MemoryClockMhz |-> Opt(10, "int64"),
     PcieTxMbps |-> Opt(11, "float64"), PcieRxMbps |-> Opt(12, "float64"),
     NvlinkTxMbps |-> Opt(13, "float64"), NvlinkRxMbps |-> Opt(14, "float64"),
     Processes |-> Rep(15, "GpuProcess")]

GpuProcess ==
    [Pid |-> Opt(1, "int32"), Name |-> Opt(2, "string"),
     VramUsedBytes |-> Opt(3, "uint64")]

StorageUtilization ==
    [Devices |-> Rep(1, "StorageDeviceUtilization")]

StorageDeviceUtilization ==
    [Path |-> Opt(1, "string"), UsedBytes |-> Opt(2, "uint64"),
     ReadIopsCurrent |-> Opt(3, "int64"), WriteIopsCurrent |-> Opt(4, "int64"),
     ReadThroughputMbpsCurrent |-> Opt(5, "int64"),
     WriteThroughputMbpsCurrent |-> Opt(6, "int64")]

NetworkUtilization ==
    [Interfaces |-> Rep(1, "NetworkInterfaceUtilization")]

NetworkInterfaceUtilization ==
    [Name |-> Opt(1, "string"), RxMbps |-> Opt(2, "int64"),
     TxMbps |-> Opt(3, "int64"), RxPacketsPerSec |-> Opt(4, "int64"),
     TxPacketsPerSec |-> Opt(5, "int64"), RxErrors |-> Opt(6, "int64"),
     TxErrors |-> Opt(7, "int64"), RdmaRxMbps |-> Opt(8, "int64"),
     RdmaTxMbps |-> Opt(9, "int64")]

ResourceRequirements ==
    [CpuCores |-> Opt(1, "float32"), MemoryBytes |-> Opt(2, "uint64"),
     Gpus |-> Rep(3, "GpuRequirement"), StorageBytes |-> Opt(4, "uint64"),
     Replicas |-> Opt(5, "int32"), Priority |-> Opt(6, "int32"),
     Affinity |-> Rep(7, "AffinityRule"), Preemptible |-> Opt(8, "bool")]

GpuRequirement ==
    [Count |-> Opt(1, "int32"), VramBytes |-> Opt(2, "uint64"),
     RequiredCapabilities |-> Rep(3, "GpuCapability_Cap"),
     MinArchitectureGeneration |-> Opt(4, "int32"),
     Vendor |-> Opt(5, "string"), AllowSpilling |-> Opt(6, "bool")]

AffinityRule ==
    [Type |-> Opt(1, "AffinityRule_Type"), Target |-> Opt(2, "string"),
     Required |-> Opt(3, "bool")]

ResourceUtilization ==
    [CpuPercent |-> Opt(1, "float64"), MemoryBytes |-> Opt(2, "uint64"),
     GpuVramBytes |-> Opt(3, "uint64"), GpuPercent |-> Opt(4, "float64"),
     DiskBytes |-> Opt(5, "uint64"), NetworkRxMbps |-> Opt(6, "int64"),
     NetworkTxMbps |-> Opt(7, "int64")]

\* Every message type by its name.
Schema ==
    [RegisterRequest |-> RegisterRequest,
     RegisterResponse |-> RegisterResponse,
     HeartbeatRequest |-> HeartbeatRequest,
     HeartbeatResponse |-> HeartbeatResponse, TaskSpec |-> TaskSpec,
     TaskAck |-> TaskAck, PendingTask |-> PendingTask,
     TaskStatus |-> TaskStatus, MemoryAllocRequest |-> MemoryAllocRequest,
     ConsistencyMode |-> ConsistencyMode,
     MemoryAllocResponse |-> MemoryAllocResponse,
     MemoryHandle |-> MemoryHandle, FreeMemoryRequest |-> FreeMemoryRequest,
     FreeMemoryResponse |-> FreeMemoryResponse,
     GPUMemoryAllocRequest |-> GPUMemoryAllocRequest,
     GPUMemoryAllocResponse |-> GPUMemoryAllocResponse,
     GPUHandle |-> GPUHandle, FreeGPUMemoryRequest |-> FreeGPUMemoryRequest,
     FreeGPUMemoryResponse |-> FreeGPUMemoryResponse,
     NodeResources |-> NodeResources, CpuResources |-> CpuResources,
     NumaNode |-> NumaNode, MemoryResources |-> MemoryResources,
     MemoryTier |-> MemoryTier, GpuResources |-> GpuResources,
     GpuCapability |-> GpuCapability, StorageResources |-> StorageResources,
     StorageDevice |-> StorageDevice, NetworkResources |-> NetworkResources,
     NetworkInterface |-> NetworkInterface, Capability |-> Capability,
     NodeUtilization |-> NodeUtilization, CpuUtilization |-> CpuUtilization,
     MemoryUtilization |-> MemoryUtilization,
     GpuUtilization |-> GpuUtilization, GpuProcess |-> GpuProcess,
     StorageUtilization |-> StorageUtilization,
     StorageDeviceUtilization |-> StorageDeviceUtilization,
     NetworkUtilization |-> NetworkUtilization,
     NetworkInterfaceUtilization |-> NetworkInterfaceUtilization,
     ResourceRequirements |-> ResourceRequirements,
     GpuRequirement |-> GpuRequirement, AffinityRule |-> AffinityRule,
     ResourceUtilization |-> ResourceUtilization]

-----------------------------------------------------------------------------
(* What the generated methods do.                                          *)

IsMessage(field) == field.type \in DOMAIN Schema

\* The zero value of a field.
Zero(field) ==
    CASE field.rep -> << >>
      [] ~field.rep /\ IsMessage(field) -> Nil
      [] ~field.rep /\ field.type = "string" -> ""
      [] ~field.rep /\ field.type = "bool" -> FALSE
      [] OTHER -> 0

\* A composite literal: the fields it does not name are zero.
New(T, given) ==
    [f \in DOMAIN Schema[T] |->
        IF f \in DOMAIN given THEN given[f] ELSE Zero(Schema[T][f])]

\* A message after Reset.
Reset(T) == New(T, << >>)

\* A getter: the field, or its zero value on a nil message.
Get(T, m, f) == IF m = Nil THEN Zero(Schema[T][f]) ELSE m[f]

-----------------------------------------------------------------------------
(* The wire.  An encoded message is a function from the field numbers that *)
(* are present to their values.  proto3 leaves out a field with its zero   *)
(* value; a message that is set is present even if it is empty, and so is  *)
(* every element of a list.  Messages nest at most five deep, so each      *)
(* operator below is written for one level over the operator for the       *)
(* messages inside.                                                        *)

Present(T, m) == {f \in DOMAIN Schema[T] : m[f] # Zero(Schema[T][f])}

\* The field with number n among those that are present.
FieldOf(T, m, n) == CHOOSE f \in Present(T, m) : Schema[T][f].num = n

EncodeOver(Sub(_, _), T, m) ==
    LET S == Schema[T]
        Value(f) == IF ~IsMessage(S[f]) THEN m[f]
                    ELSE IF S[f].rep
                         THEN [i \in DOMAIN m[f] |-> Sub(S[f].type, m[f][i])]
                         ELSE Sub(S[f].type, m[f])
    IN  [n \in {S[f].num : f \in Present(T, m)} |-> Value(FieldOf(T, m, n))]

\* Decoding into a new message: what is absent keeps its zero value.
DecodeOver(Sub(_, _), T, wire) ==
    LET S == Schema[T]
        Value(f) == LET v == wire[S[f].num]
                    IN  IF ~IsMessage(S[f]) THEN v
                        ELSE IF S[f].rep
                             THEN [i \in DOMAIN v |-> Sub(S[f].type, v[i])]
                             ELSE Sub(S[f].type, v)
    IN  [f \in DOMAIN S |->
            IF S[f].num \in DOMAIN wire THEN Value(f) ELSE Zero(S[f])]

\* The message types that a set of types has among its fields.
Nested(types) ==
    UNION {{Schema[T][f].type : f \in DOMAIN Schema[T]} : T \in types}
        \cap DOMAIN Schema

ASSUME DepthAssumption == Nested(Nested(Nested(Nested(Nested(DOMAIN Schema))))) = {}

Innermost(T, m) == m

Encode1(T, m) == EncodeOver(Innermost, T, m)
Encode2(T, m) == EncodeOver(Encode1, T, m)
Encode3(T, m) == EncodeOver(Encode2, T, m)
Encode4(T, m) == EncodeOver(Encode3, T, m)
Encode(T, m)  == EncodeOver(Encode4, T, m)

Decode1(T, wire) == DecodeOver(Innermost, T, wire)
Decode2(T, wire) == DecodeOver(Decode1, T, wire)
Decode3(T, wire) == DecodeOver(Decode2, T, wire)
Decode4(T, wire) == DecodeOver(Decode3, T, wire)
Decode(T, wire)  == DecodeOver(Decode4, T, wire)

\* A message of type T: a value for each of its fields, a message or Nil where
\* the field is one, and a list of messages where it is a list of them.
ShapedOver(Sub(_, _), T, m) ==
    LET S == Schema[T]
    IN  /\ m = [f \in DOMAIN S |-> m[f]]
        /\ \A f \in DOMAIN S : IsMessage(S[f]) =>
             IF S[f].rep
             THEN /\ m[f] = [i \in DOMAIN m[f] |-> m[f][i]]
                  /\ \A i \in DOMAIN m[f] : Sub(S[f].type, m[f][i])
             ELSE m[f] = Nil \/ Sub(S[f].type, m[f])

Anything(T, m) == TRUE

Shaped1(T, m) == ShapedOver(Anything, T, m)
Shaped2(T, m) == ShapedOver(Shaped1, T, m)
Shaped3(T, m) == ShapedOver(Shaped2, T, m)
Shaped4(T, m) == ShapedOver(Shaped3, T, m)
Shaped(T, m)  == ShapedOver(Shaped4, T, m)
=============================================================================
