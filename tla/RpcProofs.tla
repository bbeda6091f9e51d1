----------------------------- MODULE RpcProofs ------------------------------
(***************************************************************************)
(* Proofs about messages and calls, for any number of calls, any requests  *)
(* that Go's types allow, any limits and any strings.                      *)
(***************************************************************************)
EXTENDS Rpc, FiniteSetTheorems, WellFoundedInduction, TLAPS

-----------------------------------------------------------------------------
(* Field numbers.                                                          *)

\* No two fields of a message type have the same number.
Numbered(S) == \A f, g \in DOMAIN S : S[f].num = S[g].num => f = g

LEMMA FieldsNumbered == ASSUME NEW T \in DOMAIN Schema PROVE Numbered(Schema[T])
  <1> USE DEF Numbered, Opt, Rep
  <1>1. /\ Numbered(RegisterRequest)
        /\ Numbered(RegisterResponse)
        /\ Numbered(HeartbeatRequest)
        /\ Numbered(HeartbeatResponse)
    BY DEF RegisterRequest, RegisterResponse, HeartbeatRequest,
           HeartbeatResponse
  <1>2. /\ Numbered(TaskSpec)
        /\ Numbered(TaskAck)
        /\ Numbered(PendingTask)
        /\ Numbered(TaskStatus)
        /\ Numbered(MemoryAllocRequest)
        /\ Numbered(ConsistencyMode)
    BY DEF TaskSpec, TaskAck, PendingTask, TaskStatus, MemoryAllocRequest,
           ConsistencyMode
  <1>3. /\ Numbered(MemoryAllocResponse)
        /\ Numbered(MemoryHandle)
        /\ Numbered(FreeMemoryRequest)
        /\ Numbered(FreeMemoryResponse)
        /\ Numbered(GPUMemoryAllocRequest)
        /\ Numbered(GPUMemoryAllocResponse)
    BY DEF MemoryAllocResponse, MemoryHandle, FreeMemoryRequest,
           FreeMemoryResponse, GPUMemoryAllocRequest, GPUMemoryAllocResponse
  <1>4. /\ Numbered(GPUHandle)
        /\ Numbered(FreeGPUMemoryRequest)
        /\ Numbered(FreeGPUMemoryResponse)
        /\ Numbered(NodeResources)
    BY DEF GPUHandle, FreeGPUMemoryRequest, FreeGPUMemoryResponse,
           NodeResources
  <1>5. /\ Numbered(CpuResources)
        /\ Numbered(NumaNode)
        /\ Numbered(MemoryResources)
        /\ Numbered(MemoryTier)
    BY DEF CpuResources, NumaNode, MemoryResources, MemoryTier
  <1>6. /\ Numbered(GpuResources)
        /\ Numbered(GpuCapability)
        /\ Numbered(StorageResources)
    BY DEF GpuResources, GpuCapability, StorageResources
  <1>7. /\ Numbered(StorageDevice)
        /\ Numbered(NetworkResources)
        /\ Numbered(NetworkInterface)
        /\ Numbered(Capability)
    BY DEF StorageDevice, NetworkResources, NetworkInterface, Capability
  <1>8. /\ Numbered(NodeUtilization)
        /\ Numbered(CpuUtilization)
        /\ Numbered(MemoryUtilization)
    BY DEF NodeUtilization, CpuUtilization, MemoryUtilization
  <1>9. /\ Numbered(GpuUtilization)
        /\ Numbered(GpuProcess)
        /\ Numbered(StorageUtilization)
    BY DEF GpuUtilization, GpuProcess, StorageUtilization
  <1>10. /\ Numbered(StorageDeviceUtilization)
         /\ Numbered(NetworkUtilization)
         /\ Numbered(NetworkInterfaceUtilization)
         /\ Numbered(ResourceRequirements)
    BY DEF StorageDeviceUtilization, NetworkUtilization,
           NetworkInterfaceUtilization, ResourceRequirements
  <1>11. /\ Numbered(GpuRequirement)
         /\ Numbered(AffinityRule)
         /\ Numbered(ResourceUtilization)
    BY DEF GpuRequirement, AffinityRule, ResourceUtilization
  <1> QED
    BY <1>1, <1>2, <1>3, <1>4, <1>5, <1>6, <1>7, <1>8, <1>9, <1>10, <1>11 DEF Schema

-----------------------------------------------------------------------------
(* The codec.                                                              *)

\* A number on the wire leads back to its field.
LEMMA NumberLeadsBack ==
    ASSUME NEW T \in DOMAIN Schema, NEW m, NEW f \in DOMAIN Schema[T]
    PROVE  /\ f \in Present(T, m) => FieldOf(T, m, Schema[T][f].num) = f
           /\ Schema[T][f].num \in {Schema[T][g].num : g \in Present(T, m)}
                <=> m[f] # Zero(Schema[T][f])
  BY FieldsNumbered DEF Numbered, FieldOf, Present

LEMMA MessageZero ==
    ASSUME NEW field, IsMessage(field), ~field.rep
    PROVE  Zero(field) = Nil
  <1>1. "string" \notin DOMAIN Schema /\ "bool" \notin DOMAIN Schema
    BY DEF Schema
  <1> QED
    BY <1>1 DEF Zero, IsMessage

\* What d, decoded from w, needs in order to be m.
Rebuilds(T, m, w, d) ==
    /\ m = [f \in DOMAIN Schema[T] |-> m[f]]
    /\ d = [f \in DOMAIN Schema[T] |-> d[f]]
    /\ DOMAIN w = {Schema[T][f].num : f \in Present(T, m)}
    /\ \A f \in Present(T, m) : d[f] = m[f]
    /\ \A f \in DOMAIN Schema[T] :
          Schema[T][f].num \notin DOMAIN w => d[f] = Zero(Schema[T][f])

LEMMA Reassembled ==
    ASSUME NEW T \in DOMAIN Schema, NEW m, NEW w, NEW d, Rebuilds(T, m, w, d)
    PROVE  d = m
  <1> USE DEF Rebuilds
  <1>1. ASSUME NEW f \in DOMAIN Schema[T] PROVE d[f] = m[f]
    <2>1. f \in Present(T, m) <=> m[f] # Zero(Schema[T][f])
      BY DEF Present
    <2> QED
      BY <2>1, NumberLeadsBack
  <1> QED
    BY <1>1

\* At the innermost level values are taken as they are.
LEMMA RoundTrip1 ==
    ASSUME NEW T \in DOMAIN Schema, NEW m, Shaped1(T, m)
    PROVE  Decode1(T, Encode1(T, m)) = m
  <1> DEFINE S == Schema[T]
             w == Encode1(T, m)
             d == Decode1(T, w)
  <1>1. DOMAIN w = {S[f].num : f \in Present(T, m)}
    BY DEF Encode1, EncodeOver
  <1>2. ASSUME NEW f \in Present(T, m) PROVE w[S[f].num] = m[f]
    BY NumberLeadsBack DEF Encode1, EncodeOver, Innermost, Present, Shaped1, ShapedOver
  <1> HIDE DEF w
  <1>3. ASSUME NEW f \in Present(T, m) PROVE d[f] = m[f]
    BY <1>1, <1>2 DEF Decode1, DecodeOver, Innermost, Present, Shaped1, ShapedOver
  <1>4. /\ m = [f \in DOMAIN S |-> m[f]] /\ d = [f \in DOMAIN S |-> d[f]]
        /\ \A f \in DOMAIN S : S[f].num \notin DOMAIN w => d[f] = Zero(S[f])
    BY DEF Shaped1, ShapedOver, Decode1, DecodeOver
  <1> HIDE DEF d
  <1>5. Rebuilds(T, m, w, d)
    BY <1>1, <1>3, <1>4 DEF Rebuilds
  <1>6. d = m
    BY <1>5, Reassembled
  <1> QED
    BY <1>6 DEF w, d

\* One level up, the messages inside make their own round trip.
LEMMA RoundTrip2 ==
    ASSUME NEW T \in DOMAIN Schema, NEW m, Shaped2(T, m)
    PROVE  Decode2(T, Encode2(T, m)) = m
  <1> DEFINE S == Schema[T]
             w == Encode2(T, m)
             d == Decode2(T, w)
  <1>1. DOMAIN w = {S[f].num : f \in Present(T, m)}
    BY DEF Encode2, EncodeOver
  <1>2. ASSUME NEW f \in Present(T, m) PROVE d[f] = m[f]
    <2> DEFINE v == w[S[f].num]
    <2>1. v = IF ~IsMessage(S[f]) THEN m[f]
              ELSE IF S[f].rep
                   THEN [i \in DOMAIN m[f] |-> Encode1(S[f].type, m[f][i])]
                   ELSE Encode1(S[f].type, m[f])
      BY NumberLeadsBack DEF Encode2, EncodeOver, Present
    <2>2. d[f] = IF ~IsMessage(S[f]) THEN v
                 ELSE IF S[f].rep THEN [i \in DOMAIN v |-> Decode1(S[f].type, v[i])]
                                  ELSE Decode1(S[f].type, v)
      BY <1>1 DEF Decode2, DecodeOver, Present
    <2> HIDE DEF v, d
    <2>3. CASE IsMessage(S[f]) /\ S[f].rep
      <3>1. /\ m[f] = [i \in DOMAIN m[f] |-> m[f][i]]
            /\ \A i \in DOMAIN m[f] :
                 Decode1(S[f].type, Encode1(S[f].type, m[f][i])) = m[f][i]
        BY <2>3, RoundTrip1 DEF Shaped2, ShapedOver, IsMessage, Present
      <3>2. /\ DOMAIN v = DOMAIN m[f]
            /\ \A i \in DOMAIN m[f] : Decode1(S[f].type, v[i]) = m[f][i]
        BY <2>1, <2>3, <3>1
      <3>3. [i \in DOMAIN v |-> Decode1(S[f].type, v[i])] = [i \in DOMAIN m[f] |-> m[f][i]]
        BY <3>2
      <3> QED
        BY <2>2, <2>3, <3>1, <3>3
    <2>4. CASE IsMessage(S[f]) /\ ~S[f].rep
      BY <2>1, <2>2, <2>4, MessageZero, RoundTrip1
         DEF Shaped2, ShapedOver, IsMessage, Present
    <2> QED
      BY <2>1, <2>2, <2>3, <2>4
  <1>3. /\ m = [f \in DOMAIN S |-> m[f]] /\ d = [f \in DOMAIN S |-> d[f]]
        /\ \A f \in DOMAIN S : S[f].num \notin DOMAIN w => d[f] = Zero(S[f])
    BY DEF Shaped2, ShapedOver, Decode2, DecodeOver
  <1> HIDE DEF w, d
  <1>4. Rebuilds(T, m, w, d)
    BY <1>1, <1>2, <1>3 DEF Rebuilds
  <1>5. d = m
    BY <1>4, Reassembled
  <1> QED
    BY <1>5 DEF w, d

\* The same argument for the levels above.
LEMMA RoundTrip3 ==
    ASSUME NEW T \in DOMAIN Schema, NEW m, Shaped3(T, m)
    PROVE  Decode3(T, Encode3(T, m)) = m
  <1> DEFINE S == Schema[T]
             w == Encode3(T, m)
             d == Decode3(T, w)
  <1>1. DOMAIN w = {S[f].num : f \in Present(T, m)}
    BY DEF Encode3, EncodeOver
  <1>2. ASSUME NEW f \in Present(T, m) PROVE d[f] = m[f]
    <2> DEFINE v == w[S[f].num]
    <2>1. v = IF ~IsMessage(S[f]) THEN m[f]
              ELSE IF S[f].rep
                   THEN [i \in DOMAIN m[f] |-> Encode2(S[f].type, m[f][i])]
                   ELSE Encode2(S[f].type, m[f])
      BY NumberLeadsBack DEF Encode3, EncodeOver, Present
    <2>2. d[f] = IF ~IsMessage(S[f]) THEN v
                 ELSE IF S[f].rep THEN [i \in DOMAIN v |-> Decode2(S[f].type, v[i])]
                                  ELSE Decode2(S[f].type, v)
      BY <1>1 DEF Decode3, DecodeOver, Present
    <2> HIDE DEF v, d
    <2>3. CASE IsMessage(S[f]) /\ S[f].rep
      <3>1. /\ m[f] = [i \in DOMAIN m[f] |-> m[f][i]]
            /\ \A i \in DOMAIN m[f] :
                 Decode2(S[f].type, Encode2(S[f].type, m[f][i])) = m[f][i]
        BY <2>3, RoundTrip2 DEF Shaped3, ShapedOver, IsMessage, Present
      <3>2. /\ DOMAIN v = DOMAIN m[f]
            /\ \A i \in DOMAIN m[f] : Decode2(S[f].type, v[i]) = m[f][i]
        BY <2>1, <2>3, <3>1
      <3>3. [i \in DOMAIN v |-> Decode2(S[f].type, v[i])] = [i \in DOMAIN m[f] |-> m[f][i]]
        BY <3>2
      <3> QED
        BY <2>2, <2>3, <3>1, <3>3
    <2>4. CASE IsMessage(S[f]) /\ ~S[f].rep
      BY <2>1, <2>2, <2>4, MessageZero, RoundTrip2
         DEF Shaped3, ShapedOver, IsMessage, Present
    <2> QED
      BY <2>1, <2>2, <2>3, <2>4
  <1>3. /\ m = [f \in DOMAIN S |-> m[f]] /\ d = [f \in DOMAIN S |-> d[f]]
        /\ \A f \in DOMAIN S : S[f].num \notin DOMAIN w => d[f] = Zero(S[f])
    BY DEF Shaped3, ShapedOver, Decode3, DecodeOver
  <1> HIDE DEF w, d
  <1>4. Rebuilds(T, m, w, d)
    BY <1>1, <1>2, <1>3 DEF Rebuilds
  <1>5. d = m
    BY <1>4, Reassembled
  <1> QED
    BY <1>5 DEF w, d

LEMMA RoundTrip4 ==
    ASSUME NEW T \in DOMAIN Schema, NEW m, Shaped4(T, m)
    PROVE  Decode4(T, Encode4(T, m)) = m
  <1> DEFINE S == Schema[T]
             w == Encode4(T, m)
             d == Decode4(T, w)
  <1>1. DOMAIN w = {S[f].num : f \in Present(T, m)}
    BY DEF Encode4, EncodeOver
  <1>2. ASSUME NEW f \in Present(T, m) PROVE d[f] = m[f]
    <2> DEFINE v == w[S[f].num]
    <2>1. v = IF ~IsMessage(S[f]) THEN m[f]
              ELSE IF S[f].rep
                   THEN [i \in DOMAIN m[f] |-> Encode3(S[f].type, m[f][i])]
                   ELSE Encode3(S[f].type, m[f])
      BY NumberLeadsBack DEF Encode4, EncodeOver, Present
    <2>2. d[f] = IF ~IsMessage(S[f]) THEN v
                 ELSE IF S[f].rep THEN [i \in DOMAIN v |-> Decode3(S[f].type, v[i])]
                                  ELSE Decode3(S[f].type, v)
      BY <1>1 DEF Decode4, DecodeOver, Present
    <2> HIDE DEF v, d
    <2>3. CASE IsMessage(S[f]) /\ S[f].rep
      <3>1. /\ m[f] = [i \in DOMAIN m[f] |-> m[f][i]]
            /\ \A i \in DOMAIN m[f] :
                 Decode3(S[f].type, Encode3(S[f].type, m[f][i])) = m[f][i]
        BY <2>3, RoundTrip3 DEF Shaped4, ShapedOver, IsMessage, Present
      <3>2. /\ DOMAIN v = DOMAIN m[f]
            /\ \A i \in DOMAIN m[f] : Decode3(S[f].type, v[i]) = m[f][i]
        BY <2>1, <2>3, <3>1
      <3>3. [i \in DOMAIN v |-> Decode3(S[f].type, v[i])] = [i \in DOMAIN m[f] |-> m[f][i]]
        BY <3>2
      <3> QED
        BY <2>2, <2>3, <3>1, <3>3
    <2>4. CASE IsMessage(S[f]) /\ ~S[f].rep
      BY <2>1, <2>2, <2>4, MessageZero, RoundTrip3
         DEF Shaped4, ShapedOver, IsMessage, Present
    <2> QED
      BY <2>1, <2>2, <2>3, <2>4
  <1>3. /\ m = [f \in DOMAIN S |-> m[f]] /\ d = [f \in DOMAIN S |-> d[f]]
        /\ \A f \in DOMAIN S : S[f].num \notin DOMAIN w => d[f] = Zero(S[f])
    BY DEF Shaped4, ShapedOver, Decode4, DecodeOver
  <1> HIDE DEF w, d
  <1>4. Rebuilds(T, m, w, d)
    BY <1>1, <1>2, <1>3 DEF Rebuilds
  <1>5. d = m
    BY <1>4, Reassembled
  <1> QED
    BY <1>5 DEF w, d

\* Every message of each of the 44 types of agent.pb.go and resource.pb.go is
\* decoded to what was encoded, however deep it nests and whatever zero values,
\* empty lists and nil messages it holds.
THEOREM RoundTrip ==
    ASSUME NEW T \in DOMAIN Schema, NEW m, Shaped(T, m)
    PROVE  Decode(T, Encode(T, m)) = m
  <1> DEFINE S == Schema[T]
             w == Encode(T, m)
             d == Decode(T, w)
  <1>1. DOMAIN w = {S[f].num : f \in Present(T, m)}
    BY DEF Encode, EncodeOver
  <1>2. ASSUME NEW f \in Present(T, m) PROVE d[f] = m[f]
    <2> DEFINE v == w[S[f].num]
    <2>1. v = IF ~IsMessage(S[f]) THEN m[f]
              ELSE IF S[f].rep
                   THEN [i \in DOMAIN m[f] |-> Encode4(S[f].type, m[f][i])]
                   ELSE Encode4(S[f].type, m[f])
      BY NumberLeadsBack DEF Encode, EncodeOver, Present
    <2>2. d[f] = IF ~IsMessage(S[f]) THEN v
                 ELSE IF S[f].rep THEN [i \in DOMAIN v |-> Decode4(S[f].type, v[i])]
                                  ELSE Decode4(S[f].type, v)
      BY <1>1 DEF Decode, DecodeOver, Present
    <2> HIDE DEF v, d
    <2>3. CASE IsMessage(S[f]) /\ S[f].rep
      <3>1. /\ m[f] = [i \in DOMAIN m[f] |-> m[f][i]]
            /\ \A i \in DOMAIN m[f] :
                 Decode4(S[f].type, Encode4(S[f].type, m[f][i])) = m[f][i]
        BY <2>3, RoundTrip4 DEF Shaped, ShapedOver, IsMessage, Present
      <3>2. /\ DOMAIN v = DOMAIN m[f]
            /\ \A i \in DOMAIN m[f] : Decode4(S[f].type, v[i]) = m[f][i]
        BY <2>1, <2>3, <3>1
      <3>3. [i \in DOMAIN v |-> Decode4(S[f].type, v[i])] = [i \in DOMAIN m[f] |-> m[f][i]]
        BY <3>2
      <3> QED
        BY <2>2, <2>3, <3>1, <3>3
    <2>4. CASE IsMessage(S[f]) /\ ~S[f].rep
      BY <2>1, <2>2, <2>4, MessageZero, RoundTrip4
         DEF Shaped, ShapedOver, IsMessage, Present
    <2> QED
      BY <2>1, <2>2, <2>3, <2>4
  <1>3. /\ m = [f \in DOMAIN S |-> m[f]] /\ d = [f \in DOMAIN S |-> d[f]]
        /\ \A f \in DOMAIN S : S[f].num \notin DOMAIN w => d[f] = Zero(S[f])
    BY DEF Shaped, ShapedOver, Decode, DecodeOver
  <1> HIDE DEF w, d
  <1>4. Rebuilds(T, m, w, d)
    BY <1>1, <1>2, <1>3 DEF Rebuilds
  <1>5. d = m
    BY <1>4, Reassembled
  <1> QED
    BY <1>5 DEF w, d

-----------------------------------------------------------------------------
(* The length of a command.                                                *)

\* Induction over the naturals, for a set.
LEMMA NaturalsAll ==
    ASSUME NEW A, 0 \in A, \A n \in Nat : n \in A => n + 1 \in A
    PROVE  Nat \subseteq A
  <1> SUFFICES ASSUME Nat \ A # {} PROVE FALSE
    OBVIOUS
  <1> DEFINE R == OpToRel(<, Nat)
  <1>1. IsWellFoundedOn(R, Nat)
    BY NatLessThanWellFounded
  <1>2. \A x, y \in Nat : <<y, x>> \in R <=> y < x
    BY DEF OpToRel
  <1> HIDE DEF R
  <1>3. Nat \ A \subseteq Nat
    OBVIOUS
  <1>4. PICK x \in Nat \ A : \A y \in Nat \ A : ~ (<<y, x>> \in R)
    BY <1>1, <1>3, WFMin
  <1>5. x # 0 /\ x - 1 \in Nat /\ (x - 1) + 1 = x /\ x - 1 < x
    BY <1>4
  <1>6. x - 1 \in A
    BY <1>2, <1>4, <1>5
  <1> QED
    BY <1>4, <1>5, <1>6

\* g is the running total of the first n words.
RunningTotal(g, cmds, n) ==
    g = [i \in 0..n |-> IF i = 0 THEN 0 ELSE g[i - 1] + Length[cmds[i]]]

LEMMA RunningTotalExists ==
    ASSUME NEW cmds \in Seq(Text)
    PROVE  \E g : RunningTotal(g, cmds, Len(cmds))
  <1> DEFINE A == {n \in Nat : \E g : RunningTotal(g, cmds, n)}
  <1>1. 0 \in A
    <2>1. RunningTotal([i \in 0..0 |-> 0], cmds, 0)
      BY DEF RunningTotal
    <2> QED
      BY <2>1
  <1>2. ASSUME NEW n \in Nat, n \in A PROVE n + 1 \in A
    <2>1. PICK g : RunningTotal(g, cmds, n)
      BY <1>2
    <2> DEFINE h == [i \in 0..(n + 1) |->
                       IF i = n + 1 THEN g[n] + Length[cmds[n + 1]] ELSE g[i]]
    <2>2. \A i \in 0..n : g[i] = IF i = 0 THEN 0 ELSE g[i - 1] + Length[cmds[i]]
      BY <2>1 DEF RunningTotal
    <2>3. ASSUME NEW i \in 0..(n + 1)
          PROVE  h[i] = IF i = 0 THEN 0 ELSE h[i - 1] + Length[cmds[i]]
      <3>1. CASE i = n + 1
        BY <3>1
      <3>2. CASE i # n + 1
        BY <2>2, <3>2
      <3> QED
        BY <3>1, <3>2
    <2>4. h = [i \in 0..(n + 1) |-> h[i]]
      OBVIOUS
    <2> HIDE DEF h
    <2>5. RunningTotal(h, cmds, n + 1)
      BY <2>3, <2>4 DEF RunningTotal
    <2> QED
      BY <2>5
  <1>3. Nat \subseteq A
    <2> HIDE DEF A
    <2> QED
      BY <1>1, <1>2, NaturalsAll
  <1> QED
    BY <1>3, Len(cmds) \in Nat

\* The bytes of the first n words, each with its place.
Bytes(cmds, n) == UNION {{i} \X (1..Length[cmds[i]]) : i \in 1..n}

LEMMA TotalCountsBytes ==
    ASSUME NEW cmds \in Seq(Text), NEW g, RunningTotal(g, cmds, Len(cmds)),
           NEW n \in 0..Len(cmds)
    PROVE  g[n] \in Nat /\ IsFiniteSet(Bytes(cmds, n)) /\ g[n] = Cardinality(Bytes(cmds, n))
  <1> DEFINE Good(k) == /\ g[k] \in Nat /\ IsFiniteSet(Bytes(cmds, k))
                        /\ g[k] = Cardinality(Bytes(cmds, k))
             A == {k \in Nat : k <= Len(cmds) => Good(k)}
  <1>0. \A i \in 0..Len(cmds) :
          g[i] = IF i = 0 THEN 0 ELSE g[i - 1] + Length[cmds[i]]
    BY DEF RunningTotal
  <1>1. Good(0)
    <2>1. Bytes(cmds, 0) = {} /\ g[0] = 0
      <3>1. 1..0 = {} /\ 0 \in 0..Len(cmds)
        OBVIOUS
      <3>2. Bytes(cmds, 0) = {}
        BY <3>1, Zenon DEF Bytes
      <3>3. g[0] = 0
        BY <1>0, <3>1, Zenon
      <3> QED
        BY <3>2, <3>3
    <2>2. IsFiniteSet(Bytes(cmds, 0)) /\ Cardinality(Bytes(cmds, 0)) = 0
      BY <2>1, FS_EmptySet, Zenon
    <2> QED
      BY <2>1, <2>2
  <1>2. ASSUME NEW k \in Nat, k + 1 <= Len(cmds), Good(k) PROVE Good(k + 1)
    <2> DEFINE B == Bytes(cmds, k)
               len == Length[cmds[k + 1]]
               C == {k + 1} \X (1..len)
    <2>1. k + 1 \in 1..Len(cmds)
      BY <1>2
    <2>2. len \in Nat
      <3>1. cmds[k + 1] \in Text
        BY <2>1
      <3> QED
        BY <3>1, TextAssumption
    <2>3. g[k + 1] = g[k] + len
      BY <1>0, <1>2
    <2>4. Bytes(cmds, k + 1) = B \cup C /\ B \cap C = {}
      BY DEF Bytes
    <2>5. Good(k)
      BY <1>2
    <2> HIDE DEF B, len, Good
    <2>6. IsFiniteSet(1..len) /\ Cardinality(1..len) = len
      <3>1. 1 \in Int /\ len \in Int
        BY <2>2
      <3>2. /\ IsFiniteSet(1..len)
            /\ Cardinality(1..len) = IF 1 > len THEN 0 ELSE len - 1 + 1
        BY <3>1, FS_Interval
      <3> QED
        BY <2>2, <3>2
    <2>7. IsFiniteSet(C) /\ Cardinality(C) = len
      <3>1. IsFiniteSet({k + 1}) /\ Cardinality({k + 1}) = 1
        BY FS_Singleton
      <3>2. IsFiniteSet(C) /\ Cardinality(C) = Cardinality({k + 1}) * Cardinality(1..len)
        BY <2>6, <3>1, FS_Product
      <3> QED
        BY <2>2, <2>6, <3>1, <3>2
    <2> HIDE DEF C
    <2>8. IsFiniteSet(B) /\ Cardinality(B) = g[k] /\ g[k] \in Nat
      BY <2>5 DEF B, Good
    <2>9. /\ IsFiniteSet(B \cup C)
          /\ Cardinality(B \cup C) = Cardinality(B) + Cardinality(C) - Cardinality(B \cap C)
      BY <2>7, <2>8, FS_Union
    <2>10. Cardinality(B \cap C) = 0
      BY <2>4, FS_EmptySet
    <2>11. Cardinality(B \cup C) = g[k + 1] /\ g[k + 1] \in Nat
      BY <2>2, <2>3, <2>7, <2>8, <2>9, <2>10
    <2> QED
      BY <2>4, <2>9, <2>11 DEF Good
  <1>3. Nat \subseteq A
    <2>1. 0 \in A
      BY <1>1
    <2>2. ASSUME NEW k \in Nat, k \in A PROVE k + 1 \in A
      <3> HIDE DEF Good
      <3>1. k + 1 <= Len(cmds) => k <= Len(cmds)
        BY Len(cmds) \in Nat
      <3> QED
        BY <1>2, <2>2, <3>1
    <2> HIDE DEF A
    <2> QED
      BY <2>1, <2>2, NaturalsAll
  <1> QED
    BY <1>3, Len(cmds) \in Nat

\* ValidateCommands adds the words up.
LEMMA CommandsValid ==
    ASSUME NEW cmds \in Seq(Text)
    PROVE  ValidateCommands(cmds) <=>
             Cardinality(UNION {{i} \X (1..Length[cmds[i]]) : i \in DOMAIN cmds})
                <= Limits.Command
  <1> DEFINE total == CHOOSE g : RunningTotal(g, cmds, Len(cmds))
  <1>1. RunningTotal(total, cmds, Len(cmds))
    BY RunningTotalExists
  <1>2. ValidateCommands(cmds) <=> total[Len(cmds)] <= Limits.Command
    BY DEF ValidateCommands, RunningTotal
  <1> HIDE DEF total
  <1>3. Len(cmds) \in 0..Len(cmds) /\ DOMAIN cmds = 1..Len(cmds)
    OBVIOUS
  <1>4. total[Len(cmds)] = Cardinality(Bytes(cmds, Len(cmds)))
    BY <1>1, <1>3, TotalCountsBytes
  <1> QED
    BY <1>2, <1>3, <1>4 DEF Bytes

-----------------------------------------------------------------------------
(* Validation.                                                             *)

\* The request and response types of the methods.
Methods == {"Register", "Heartbeat", "ExecuteTask", "AllocateMemory",
            "AllocateGPUMemory", "FreeMemory", "FreeGPUMemory"}

LEMMA MethodsServed == DOMAIN ServiceDesc = Methods
  BY DEF ServiceDesc, Methods

LEMMA MethodTypes ==
    /\ \A m \in Methods : ServiceDesc[m].type = IF m = "Heartbeat" THEN "stream" ELSE "unary"
    /\ ServiceDesc["Register"].req = "RegisterRequest"
    /\ ServiceDesc["Heartbeat"].req = "HeartbeatRequest"
    /\ ServiceDesc["ExecuteTask"].req = "TaskSpec"
    /\ ServiceDesc["AllocateMemory"].req = "MemoryAllocRequest"
    /\ ServiceDesc["AllocateGPUMemory"].req = "GPUMemoryAllocRequest"
    /\ ServiceDesc["FreeMemory"].req = "FreeMemoryRequest"
    /\ ServiceDesc["FreeGPUMemory"].req = "FreeGPUMemoryRequest"
    /\ ServiceDesc["Register"].resp = "RegisterResponse"
    /\ ServiceDesc["Heartbeat"].resp = "HeartbeatResponse"
    /\ ServiceDesc["ExecuteTask"].resp = "TaskAck"
    /\ ServiceDesc["AllocateMemory"].resp = "MemoryAllocResponse"
    /\ ServiceDesc["AllocateGPUMemory"].resp = "GPUMemoryAllocResponse"
    /\ ServiceDesc["FreeMemory"].resp = "FreeMemoryResponse"
    /\ ServiceDesc["FreeGPUMemory"].resp = "FreeGPUMemoryResponse"
  BY DEF ServiceDesc, Methods

\* A field of type T is declared so.
Declared(T, f, type, rep) ==
    /\ f \in DOMAIN Schema[T]
    /\ Schema[T][f].type = type
    /\ Schema[T][f].rep = rep

\* What a request holds in a field, by its declaration.
LEMMA FieldHolds ==
    ASSUME NEW T, NEW r, Request(T, r), NEW f
    PROVE  /\ Declared(T, f, "string", FALSE) => r[f] \in Text
           /\ Declared(T, f, "string", TRUE) => r[f] \in Seq(Text)
           /\ Declared(T, f, "uint64", FALSE) => r[f] \in Nat
           /\ Declared(T, f, "int32", FALSE) => r[f] \in Int
           /\ Declared(T, f, "TaskStatus", TRUE) => Len(r[f]) \in Nat
           /\ Declared(T, f, "map", TRUE) =>
                /\ IsFiniteSet(DOMAIN r[f])
                /\ \A k \in DOMAIN r[f] : k \in Text /\ r[f][k] \in Text
  <1>1. /\ \A t \in {"string", "map", "uint64", "int32"} : t \notin DOMAIN Schema
        /\ "TaskStatus" \in DOMAIN Schema
    BY DEF Schema
  <1>2. ASSUME f \in DOMAIN Schema[T] PROVE Holds(Schema[T][f], r[f])
    BY <1>2 DEF Request
  <1> QED
    BY <1>1, <1>2 DEF Declared, Holds, IsMessage

LEMMA FieldsDeclared ==
    /\ \A f \in {"NodeId", "Address", "AgentVersion"} :
         Declared("RegisterRequest", f, "string", FALSE)
    /\ Declared("HeartbeatRequest", "NodeId", "string", FALSE)
    /\ Declared("HeartbeatRequest", "Tasks", "TaskStatus", TRUE)
    /\ \A f \in {"TaskId", "JobId", "ContainerImage"} :
         Declared("TaskSpec", f, "string", FALSE)
    /\ Declared("TaskSpec", "Command", "string", TRUE)
    /\ Declared("TaskSpec", "Env", "map", TRUE)
    /\ Declared("TaskSpec", "Priority", "int32", FALSE)
    /\ Declared("MemoryAllocRequest", "AllocationId", "string", FALSE)
    /\ Declared("MemoryAllocRequest", "SizeBytes", "uint64", FALSE)
    /\ Declared("MemoryAllocRequest", "ReplicationFactor", "int32", FALSE)
    /\ Declared("GPUMemoryAllocRequest", "AllocationId", "string", FALSE)
    /\ Declared("GPUMemoryAllocRequest", "SizeBytes", "uint64", FALSE)
    /\ Declared("GPUMemoryAllocRequest", "GpuDeviceIndex", "int32", FALSE)
    /\ Declared("FreeMemoryRequest", "AllocationId", "string", FALSE)
    /\ Declared("FreeGPUMemoryRequest", "AllocationId", "string", FALSE)
  <1> USE DEF Declared, Opt, Rep
  <1>1. /\ Schema["RegisterRequest"] = RegisterRequest
        /\ Schema["HeartbeatRequest"] = HeartbeatRequest
        /\ Schema["TaskSpec"] = TaskSpec
        /\ Schema["MemoryAllocRequest"] = MemoryAllocRequest
        /\ Schema["GPUMemoryAllocRequest"] = GPUMemoryAllocRequest
        /\ Schema["FreeMemoryRequest"] = FreeMemoryRequest
        /\ Schema["FreeGPUMemoryRequest"] = FreeGPUMemoryRequest
    BY DEF Schema
  <1>2. \A f \in {"NodeId", "Address", "AgentVersion"} :
          Declared("RegisterRequest", f, "string", FALSE)
    BY <1>1 DEF RegisterRequest
  <1>3. /\ Declared("HeartbeatRequest", "NodeId", "string", FALSE)
        /\ Declared("HeartbeatRequest", "Tasks", "TaskStatus", TRUE)
    BY <1>1 DEF HeartbeatRequest
  <1>4. /\ \A f \in {"TaskId", "JobId", "ContainerImage"} :
             Declared("TaskSpec", f, "string", FALSE)
        /\ Declared("TaskSpec", "Command", "string", TRUE)
        /\ Declared("TaskSpec", "Env", "map", TRUE)
        /\ Declared("TaskSpec", "Priority", "int32", FALSE)
    BY <1>1 DEF TaskSpec
  <1>5. /\ Declared("MemoryAllocRequest", "AllocationId", "string", FALSE)
        /\ Declared("MemoryAllocRequest", "SizeBytes", "uint64", FALSE)
        /\ Declared("MemoryAllocRequest", "ReplicationFactor", "int32", FALSE)
    BY <1>1 DEF MemoryAllocRequest
  <1>6. /\ Declared("GPUMemoryAllocRequest", "AllocationId", "string", FALSE)
        /\ Declared("GPUMemoryAllocRequest", "SizeBytes", "uint64", FALSE)
        /\ Declared("GPUMemoryAllocRequest", "GpuDeviceIndex", "int32", FALSE)
    BY <1>1 DEF GPUMemoryAllocRequest
  <1>7. /\ Declared("FreeMemoryRequest", "AllocationId", "string", FALSE)
        /\ Declared("FreeGPUMemoryRequest", "AllocationId", "string", FALSE)
    BY <1>1 DEF FreeMemoryRequest, FreeGPUMemoryRequest
  <1> HIDE DEF Declared
  <1> QED
    BY <1>2, <1>3, <1>4, <1>5, <1>6, <1>7

LEMMA FromOne ==
    ASSUME NEW n \in Nat, NEW max \in Nat
    PROVE  n # 0 /\ n <= max <=> n \in 1..max
  OBVIOUS

LEMMA IDValid ==
    ASSUME NEW s \in Text, NEW max \in Nat
    PROVE  ValidateStringID(s, max) <=> s \in IDs(max)
  <1>1. Length[s] \in Nat
    BY TextAssumption
  <1>2. Length[s] # 0 /\ Length[s] <= max <=> Length[s] \in 1..max
    BY <1>1, FromOne
  <1>3. Length[s] = 0 <=> s = ""
    BY TextAssumption
  <1> QED
    BY <1>2, <1>3 DEF ValidateStringID, HasNullBytes, IDs

LEMMA RegisterValid ==
    ASSUME NEW r, Request("RegisterRequest", r)
    PROVE  validateAll(Checks("Register", r)) <=> Legal("Register", r)
  <1>0. /\ Limits.NodeID \in Nat /\ Limits.Address \in Nat /\ Limits.Version \in Nat
    BY LimitsAssumption
  <1>1. r.NodeId \in Text /\ r.Address \in Text /\ r.AgentVersion \in Text
    BY FieldsDeclared, FieldHolds
  <1>2. validateAll(Checks("Register", r)) <=>
          /\ ValidateNodeID(r.NodeId) /\ ValidateAddress(r.Address)
          /\ ValidateVersion(r.AgentVersion)
    BY DEF validateAll, Checks
  <1>3. Legal("Register", r) <=>
          /\ r.NodeId \in IDs(Limits.NodeID)
          /\ r.Address \in {t \in Text \ WithNul : Length[t] <= Limits.Address}
          /\ r.AgentVersion \in {t \in Text \ WithNul : Length[t] <= Limits.Version}
    <2>1. Accepts["Register"] =
            [NodeId |-> IDs(Limits.NodeID),
             Address |-> {t \in Text \ WithNul : Length[t] <= Limits.Address},
             AgentVersion |-> {t \in Text \ WithNul : Length[t] <= Limits.Version}]
      BY DEF Accepts
    <2> QED
      BY <2>1 DEF Legal
  <1> QED
    BY <1>0, <1>1, <1>2, <1>3, IDValid, TextAssumption
       DEF ValidateNodeID, ValidateAddress, ValidateVersion, HasNullBytes

LEMMA HeartbeatValid ==
    ASSUME NEW r, Request("HeartbeatRequest", r)
    PROVE  validateAll(Checks("Heartbeat", r)) <=> Legal("Heartbeat", r)
  <1>1. r.NodeId \in Text /\ Len(r.Tasks) \in Nat
    BY FieldsDeclared, FieldHolds
  <1>2. validateAll(Checks("Heartbeat", r)) <=>
          /\ ValidateNodeID(r.NodeId)
          /\ ValidateHeartbeatTaskCount(Len(r.Tasks))
    BY DEF validateAll, Checks
  <1>3. Legal("Heartbeat", r) <=>
          /\ r.NodeId \in IDs(Limits.NodeID)
          /\ Len(r.Tasks) \in 0..Limits.TasksPerHeartbeat
    <2>1. Accepts["Heartbeat"] = [NodeId |-> IDs(Limits.NodeID)]
      BY DEF Accepts
    <2> QED
      BY <2>1 DEF Legal
  <1> QED
    BY <1>1, <1>2, <1>3, IDValid, LimitsAssumption
       DEF ValidateNodeID, ValidateHeartbeatTaskCount

LEMMA ExecuteTaskValid ==
    ASSUME NEW r, Request("TaskSpec", r)
    PROVE  validateAll(Checks("ExecuteTask", r)) <=> Legal("ExecuteTask", r)
  <1> DEFINE EnvFits == /\ Cardinality(DOMAIN r.Env) \in 0..Limits.EnvCount
                        /\ \A k \in DOMAIN r.Env :
                             /\ Length[k] \in 1..Limits.EnvKey
                             /\ Length[r.Env[k]] \in 0..Limits.EnvValue
             Images == {t \in ImageRef \ WithNul : Length[t] \in 1..Limits.ContainerImage}
             Priorities == 0..Limits.Priority
             CommandFits ==
                Cardinality(UNION {{i} \X (1..Length[r.Command[i]]) :
                                     i \in DOMAIN r.Command}) <= Limits.Command
  <1>1. /\ r.TaskId \in Text /\ r.JobId \in Text /\ r.ContainerImage \in Text
        /\ r.Command \in Seq(Text) /\ r.Priority \in Int
        /\ IsFiniteSet(DOMAIN r.Env)
        /\ \A k \in DOMAIN r.Env : k \in Text /\ r.Env[k] \in Text
    BY FieldsDeclared, FieldHolds
  <1>2. validateAll(Checks("ExecuteTask", r)) <=>
          /\ ValidateTaskID(r.TaskId) /\ ValidateJobID(r.JobId)
          /\ ValidateContainerImage(r.ContainerImage)
          /\ ValidateCommands(r.Command) /\ ValidateEnvVars(r.Env)
          /\ ValidatePriority(r.Priority)
    BY DEF validateAll, Checks
  <1>3. Legal("ExecuteTask", r) <=>
          /\ r.TaskId \in IDs(Limits.TaskID) /\ r.JobId \in IDs(Limits.JobID)
          /\ r.ContainerImage \in Images /\ r.Priority \in Priorities
          /\ EnvFits /\ CommandFits
    <2>1. Accepts["ExecuteTask"] =
            [TaskId |-> IDs(Limits.TaskID), JobId |-> IDs(Limits.JobID),
             ContainerImage |-> Images, Priority |-> Priorities]
      BY DEF Accepts
    <2>2. Legal("ExecuteTask", r) <=>
            /\ \A f \in DOMAIN Accepts["ExecuteTask"] : r[f] \in Accepts["ExecuteTask"][f]
            /\ EnvFits /\ CommandFits
      BY DEF Legal
    <2> HIDE DEF Images, Priorities, EnvFits, CommandFits
    <2> QED
      BY <2>1, <2>2
  <1>4. ValidateCommands(r.Command) <=> CommandFits
    BY <1>1, CommandsValid
  <1>5. ValidateEnvVars(r.Env) <=> EnvFits
    <2>1. \A k \in DOMAIN r.Env : Length[k] \in Nat /\ Length[r.Env[k]] \in Nat
      BY <1>1, TextAssumption
    <2>2. Cardinality(DOMAIN r.Env) \in Nat
      BY <1>1, FS_CardinalityType
    <2> QED
      BY <2>1, <2>2, LimitsAssumption DEF ValidateEnvVars
  <1>6. ValidateContainerImage(r.ContainerImage) <=> r.ContainerImage \in Images
    <2> DEFINE image == r.ContainerImage
    <2>1. Length[image] \in Nat /\ Limits.ContainerImage \in Nat
      BY <1>1, TextAssumption, LimitsAssumption
    <2>2. Length[image] # 0 /\ Length[image] <= Limits.ContainerImage
            <=> Length[image] \in 1..Limits.ContainerImage
      BY <2>1, FromOne
    <2>3. Length[image] = 0 <=> image = ""
      BY <1>1, TextAssumption
    <2> QED
      BY <2>2, <2>3 DEF ValidateContainerImage, HasNullBytes
  <1>7. ValidatePriority(r.Priority) <=> r.Priority \in Priorities
    BY <1>1, LimitsAssumption, SMTT(30) DEF ValidatePriority
  <1>8. /\ ValidateTaskID(r.TaskId) <=> r.TaskId \in IDs(Limits.TaskID)
        /\ ValidateJobID(r.JobId) <=> r.JobId \in IDs(Limits.JobID)
    BY <1>1, IDValid, LimitsAssumption DEF ValidateTaskID, ValidateJobID
  <1> HIDE DEF EnvFits, CommandFits, Images, Priorities
  <1> QED
    BY <1>2, <1>3, <1>4, <1>5, <1>6, <1>7, <1>8

LEMMA AllocateMemoryValid ==
    ASSUME NEW r, Request("MemoryAllocRequest", r)
    PROVE  validateAll(Checks("AllocateMemory", r)) <=> Legal("AllocateMemory", r)
  <1> DEFINE Sizes == 1..Limits.Memory
             Factors == 0..Limits.Replicas
  <1>1. r.AllocationId \in Text /\ r.SizeBytes \in Nat /\ r.ReplicationFactor \in Int
    BY FieldsDeclared, FieldHolds
  <1>2. validateAll(Checks("AllocateMemory", r)) <=>
          /\ ValidateAllocationID(r.AllocationId) /\ ValidateMemorySize(r.SizeBytes)
          /\ ValidateReplicationFactor(r.ReplicationFactor)
    BY DEF validateAll, Checks
  <1>3. Legal("AllocateMemory", r) <=>
          /\ r.AllocationId \in IDs(Limits.AllocationID)
          /\ r.SizeBytes \in Sizes
          /\ r.ReplicationFactor \in Factors
    <2>1. Accepts["AllocateMemory"] =
            [AllocationId |-> IDs(Limits.AllocationID),
             SizeBytes |-> Sizes,
             ReplicationFactor |-> Factors]
      BY DEF Accepts
    <2> HIDE DEF Sizes, Factors
    <2> QED
      BY <2>1 DEF Legal
  <1> QED
    BY <1>1, <1>2, <1>3, IDValid, LimitsAssumption
       DEF ValidateAllocationID, ValidateMemorySize, ValidateReplicationFactor

LEMMA AllocateGPUMemoryValid ==
    ASSUME NEW r, Request("GPUMemoryAllocRequest", r)
    PROVE  validateAll(Checks("AllocateGPUMemory", r)) <=> Legal("AllocateGPUMemory", r)
  <1> DEFINE Sizes == 1..Limits.GPUMem
             Devices == Nat \cup {-1}
  <1>1. r.AllocationId \in Text /\ r.SizeBytes \in Nat /\ r.GpuDeviceIndex \in Int
    BY FieldsDeclared, FieldHolds
  <1>2. validateAll(Checks("AllocateGPUMemory", r)) <=>
          /\ ValidateAllocationID(r.AllocationId) /\ ValidateGPUMemorySize(r.SizeBytes)
          /\ ValidateGPUDeviceIndex(r.GpuDeviceIndex)
    BY DEF validateAll, Checks
  <1>3. Legal("AllocateGPUMemory", r) <=>
          /\ r.AllocationId \in IDs(Limits.AllocationID)
          /\ r.SizeBytes \in Sizes
          /\ r.GpuDeviceIndex \in Devices
    <2>1. Accepts["AllocateGPUMemory"] =
            [AllocationId |-> IDs(Limits.AllocationID),
             SizeBytes |-> Sizes,
             GpuDeviceIndex |-> Devices]
      BY DEF Accepts
    <2> HIDE DEF Sizes, Devices
    <2> QED
      BY <2>1 DEF Legal
  <1> QED
    BY <1>1, <1>2, <1>3, IDValid, LimitsAssumption
       DEF ValidateAllocationID, ValidateGPUMemorySize, ValidateGPUDeviceIndex

LEMMA FreeValid ==
    ASSUME NEW m \in {"FreeMemory", "FreeGPUMemory"},
           NEW r, Request(ServiceDesc[m].req, r)
    PROVE  validateAll(Checks(m, r)) <=> Legal(m, r)
  <1>1. r.AllocationId \in Text
    <2>1. Declared(ServiceDesc[m].req, "AllocationId", "string", FALSE)
      BY FieldsDeclared, MethodTypes
    <2> QED
      BY <2>1, FieldHolds
  <1>2. validateAll(Checks(m, r)) <=> ValidateAllocationID(r.AllocationId)
    BY DEF validateAll, Checks
  <1>3. Legal(m, r) <=> r.AllocationId \in IDs(Limits.AllocationID)
    <2>1. Accepts[m] = [AllocationId |-> IDs(Limits.AllocationID)]
      BY DEF Accepts
    <2> QED
      BY <2>1 DEF Legal
  <1> QED
    BY <1>1, <1>2, <1>3, IDValid, LimitsAssumption DEF ValidateAllocationID

\* The chain of checks each handler runs (validator.go) accepts the legal requests
\* of its method and no other, for any limits and any strings.
THEOREM ValidIsLegal ==
    ASSUME NEW m \in Methods, NEW r, Request(ServiceDesc[m].req, r)
    PROVE  validateAll(Checks(m, r)) <=> Legal(m, r)
  BY MethodTypes, RegisterValid, HeartbeatValid, ExecuteTaskValid,
     AllocateMemoryValid, AllocateGPUMemoryValid, FreeValid DEF Methods

-----------------------------------------------------------------------------
(* Paths and labels.                                                       *)

LEMMA PathOf ==
    ASSUME NEW m \in Methods
    PROVE  Last(FullMethodName(m)) = m /\ KnownPattern(FullMethodName(m))
  <1> DEFINE p == FullMethodName(m)
  <1>4. Len(p) = 4 /\ p[3] = "AgentService" /\ p[4] = m
    BY DEF FullMethodName
  <1> HIDE DEF p
  <1>5. Last(p) = m
    BY <1>4 DEF Last
  <1>6. SplitN4(p) = p
    BY <1>4 DEF SplitN4
  <1>7. <<"AgentService", m>> \in knownServiceMethods
    BY DEF knownServiceMethods, Methods
  <1>8. <<p[Len(p) - 1], p[Len(p)]>> = <<"AgentService", m>> /\ Len(p) >= 3
    BY <1>4
  <1>9. KnownPattern(p)
    BY <1>6, <1>7, <1>8 DEF KnownPattern
  <1> QED
    BY <1>5, <1>9 DEF p

-----------------------------------------------------------------------------
(* Responses.                                                              *)

LEMMA NewShaped ==
    ASSUME NEW T \in DOMAIN Schema, NEW given,
           \A f \in DOMAIN given \cap DOMAIN Schema[T] : IsMessage(Schema[T][f]) =>
              ~Schema[T][f].rep /\ Shaped4(Schema[T][f].type, given[f])
    PROVE  Shaped(T, New(T, given))
  <1> DEFINE S == Schema[T]
             m == New(T, given)
  <1>1. m = [f \in DOMAIN S |-> m[f]]
    BY DEF New
  <1>2. ASSUME NEW f \in DOMAIN S, IsMessage(S[f]), f \notin DOMAIN given
        PROVE  IF S[f].rep
               THEN /\ m[f] = [i \in DOMAIN m[f] |-> m[f][i]]
                    /\ \A i \in DOMAIN m[f] : Shaped4(S[f].type, m[f][i])
               ELSE m[f] = Nil
    <2>1. m[f] = Zero(S[f])
      BY <1>2 DEF New
    <2>2. CASE S[f].rep
      <3>1. m[f] = << >>
        BY <2>1, <2>2 DEF Zero
      <3> QED
        BY <2>2, <3>1
    <2>3. CASE ~S[f].rep
      BY <1>2, <2>1, <2>3, MessageZero
    <2> QED
      BY <2>2, <2>3
  <1>3. ASSUME NEW f \in DOMAIN S, IsMessage(S[f]), f \in DOMAIN given
        PROVE  ~S[f].rep /\ Shaped4(S[f].type, m[f])
    BY <1>3 DEF New
  <1> HIDE DEF m
  <1>4. Shaped(T, m)
    BY <1>1, <1>2, <1>3 DEF Shaped, ShapedOver
  <1> QED
    BY <1>4 DEF m

\* The fields the handlers set in their answers.
LEMMA AnswersDeclared ==
    /\ Declared("RegisterResponse", "Accepted", "bool", FALSE)
    /\ \A f \in {"ClusterId", "ControlPlaneLeader"} :
         Declared("RegisterResponse", f, "string", FALSE)
    /\ Declared("RegisterResponse", "HeartbeatIntervalMs", "uint64", FALSE)
    /\ Declared("HeartbeatResponse", "Acknowledged", "bool", FALSE)
    /\ Declared("HeartbeatResponse", "Sequence", "uint64", FALSE)
    /\ Declared("TaskAck", "Accepted", "bool", FALSE)
    /\ Declared("TaskAck", "Error", "string", FALSE)
    /\ Declared("MemoryAllocResponse", "Success", "bool", FALSE)
    /\ Declared("MemoryAllocResponse", "Handle", "MemoryHandle", FALSE)
    /\ Declared("GPUMemoryAllocResponse", "Success", "bool", FALSE)
    /\ Declared("GPUMemoryAllocResponse", "Handle", "GPUHandle", FALSE)
    /\ Declared("FreeMemoryResponse", "Success", "bool", FALSE)
    /\ Declared("FreeGPUMemoryResponse", "Success", "bool", FALSE)
  <1> USE DEF Declared, Opt, Rep
  <1>1. /\ Schema["RegisterResponse"] = RegisterResponse
        /\ Schema["HeartbeatResponse"] = HeartbeatResponse
        /\ Schema["TaskAck"] = TaskAck
        /\ Schema["MemoryAllocResponse"] = MemoryAllocResponse
        /\ Schema["GPUMemoryAllocResponse"] = GPUMemoryAllocResponse
        /\ Schema["FreeMemoryResponse"] = FreeMemoryResponse
        /\ Schema["FreeGPUMemoryResponse"] = FreeGPUMemoryResponse
    BY DEF Schema
  <1>2. /\ Declared("RegisterResponse", "Accepted", "bool", FALSE)
        /\ \A f \in {"ClusterId", "ControlPlaneLeader"} :
             Declared("RegisterResponse", f, "string", FALSE)
        /\ Declared("RegisterResponse", "HeartbeatIntervalMs", "uint64", FALSE)
    BY <1>1 DEF RegisterResponse
  <1>3. /\ Declared("HeartbeatResponse", "Acknowledged", "bool", FALSE)
        /\ Declared("HeartbeatResponse", "Sequence", "uint64", FALSE)
    BY <1>1 DEF HeartbeatResponse
  <1>4. /\ Declared("TaskAck", "Accepted", "bool", FALSE)
        /\ Declared("TaskAck", "Error", "string", FALSE)
    BY <1>1 DEF TaskAck
  <1>5. /\ Declared("MemoryAllocResponse", "Success", "bool", FALSE)
        /\ Declared("MemoryAllocResponse", "Handle", "MemoryHandle", FALSE)
    BY <1>1 DEF MemoryAllocResponse
  <1>6. /\ Declared("GPUMemoryAllocResponse", "Success", "bool", FALSE)
        /\ Declared("GPUMemoryAllocResponse", "Handle", "GPUHandle", FALSE)
    BY <1>1 DEF GPUMemoryAllocResponse
  <1>7. /\ Declared("FreeMemoryResponse", "Success", "bool", FALSE)
        /\ Declared("FreeGPUMemoryResponse", "Success", "bool", FALSE)
    BY <1>1 DEF FreeMemoryResponse, FreeGPUMemoryResponse
  <1> HIDE DEF Declared
  <1> QED
    BY <1>2, <1>3, <1>4, <1>5, <1>6, <1>7

\* A handle has no messages among its fields.
LEMMA HandlesFlat ==
    ASSUME NEW T \in {"MemoryHandle", "GPUHandle"}
    PROVE  /\ \A f \in DOMAIN Schema[T] : ~IsMessage(Schema[T][f])
           /\ "AllocationId" \in DOMAIN Schema[T] /\ "SizeBytes" \in DOMAIN Schema[T]
  <1>1. /\ Schema["MemoryHandle"] = MemoryHandle
        /\ Schema["GPUHandle"] = GPUHandle
        /\ {"string", "uint64", "int32"} \cap DOMAIN Schema = {}
    BY DEF Schema
  <1>2. /\ \A f \in DOMAIN MemoryHandle : MemoryHandle[f].type \in {"string", "uint64", "int32"}
        /\ "AllocationId" \in DOMAIN MemoryHandle /\ "SizeBytes" \in DOMAIN MemoryHandle
    BY DEF MemoryHandle, Opt
  <1>3. /\ \A f \in DOMAIN GPUHandle : GPUHandle[f].type \in {"string", "uint64", "int32"}
        /\ "AllocationId" \in DOMAIN GPUHandle /\ "SizeBytes" \in DOMAIN GPUHandle
    BY DEF GPUHandle, Opt
  <1> QED
    BY <1>1, <1>2, <1>3 DEF IsMessage

LEMMA HandleShaped ==
    ASSUME NEW T \in {"MemoryHandle", "GPUHandle"}, NEW given
    PROVE  Shaped4(T, New(T, given))
  <1> DEFINE h == New(T, given)
  <1>1. h = [f \in DOMAIN Schema[T] |-> h[f]]
    BY DEF New
  <1> HIDE DEF h
  <1>2. Shaped4(T, h)
    BY <1>1, HandlesFlat DEF Shaped4, ShapedOver
  <1> QED
    BY <1>2 DEF h

\* The answer of every handler is a message of the type its method answers with.
LEMMA ResponseShaped ==
    ASSUME NEW m \in Methods, NEW r
    PROVE  ServiceDesc[m].resp \in DOMAIN Schema /\ Shaped(ServiceDesc[m].resp, Response(m, r))
  <1>1. /\ {"bool", "string", "uint64"} \cap DOMAIN Schema = {}
        /\ {"RegisterResponse", "HeartbeatResponse", "TaskAck", "MemoryAllocResponse",
            "GPUMemoryAllocResponse", "FreeMemoryResponse", "FreeGPUMemoryResponse"}
             \subseteq DOMAIN Schema
    BY DEF Schema
  <1>2. CASE m = "Register"
    <2> DEFINE given == [Accepted |-> TRUE, ClusterId |-> ClusterID,
                         ControlPlaneLeader |-> LeaderAddr, HeartbeatIntervalMs |-> 5000]
    <2>1. \A f \in DOMAIN given : ~IsMessage(Schema["RegisterResponse"][f])
      BY <1>1, AnswersDeclared DEF Declared, IsMessage
    <2> HIDE DEF given
    <2>2. Shaped("RegisterResponse", New("RegisterResponse", given))
      BY <1>1, <2>1, NewShaped
    <2> QED
      BY <1>1, <1>2, <2>2, MethodTypes DEF Response, given
  <1>3. CASE m = "Heartbeat"
    <2> DEFINE given == [Acknowledged |-> TRUE, Sequence |-> r.Sequence]
    <2>1. \A f \in DOMAIN given : ~IsMessage(Schema["HeartbeatResponse"][f])
      BY <1>1, AnswersDeclared DEF Declared, IsMessage
    <2> HIDE DEF given
    <2>2. Shaped("HeartbeatResponse", New("HeartbeatResponse", given))
      BY <1>1, <2>1, NewShaped
    <2> QED
      BY <1>1, <1>3, <2>2, MethodTypes DEF Response, given
  <1>4. CASE m = "ExecuteTask"
    <2> DEFINE given == [Accepted |-> TRUE]
    <2>1. \A f \in DOMAIN given : ~IsMessage(Schema["TaskAck"][f])
      BY <1>1, AnswersDeclared DEF Declared, IsMessage
    <2> HIDE DEF given
    <2>2. Shaped("TaskAck", New("TaskAck", given))
      BY <1>1, <2>1, NewShaped
    <2> QED
      BY <1>1, <1>4, <2>2, MethodTypes DEF Response, given
  <1>5. CASE m = "AllocateMemory"
    <2> DEFINE h == New("MemoryHandle", [AllocationId |-> r.AllocationId,
                                         SizeBytes |-> r.SizeBytes])
               given == [Success |-> TRUE, Handle |-> h]
    <2>1. Shaped4("MemoryHandle", h)
      BY HandleShaped
    <2> HIDE DEF h
    <2>2. \A f \in DOMAIN given : IsMessage(Schema["MemoryAllocResponse"][f]) =>
             /\ ~Schema["MemoryAllocResponse"][f].rep
             /\ Shaped4(Schema["MemoryAllocResponse"][f].type, given[f])
      BY <1>1, <2>1, AnswersDeclared DEF Declared, IsMessage
    <2> HIDE DEF given
    <2>3. Shaped("MemoryAllocResponse", New("MemoryAllocResponse", given))
      BY <1>1, <2>2, NewShaped
    <2> QED
      BY <1>1, <1>5, <2>3, MethodTypes DEF Response, given, h
  <1>6. CASE m = "AllocateGPUMemory"
    <2> DEFINE h == New("GPUHandle", [AllocationId |-> r.AllocationId,
                                      SizeBytes |-> r.SizeBytes])
               given == [Success |-> TRUE, Handle |-> h]
    <2>1. Shaped4("GPUHandle", h)
      BY HandleShaped
    <2> HIDE DEF h
    <2>2. \A f \in DOMAIN given : IsMessage(Schema["GPUMemoryAllocResponse"][f]) =>
             /\ ~Schema["GPUMemoryAllocResponse"][f].rep
             /\ Shaped4(Schema["GPUMemoryAllocResponse"][f].type, given[f])
      BY <1>1, <2>1, AnswersDeclared DEF Declared, IsMessage
    <2> HIDE DEF given
    <2>3. Shaped("GPUMemoryAllocResponse", New("GPUMemoryAllocResponse", given))
      BY <1>1, <2>2, NewShaped
    <2> QED
      BY <1>1, <1>6, <2>3, MethodTypes DEF Response, given, h
  <1>7. CASE m = "FreeMemory"
    <2> DEFINE given == [Success |-> TRUE]
    <2>1. \A f \in DOMAIN given : ~IsMessage(Schema["FreeMemoryResponse"][f])
      BY <1>1, AnswersDeclared DEF Declared, IsMessage
    <2> HIDE DEF given
    <2>2. Shaped("FreeMemoryResponse", New("FreeMemoryResponse", given))
      BY <1>1, <2>1, NewShaped
    <2> QED
      BY <1>1, <1>7, <2>2, MethodTypes DEF Response, given
  <1>8. CASE m = "FreeGPUMemory"
    <2> DEFINE given == [Success |-> TRUE]
    <2>1. \A f \in DOMAIN given : ~IsMessage(Schema["FreeGPUMemoryResponse"][f])
      BY <1>1, AnswersDeclared DEF Declared, IsMessage
    <2> HIDE DEF given
    <2>2. Shaped("FreeGPUMemoryResponse", New("FreeGPUMemoryResponse", given))
      BY <1>1, <2>1, NewShaped
    <2> QED
      BY <1>1, <1>8, <2>2, MethodTypes DEF Response, given
  <1> QED
    BY <1>2, <1>3, <1>4, <1>5, <1>6, <1>7, <1>8 DEF Methods

\* The handlers answer what they were asked.
LEMMA ResponseAnswers ==
    ASSUME NEW m \in Methods, NEW r,
           m \in {"AllocateMemory", "AllocateGPUMemory"} => Response(m, r).Handle # Nil
    PROVE  Answers(m, Response(m, r), r)
  <1>1. CASE m = "Register"
    <2>1. Response(m, r).Accepted /\ Response(m, r).ClusterId = ClusterID
      BY <1>1, AnswersDeclared DEF Response, New, Declared
    <2> QED
      BY <1>1, <2>1 DEF Answers
  <1>2. CASE m = "Heartbeat"
    <2>1. Response(m, r).Acknowledged /\ Response(m, r).Sequence = r.Sequence
      BY <1>2, AnswersDeclared DEF Response, New, Declared
    <2> QED
      BY <1>2, <2>1 DEF Answers
  <1>3. CASE m = "ExecuteTask"
    <2>1. Response(m, r).Accepted /\ Response(m, r).Error = Zero(Schema["TaskAck"]["Error"])
      BY <1>3, AnswersDeclared DEF Response, New, Declared
    <2>2. Zero(Schema["TaskAck"]["Error"]) = ""
      <3>1. "string" \notin DOMAIN Schema
        BY DEF Schema
      <3> QED
        BY <3>1, AnswersDeclared DEF Zero, Declared, IsMessage
    <2> QED
      BY <1>3, <2>1, <2>2 DEF Answers
  <1>4. CASE m = "AllocateMemory"
    <2> DEFINE h == New("MemoryHandle", [AllocationId |-> r.AllocationId,
                                         SizeBytes |-> r.SizeBytes])
    <2>1. h.AllocationId = r.AllocationId /\ h.SizeBytes = r.SizeBytes
      BY HandlesFlat DEF New
    <2> HIDE DEF h
    <2>2. Response(m, r) = New("MemoryAllocResponse", [Success |-> TRUE, Handle |-> h])
      BY <1>4 DEF Response, h
    <2>3. Response(m, r).Handle = h
      BY <2>2, AnswersDeclared DEF New, Declared
    <2> QED
      BY <1>4, <2>1, <2>3 DEF Answers, Get
  <1>5. CASE m = "AllocateGPUMemory"
    <2> DEFINE h == New("GPUHandle", [AllocationId |-> r.AllocationId,
                                      SizeBytes |-> r.SizeBytes])
    <2>1. h.AllocationId = r.AllocationId /\ h.SizeBytes = r.SizeBytes
      BY HandlesFlat DEF New
    <2> HIDE DEF h
    <2>2. Response(m, r) = New("GPUMemoryAllocResponse", [Success |-> TRUE, Handle |-> h])
      BY <1>5 DEF Response, h
    <2>3. Response(m, r).Handle = h
      BY <2>2, AnswersDeclared DEF New, Declared
    <2> QED
      BY <1>5, <2>1, <2>3 DEF Answers, Get
  <1>6. CASE m = "FreeMemory"
    <2>1. Response(m, r).Success
      BY <1>6, AnswersDeclared DEF Response, New, Declared
    <2> QED
      BY <1>6, <2>1 DEF Answers
  <1>7. CASE m = "FreeGPUMemory"
    <2>1. Response(m, r).Success
      BY <1>7, AnswersDeclared DEF Response, New, Declared
    <2> QED
      BY <1>7, <2>1 DEF Answers
  <1> QED
    BY <1>1, <1>2, <1>3, <1>4, <1>5, <1>6, <1>7 DEF Methods

-----------------------------------------------------------------------------
(* What a call deserves.                                                   *)

\* A served path names a method, and the request is one that method takes.
LEMMA OfferKnown ==
    ASSUME NEW c \in Calls, sent[c] \in Offers[c], Served(sent[c].path)
    PROVE  /\ Method(c) \in Methods
           /\ sent[c].path = FullMethodName(Method(c))
           /\ Desc(c) = ServiceDesc[Method(c)]
           /\ Desc(c).type = IF Method(c) = "Heartbeat" THEN "stream" ELSE "unary"
           /\ Desc(c).type = "unary" => sent[c].body # Nil
           /\ sent[c].body \notin {Nil, Malformed} => Request(Desc(c).req, sent[c].body)
  <1>1. PICK m \in Methods : sent[c].path = FullMethodName(m)
    BY MethodsServed DEF Served
  <1>2. Method(c) = m
    BY <1>1, PathOf DEF Method
  <1>3. Desc(c) = ServiceDesc[m]
    BY <1>2 DEF Desc
  <1>4. Desc(c).type = IF m = "Heartbeat" THEN "stream" ELSE "unary"
    BY <1>3, MethodTypes
  <1>5. \/ sent[c].body = Malformed
        \/ sent[c].body = Nil /\ Desc(c).type = "stream"
        \/ Request(Desc(c).req, sent[c].body)
    BY <1>1, <1>3, MethodsServed, OffersAssumption
  <1>6. Desc(c).type = "unary" => sent[c].body # Nil
    BY <1>5, NilAssumption DEF Request
  <1>7. sent[c].body \notin {Nil, Malformed} => Request(Desc(c).req, sent[c].body)
    BY <1>5
  <1> QED
    BY <1>1, <1>2, <1>3, <1>4, <1>6, <1>7

\* The request types are message types, so a request arrives as it was sent.
LEMMA RequestArrives ==
    ASSUME NEW c \in Calls, sent[c] \in Offers[c], Served(sent[c].path),
           sent[c].body \notin {Nil, Malformed}
    PROVE  /\ Decode(Desc(c).req, Wire(c)) = sent[c].body
           /\ DOMAIN sent[c].body = DOMAIN Schema[Desc(c).req]
  <1>1. \A m \in Methods : ServiceDesc[m].req \in DOMAIN Schema
    <2>1. {"RegisterRequest", "HeartbeatRequest", "TaskSpec", "MemoryAllocRequest",
           "GPUMemoryAllocRequest", "FreeMemoryRequest", "FreeGPUMemoryRequest"}
            \subseteq DOMAIN Schema
      BY DEF Schema
    <2> QED
      BY <2>1, MethodTypes DEF Methods
  <1>2. Desc(c).req \in DOMAIN Schema /\ Shaped(Desc(c).req, sent[c].body)
    BY <1>1, OfferKnown DEF Request
  <1>3. Wire(c) = Encode(Desc(c).req, sent[c].body)
    BY DEF Wire
  <1>4. Decode(Desc(c).req, Wire(c)) = sent[c].body
    BY <1>2, <1>3, RoundTrip
  <1>5. DOMAIN sent[c].body = DOMAIN Schema[Desc(c).req]
    BY <1>2 DEF Shaped, ShapedOver
  <1> QED
    BY <1>4, <1>5

\* An answer to such a request arrives too, and is not nil.
LEMMA ResponseArrives ==
    ASSUME NEW c \in Calls, sent[c] \in Offers[c], Served(sent[c].path),
           sent[c].body \notin {Nil, Malformed}
    PROVE  LET r == Response(Method(c), sent[c].body)
           IN  /\ r # Nil
               /\ Decode(Desc(c).resp, Encode(Desc(c).resp, r)) = r
               /\ Answers(Method(c), r, sent[c].body)
  <1> DEFINE m == Method(c)
             r == Response(m, sent[c].body)
  <1>1. m \in Methods /\ Desc(c) = ServiceDesc[m] /\ sent[c].path = FullMethodName(m)
    BY OfferKnown
  <1>2. r # Nil /\ (m \in {"AllocateMemory", "AllocateGPUMemory"} => r.Handle # Nil)
    BY <1>1, MethodsServed, NilAssumption
  <1>3. Answers(m, r, sent[c].body)
    BY <1>1, <1>2, ResponseAnswers
  <1>4. Desc(c).resp \in DOMAIN Schema /\ Shaped(Desc(c).resp, r)
    BY <1>1, ResponseShaped
  <1>5. Decode(Desc(c).resp, Encode(Desc(c).resp, r)) = r
    <2> HIDE DEF r
    <2> QED
      BY <1>4, RoundTrip
  <1> QED
    BY <1>2, <1>3, <1>5

\* The outcomes of authentication.
LEMMA TokenVerdicts ==
    ASSUME NEW tokens
    PROVE  validateBearerToken(tokens) =
             IF AgentToken = "" \/ Bearer(AgentToken) \in ToSet(tokens) THEN "OK"
             ELSE IF tokens = << >> THEN "Unauthenticated" ELSE "PermissionDenied"
  <1>1. ToSet(<< >>) = {}
    BY DEF ToSet
  <1> QED
    BY <1>1 DEF validateBearerToken

\* The verdict in the terms of the server's own checks.
LEMMA VerdictOf ==
    ASSUME NEW c \in Calls, sent[c] \in Offers[c]
    PROVE  /\ ~Served(sent[c].path) => Verdict(c) = "Unimplemented"
           /\ Served(sent[c].path) =>
                IF Desc(c).type = "unary" /\ sent[c].body = Malformed
                THEN Verdict(c) = "Internal"
                ELSE IF validateBearerToken(sent[c].tokens) # "OK"
                THEN Verdict(c) = validateBearerToken(sent[c].tokens)
                ELSE IF sent[c].body = Malformed THEN Verdict(c) = "Internal"
                ELSE IF sent[c].body = Nil THEN Verdict(c) = "OK"
                ELSE IF validateAll(Checks(Method(c), sent[c].body)) THEN Verdict(c) = "OK"
                ELSE Verdict(c) = "InvalidArgument"
  <1> DEFINE o == sent[c]
             refused == AgentToken # "" /\ Bearer(AgentToken) \notin ToSet(o.tokens)
             stream == Method(c) = "Heartbeat"
  <1>1. ASSUME ~Served(o.path) PROVE Verdict(c) = "Unimplemented"
    BY <1>1 DEF Verdict
  <1>2. SUFFICES ASSUME Served(o.path)
                 PROVE  IF Desc(c).type = "unary" /\ o.body = Malformed
                        THEN Verdict(c) = "Internal"
                        ELSE IF validateBearerToken(o.tokens) # "OK"
                        THEN Verdict(c) = validateBearerToken(o.tokens)
                        ELSE IF o.body = Malformed THEN Verdict(c) = "Internal"
                        ELSE IF o.body = Nil THEN Verdict(c) = "OK"
                        ELSE IF validateAll(Checks(Method(c), o.body)) THEN Verdict(c) = "OK"
                        ELSE Verdict(c) = "InvalidArgument"
    BY <1>1
  <1>3. /\ Desc(c).type = IF stream THEN "stream" ELSE "unary"
        /\ Method(c) \in Methods /\ Desc(c) = ServiceDesc[Method(c)]
        /\ o.body \notin {Nil, Malformed} => Request(Desc(c).req, o.body)
    BY <1>2, OfferKnown
  <1>4. o.body \notin {Nil, Malformed} =>
          (validateAll(Checks(Method(c), o.body)) <=> Legal(Method(c), o.body))
    BY <1>3, ValidIsLegal
  <1>5. /\ ~stream /\ o.body = Malformed => Verdict(c) = "Internal"
        /\ (stream \/ o.body # Malformed) /\ refused =>
             Verdict(c) = IF o.tokens = << >> THEN "Unauthenticated" ELSE "PermissionDenied"
        /\ (stream \/ o.body # Malformed) /\ ~refused =>
             Verdict(c) = IF o.body = Malformed THEN "Internal"
                          ELSE IF o.body = Nil THEN "OK"
                          ELSE IF Legal(Method(c), o.body) THEN "OK" ELSE "InvalidArgument"
    BY <1>2, NilAssumption DEF Verdict, Judged
  <1>6. validateBearerToken(o.tokens) =
          IF ~refused THEN "OK"
          ELSE IF o.tokens = << >> THEN "Unauthenticated" ELSE "PermissionDenied"
    BY TokenVerdicts
  <1> HIDE DEF o, refused, stream
  <1> QED
    BY <1>3, <1>4, <1>5, <1>6

-----------------------------------------------------------------------------
(* The inductive invariant, call by call.                                  *)

Entered(c) == call[c].at \in {"entered", "handling", "streaming", "returned"}

\* A request is a message: it is neither missing nor undecodable.
Sound(c) == sent[c].body \notin {Nil, Malformed}

\* What is known of a call before its handler has decided.
Untouched(c) ==
    /\ call[c].code = "OK" /\ call[c].resp = Nil /\ call[c].handed = Nil
    /\ call[c].last = Nil

\* A call the server has let in is served, and a unary one has been decoded.
Admitted(c) ==
    /\ Served(sent[c].path)
    /\ Desc(c).type = "unary" => Sound(c)

\* A stream that ended because its connection broke.
Broken(c) ==
    /\ Method(c) = "Heartbeat"
    /\ call[c].code \in BrokenCodes /\ answer[c].code = "Unavailable"

\* What the registry may be handed.
Allowed(m, handed) ==
    /\ handed.NodeId \in IDs(Limits.NodeID)
    /\ m = "Heartbeat" => Len(handed.Tasks) \in 0..Limits.TasksPerHeartbeat

CallInv(c) ==
    /\ call[c] = [at |-> call[c].at, req |-> call[c].req, code |-> call[c].code,
                  resp |-> call[c].resp, handed |-> call[c].handed, last |-> call[c].last]
    /\ call[c].at \in CallAts
    /\ call[c].at = "none" => /\ sent[c] = NotSent /\ call[c] = NoCall
                              /\ answer[c] = NoAnswer
    /\ call[c].at # "none" => sent[c] \in Offers[c]
    /\ call[c].at = "arrived" => Untouched(c) /\ call[c].req = Nil
    /\ Entered(c) => Admitted(c)
    /\ call[c].at \in {"entered", "handling"} =>
         /\ Untouched(c)
         /\ call[c].req = IF Desc(c).type = "unary" THEN sent[c].body ELSE Nil
    /\ call[c].at = "handling" => validateBearerToken(sent[c].tokens) = "OK"
    /\ call[c].last # Nil => /\ call[c].last \in Later
                             /\ Method(c) = "Heartbeat" /\ Verdict(c) = "OK"
    /\ call[c].at = "streaming" => /\ call[c].code = "OK" /\ Method(c) = "Heartbeat"
                                   /\ Verdict(c) = "OK" /\ Deserved(c) = "OK"
    /\ call[c].at \in {"returned", "replied"} => call[c].code = Deserved(c) \/ Broken(c)

\* What a call holds is its own.
ContentInv(c) ==
    /\ call[c].req # Nil => /\ Served(sent[c].path)
                            /\ DOMAIN call[c].req = DOMAIN Schema[Desc(c).req]
    /\ call[c].handed # Nil =>
         /\ Verdict(c) = "OK"
         /\ Deserved(c) = "OK" => call[c].handed = Handed(Method(c), Latest(c))
         /\ Allowed(Method(c), call[c].handed)
    /\ call[c].resp # Nil => /\ Served(sent[c].path) /\ Sound(c)
                             /\ Verdict(c) = "OK"
                             /\ call[c].resp = Response(Method(c), sent[c].body)
    /\ call[c].at \in {"streaming", "returned", "replied"} /\ call[c].code = "OK"
          /\ sent[c].body # Nil => call[c].resp # Nil

\* What its client got is what the server sent it.
AnswerInv(c) ==
    /\ answer[c] = [code |-> answer[c].code, msg |-> answer[c].msg]
    /\ answer[c].code \in Codes \cup {"none"}
    /\ answer[c].code = "none" => answer[c] = NoAnswer
    /\ answer[c].msg # Nil => /\ call[c].at = "replied" /\ answer[c].msg = call[c].resp
                              /\ Method(c) # "Heartbeat" => answer[c].code = "OK"
    /\ answer[c].code = "OK" => /\ call[c].at = "replied" /\ call[c].code = "OK"
                                /\ answer[c].msg = call[c].resp

CallsInv ==
    /\ up \in BOOLEAN
    /\ sent = [c \in Calls |-> sent[c]]
    /\ call = [c \in Calls |-> call[c]]
    /\ answer = [c \in Calls |-> answer[c]]
    /\ \A c \in Calls : CallInv(c) /\ ContentInv(c) /\ AnswerInv(c)

\* A step of a call leaves the others alone.
OneCall(c) ==
    /\ sent' = [d \in Calls |-> sent'[d]]
    /\ call' = [d \in Calls |-> call'[d]]
    /\ answer' = [d \in Calls |-> answer'[d]]
    /\ \A d \in Calls \ {c} : sent'[d] = sent[d] /\ call'[d] = call[d] /\ answer'[d] = answer[d]

\* Call c becomes this.
Becomes(c, at, req, code, resp, handed, last) ==
    /\ call' = [d \in Calls |-> call'[d]]
    /\ call'[c] = [at |-> at, req |-> req, code |-> code, resp |-> resp, handed |-> handed,
                   last |-> last]
    /\ \A d \in Calls \ {c} : call'[d] = call[d]

LEMMA PutAt ==
    ASSUME CallsInv, NEW c \in Calls, NEW a, call' = [call EXCEPT ![c].at = a]
    PROVE  Becomes(c, a, call[c].req, call[c].code, call[c].resp, call[c].handed, call[c].last)
  <1> DEFINE k == call[c]
  <1>1. k = [at |-> k.at, req |-> k.req, code |-> k.code, resp |-> k.resp,
             handed |-> k.handed, last |-> k.last]
    BY DEF CallsInv, CallInv
  <1>2. call = [d \in Calls |-> call[d]]
    BY DEF CallsInv
  <1>3. call'[c] = [k EXCEPT !.at = a]
    BY <1>2
  <1>4. [k EXCEPT !.at = a] =
          [at |-> a, req |-> k.req, code |-> k.code, resp |-> k.resp,
           handed |-> k.handed, last |-> k.last]
    <2> HIDE DEF k
    <2> QED
      BY <1>1
  <1>5. call' = [d \in Calls |-> call'[d]] /\ \A d \in Calls \ {c} : call'[d] = call[d]
    BY <1>2
  <1> QED
    BY <1>3, <1>4, <1>5 DEF Becomes

LEMMA PutAtCode ==
    ASSUME CallsInv, NEW c \in Calls, NEW a, NEW b,
           call' = [call EXCEPT ![c].at = a, ![c].code = b]
    PROVE  Becomes(c, a, call[c].req, b, call[c].resp, call[c].handed, call[c].last)
  <1> DEFINE k == call[c]
             mid == [call EXCEPT ![c].at = a]
  <1>1. k = [at |-> k.at, req |-> k.req, code |-> k.code, resp |-> k.resp,
             handed |-> k.handed, last |-> k.last]
    BY DEF CallsInv, CallInv
  <1>2. call = [d \in Calls |-> call[d]]
    BY DEF CallsInv
  <1>3. mid = [d \in Calls |-> mid[d]] /\ mid[c] = [k EXCEPT !.at = a]
        /\ \A d \in Calls \ {c} : mid[d] = call[d]
    BY <1>2
  <1>4. call' = [mid EXCEPT ![c].code = b]
    OBVIOUS
  <1> HIDE DEF mid
  <1>5. /\ call' = [d \in Calls |-> call'[d]]
        /\ call'[c] = [mid[c] EXCEPT !.code = b]
        /\ \A d \in Calls \ {c} : call'[d] = call[d]
    BY <1>3, <1>4
  <1>6. mid[c] = [at |-> a, req |-> k.req, code |-> k.code, resp |-> k.resp,
                  handed |-> k.handed, last |-> k.last]
    <2> HIDE DEF k
    <2> QED
      BY <1>1, <1>3
  <1>7. call'[c] = [at |-> a, req |-> k.req, code |-> b, resp |-> k.resp,
                    handed |-> k.handed, last |-> k.last]
    <2> HIDE DEF k
    <2> QED
      BY <1>5, <1>6
  <1> QED
    BY <1>5, <1>7 DEF Becomes

LEMMA PutAtReq ==
    ASSUME CallsInv, NEW c \in Calls, NEW a, NEW b,
           call' = [call EXCEPT ![c].at = a, ![c].req = b]
    PROVE  Becomes(c, a, b, call[c].code, call[c].resp, call[c].handed, call[c].last)
  <1> DEFINE k == call[c]
             mid == [call EXCEPT ![c].at = a]
  <1>1. k = [at |-> k.at, req |-> k.req, code |-> k.code, resp |-> k.resp,
             handed |-> k.handed, last |-> k.last]
    BY DEF CallsInv, CallInv
  <1>2. call = [d \in Calls |-> call[d]]
    BY DEF CallsInv
  <1>3. mid = [d \in Calls |-> mid[d]] /\ mid[c] = [k EXCEPT !.at = a]
        /\ \A d \in Calls \ {c} : mid[d] = call[d]
    BY <1>2
  <1>4. call' = [mid EXCEPT ![c].req = b]
    OBVIOUS
  <1> HIDE DEF mid
  <1>5. /\ call' = [d \in Calls |-> call'[d]]
        /\ call'[c] = [mid[c] EXCEPT !.req = b]
        /\ \A d \in Calls \ {c} : call'[d] = call[d]
    BY <1>3, <1>4
  <1>6. mid[c] = [at |-> a, req |-> k.req, code |-> k.code, resp |-> k.resp,
                  handed |-> k.handed, last |-> k.last]
    <2> HIDE DEF k
    <2> QED
      BY <1>1, <1>3
  <1>7. call'[c] = [at |-> a, req |-> b, code |-> k.code, resp |-> k.resp,
                    handed |-> k.handed, last |-> k.last]
    <2> HIDE DEF k
    <2> QED
      BY <1>5, <1>6
  <1> QED
    BY <1>5, <1>7 DEF Becomes

LEMMA PutProceed ==
    ASSUME CallsInv, NEW c \in Calls, NEW r, NEW a, Proceed(c, r, a)
    PROVE  IF validateAll(Checks(Method(c), r))
           THEN Becomes(c, a, r, "OK", Response(Method(c), r), Handed(Method(c), r), call[c].last)
           ELSE Becomes(c, "returned", r, "InvalidArgument", call[c].resp, call[c].handed,
                        call[c].last)
  <1> DEFINE k == call[c]
             good == validateAll(Checks(Method(c), r))
             resp == Response(Method(c), r)
             handed == Handed(Method(c), r)
             next == IF good
                     THEN [k EXCEPT !.at = a, !.req = r, !.code = "OK",
                                    !.resp = resp, !.handed = handed]
                     ELSE [k EXCEPT !.at = "returned", !.req = r, !.code = "InvalidArgument"]
  <1>1. k = [at |-> k.at, req |-> k.req, code |-> k.code, resp |-> k.resp,
             handed |-> k.handed, last |-> k.last]
    BY DEF CallsInv, CallInv
  <1>2. call = [d \in Calls |-> call[d]]
    BY DEF CallsInv
  <1>3. call' = [call EXCEPT ![c] = next]
    BY DEF Proceed
  <1> HIDE DEF next
  <1>4. /\ call' = [d \in Calls |-> call'[d]]
        /\ call'[c] = next
        /\ \A d \in Calls \ {c} : call'[d] = call[d]
    BY <1>2, <1>3
  <1> HIDE DEF k, good, resp, handed
  <1>5. good => next = [at |-> a, req |-> r, code |-> "OK", resp |-> resp,
                        handed |-> handed, last |-> k.last]
    BY <1>1 DEF next
  <1>6. ~good => next = [at |-> "returned", req |-> r, code |-> "InvalidArgument",
                         resp |-> k.resp, handed |-> k.handed, last |-> k.last]
    BY <1>1 DEF next
  <1> QED
    BY <1>4, <1>5, <1>6 DEF Becomes, k, good, resp, handed

\* A message that follows on a stream arrives as it was built, and the checks
\* of the handler are the limits of validator.go.
LEMMA LaterArrives ==
    ASSUME NEW m \in Later
    PROVE  /\ m # Nil
           /\ m # Malformed =>
                /\ Decode("HeartbeatRequest", Encode("HeartbeatRequest", m)) = m
                /\ DOMAIN m = DOMAIN Schema["HeartbeatRequest"]
                /\ validateAll(Checks("Heartbeat", m)) <=> Legal("Heartbeat", m)
  <1>1. m = Malformed \/ Request("HeartbeatRequest", m)
    BY LaterAssumption
  <1>2. m # Nil
    BY <1>1, NilAssumption DEF Request
  <1>3. ASSUME Request("HeartbeatRequest", m)
        PROVE  /\ Decode("HeartbeatRequest", Encode("HeartbeatRequest", m)) = m
               /\ DOMAIN m = DOMAIN Schema["HeartbeatRequest"]
               /\ validateAll(Checks("Heartbeat", m)) <=> Legal("Heartbeat", m)
    <2>1. /\ ServiceDesc["Heartbeat"].req = "HeartbeatRequest"
          /\ "Heartbeat" \in Methods /\ "HeartbeatRequest" \in DOMAIN Schema
      BY DEF ServiceDesc, Methods, Schema
    <2>2. Shaped("HeartbeatRequest", m)
      BY <1>3 DEF Request
    <2>3. validateAll(Checks("Heartbeat", m)) <=> Legal("Heartbeat", m)
      BY <1>3, <2>1, ValidIsLegal
    <2>4. Decode("HeartbeatRequest", Encode("HeartbeatRequest", m)) = m
      BY <2>1, <2>2, RoundTrip
    <2> QED
      BY <2>2, <2>3, <2>4 DEF Shaped, ShapedOver
  <1> QED
    BY <1>1, <1>2, <1>3

\* What only the request decides stays as long as the request does.
LEMMA SentStays ==
    ASSUME NEW c \in Calls, sent'[c] = sent[c]
    PROVE  /\ Method(c)' = Method(c) /\ Desc(c)' = Desc(c)
           /\ Verdict(c)' = Verdict(c) /\ (Sound(c)' <=> Sound(c))
           /\ (Served(sent[c].path)' <=> Served(sent[c].path))
  <1>1. Method(c)' = Method(c)
    BY DEF Method
  <1>2. Desc(c)' = Desc(c)
    BY <1>1 DEF Desc
  <1>3. Verdict(c)' = Verdict(c)
    BY <1>1 DEF Verdict
  <1>4. Sound(c)' <=> Sound(c)
    BY DEF Sound
  <1> QED
    BY <1>1, <1>2, <1>3, <1>4

\* What a call deserves stays as long as its messages do.
LEMMA DeservedStays ==
    ASSUME NEW c \in Calls, sent'[c] = sent[c], call'[c].last = call[c].last
    PROVE  Deserved(c)' = Deserved(c) /\ Latest(c)' = Latest(c)
  BY SentStays DEF Deserved, Latest

\* Before a second message there is only the request to judge.
LEMMA NoLater ==
    ASSUME NEW c \in Calls, call[c].last = Nil
    PROVE  Deserved(c) = Verdict(c) /\ Latest(c) = sent[c].body
  BY DEF Deserved, Latest

LEMMA OthersStay ==
    ASSUME NEW c \in Calls, sent'[c] = sent[c], call'[c] = call[c], answer'[c] = answer[c],
           CallInv(c), ContentInv(c), AnswerInv(c)
    PROVE  CallInv(c)' /\ ContentInv(c)' /\ AnswerInv(c)'
  <1>1. CallInv(c)'
    BY SentStays, DeservedStays DEF CallInv, Untouched, Entered, Admitted, Broken
  <1>2. ContentInv(c)'
    BY SentStays, DeservedStays DEF ContentInv
  <1>3. AnswerInv(c)'
    BY SentStays DEF AnswerInv
  <1> QED
    BY <1>1, <1>2, <1>3

LEMMA OneCallEnough ==
    ASSUME CallsInv, up' \in BOOLEAN, NEW c \in Calls, OneCall(c),
           CallInv(c)', ContentInv(c)', AnswerInv(c)'
    PROVE  CallsInv'
  <1>1. ASSUME NEW d \in Calls PROVE CallInv(d)' /\ ContentInv(d)' /\ AnswerInv(d)'
    <2>1. CASE d = c
      BY <2>1
    <2>2. CASE d # c
      BY <2>2, OthersStay DEF CallsInv, OneCall
    <2> QED
      BY <2>1, <2>2
  <1> QED
    BY <1>1 DEF CallsInv, OneCall

\* The fields of a call that became this, in a step that leaves sent and answer alone.
LEMMA Fields ==
    ASSUME CallsInv, NEW c \in Calls, NEW at, NEW req, NEW code, NEW resp, NEW handed,
           NEW last, Becomes(c, at, req, code, resp, handed, last), UNCHANGED <<sent, answer>>
    PROVE  /\ OneCall(c)
           /\ call'[c].at = at /\ call'[c].req = req /\ call'[c].code = code
           /\ call'[c].resp = resp /\ call'[c].handed = handed /\ call'[c].last = last
           /\ call'[c] = [at |-> call'[c].at, req |-> call'[c].req, code |-> call'[c].code,
                          resp |-> call'[c].resp, handed |-> call'[c].handed,
                          last |-> call'[c].last]
  BY DEF Becomes, OneCall, CallsInv

-----------------------------------------------------------------------------
(* The steps of a call.                                                    *)

LEMMA InvokeStep ==
    ASSUME CallsInv, NEW c \in Calls, NEW o \in Offers[c], Invoke(c, o)
    PROVE  CallsInv'
  <1> USE DEF Invoke
  <1>1. Becomes(c, "arrived", call[c].req, call[c].code, call[c].resp, call[c].handed,
                call[c].last)
    BY PutAt
  <1>2. /\ sent'[c] = o
        /\ OneCall(c)
    BY <1>1 DEF CallsInv, OneCall, Becomes
  <1>3. call[c] = NoCall /\ answer[c] = NoAnswer /\ answer'[c] = NoAnswer
    BY DEF CallsInv, CallInv
  <1>4. /\ call'[c] = [at |-> "arrived", req |-> Nil, code |-> "OK", resp |-> Nil, handed |-> Nil,
                    last |-> Nil]
    BY <1>1, <1>3 DEF Becomes, NoCall
  <1>5. CallInv(c)'
    BY <1>2, <1>4 DEF CallInv, Untouched, Entered, CallAts
  <1>6. ContentInv(c)'
    BY <1>4 DEF ContentInv
  <1>7. AnswerInv(c)'
    BY <1>3 DEF AnswerInv, NoAnswer
  <1> QED
    BY <1>2, <1>5, <1>6, <1>7, OneCallEnough DEF CallsInv

\* The calls of this kind have no answer yet that tells anything.
LEMMA AnswerStays ==
    ASSUME NEW c \in Calls, AnswerInv(c), answer'[c] = answer[c], sent'[c] = sent[c],
           call[c].at # "replied"
    PROVE  AnswerInv(c)'
  BY DEF AnswerInv

LEMMA RejectUnknownStep ==
    ASSUME CallsInv, NEW c \in Calls, RejectUnknown(c)
    PROVE  CallsInv'
  <1>0. call[c].at = "arrived" /\ ~Served(sent[c].path) /\ UNCHANGED <<up, sent, answer>>
    BY DEF RejectUnknown
  <1>1. Becomes(c, "replied", call[c].req, "Unimplemented", call[c].resp, call[c].handed,
                call[c].last)
    BY PutAtCode DEF RejectUnknown
  <1>2. CallInv(c) /\ ContentInv(c) /\ AnswerInv(c) /\ sent'[c] = sent[c] /\ answer'[c] = answer[c]
    BY <1>0 DEF CallsInv
  <1>3. sent[c] \in Offers[c] /\ Untouched(c) /\ call[c].req = Nil
    BY <1>0, <1>2 DEF CallInv
  <1>4. Verdict(c) = "Unimplemented"
    BY <1>0, <1>3, VerdictOf
  <1>5. /\ OneCall(c)
        /\ call'[c].at = "replied" /\ call'[c].req = Nil /\ call'[c].code = "Unimplemented"
        /\ call'[c].resp = Nil /\ call'[c].handed = Nil /\ call'[c].last = Nil
        /\ call'[c] = [at |-> call'[c].at, req |-> call'[c].req, code |-> call'[c].code,
                       resp |-> call'[c].resp, handed |-> call'[c].handed, last |-> call'[c].last]
    BY <1>0, <1>1, <1>3, Fields DEF Untouched
  <1>6. CallInv(c)'
    BY <1>0, <1>2, <1>3, <1>4, <1>5, SentStays, DeservedStays, NoLater
       DEF CallInv, Broken, Entered, CallAts
  <1>7. ContentInv(c)'
    BY <1>5 DEF ContentInv
  <1>8. AnswerInv(c)'
    BY <1>0, <1>2, AnswerStays
  <1> QED
    BY <1>0, <1>5, <1>6, <1>7, <1>8, OneCallEnough DEF CallsInv

LEMMA RejectMalformedStep ==
    ASSUME CallsInv, NEW c \in Calls, RejectMalformed(c)
    PROVE  CallsInv'
  <1>0. /\ call[c].at = "arrived" /\ Served(sent[c].path) /\ Desc(c).type = "unary"
        /\ sent[c].body = Malformed /\ UNCHANGED <<up, sent, answer>>
    BY DEF RejectMalformed
  <1>1. Becomes(c, "replied", call[c].req, "Internal", call[c].resp, call[c].handed, call[c].last)
    BY PutAtCode DEF RejectMalformed
  <1>2. CallInv(c) /\ ContentInv(c) /\ AnswerInv(c) /\ sent'[c] = sent[c] /\ answer'[c] = answer[c]
    BY <1>0 DEF CallsInv
  <1>3. sent[c] \in Offers[c] /\ Untouched(c) /\ call[c].req = Nil
    BY <1>0, <1>2 DEF CallInv
  <1>4. Verdict(c) = "Internal"
    BY <1>0, <1>3, VerdictOf
  <1>5. /\ OneCall(c)
        /\ call'[c].at = "replied" /\ call'[c].req = Nil /\ call'[c].code = "Internal"
        /\ call'[c].resp = Nil /\ call'[c].handed = Nil /\ call'[c].last = Nil
        /\ call'[c] = [at |-> call'[c].at, req |-> call'[c].req, code |-> call'[c].code,
                       resp |-> call'[c].resp, handed |-> call'[c].handed, last |-> call'[c].last]
    BY <1>0, <1>1, <1>3, Fields DEF Untouched
  <1>6. CallInv(c)'
    BY <1>0, <1>2, <1>3, <1>4, <1>5, SentStays, DeservedStays, NoLater
       DEF CallInv, Broken, Entered, CallAts
  <1>7. ContentInv(c)'
    BY <1>5 DEF ContentInv
  <1>8. AnswerInv(c)'
    BY <1>0, <1>2, AnswerStays
  <1> QED
    BY <1>0, <1>5, <1>6, <1>7, <1>8, OneCallEnough DEF CallsInv

LEMMA EnterUnaryStep ==
    ASSUME CallsInv, NEW c \in Calls, EnterUnary(c)
    PROVE  CallsInv'
  <1>0. /\ call[c].at = "arrived" /\ Served(sent[c].path) /\ Desc(c).type = "unary"
        /\ sent[c].body # Malformed /\ UNCHANGED <<up, sent, answer>>
    BY DEF EnterUnary
  <1>2. CallInv(c) /\ ContentInv(c) /\ AnswerInv(c) /\ sent'[c] = sent[c] /\ answer'[c] = answer[c]
    BY <1>0 DEF CallsInv
  <1>3. sent[c] \in Offers[c] /\ Untouched(c) /\ call[c].req = Nil
    BY <1>0, <1>2 DEF CallInv
  <1>4. Sound(c)
    BY <1>0, <1>3, OfferKnown DEF Sound
  <1>5. Decode(Desc(c).req, Wire(c)) = sent[c].body
    BY <1>0, <1>3, <1>4, RequestArrives DEF Sound
  <1>6. Becomes(c, "entered", sent[c].body, call[c].code, call[c].resp, call[c].handed,
                call[c].last)
    BY <1>5, PutAtReq DEF EnterUnary
  <1>7. /\ OneCall(c)
        /\ call'[c].at = "entered" /\ call'[c].req = sent[c].body /\ call'[c].code = "OK"
        /\ call'[c].resp = Nil /\ call'[c].handed = Nil /\ call'[c].last = Nil
        /\ call'[c] = [at |-> call'[c].at, req |-> call'[c].req, code |-> call'[c].code,
                       resp |-> call'[c].resp, handed |-> call'[c].handed, last |-> call'[c].last]
    BY <1>0, <1>3, <1>6, Fields DEF Untouched
  <1>8. CallInv(c)'
    BY <1>0, <1>2, <1>3, <1>4, <1>7, SentStays, DeservedStays, NoLater
       DEF CallInv, Broken, Entered, CallAts, Untouched, Admitted
  <1>9. ContentInv(c)'
    BY <1>0, <1>2, <1>3, <1>4, <1>7, SentStays, RequestArrives DEF ContentInv, Sound
  <1>10. AnswerInv(c)'
    BY <1>0, <1>2, AnswerStays
  <1> QED
    BY <1>0, <1>7, <1>8, <1>9, <1>10, OneCallEnough DEF CallsInv

LEMMA EnterStreamStep ==
    ASSUME CallsInv, NEW c \in Calls, EnterStream(c)
    PROVE  CallsInv'
  <1> USE DEF EnterStream
  <1>1. Becomes(c, "entered", call[c].req, call[c].code, call[c].resp, call[c].handed,
                call[c].last)
    BY PutAt
  <1>2. CallInv(c) /\ ContentInv(c) /\ AnswerInv(c) /\ sent'[c] = sent[c] /\ answer'[c] = answer[c]
    BY DEF CallsInv
  <1>3. sent[c] \in Offers[c] /\ Untouched(c) /\ call[c].req = Nil
    BY <1>2 DEF CallInv
  <1>7. /\ OneCall(c)
        /\ call'[c].at = "entered" /\ call'[c].req = Nil /\ call'[c].code = "OK"
        /\ call'[c].resp = Nil /\ call'[c].handed = Nil /\ call'[c].last = Nil
        /\ call'[c] = [at |-> call'[c].at, req |-> call'[c].req, code |-> call'[c].code,
                       resp |-> call'[c].resp, handed |-> call'[c].handed, last |-> call'[c].last]
    BY <1>1, <1>3, Fields DEF Untouched
  <1>8. CallInv(c)'
    BY <1>2, <1>3, <1>7, SentStays, DeservedStays, NoLater
       DEF CallInv, Broken, Entered, CallAts, Untouched, Admitted
  <1>9. ContentInv(c)'
    BY <1>7 DEF ContentInv
  <1>10. AnswerInv(c)'
    BY <1>2, AnswerStays
  <1> QED
    BY <1>7, <1>8, <1>9, <1>10, OneCallEnough DEF CallsInv

LEMMA AuthenticateStep ==
    ASSUME CallsInv, NEW c \in Calls, Authenticate(c)
    PROVE  CallsInv'
  <1> DEFINE verdict == validateBearerToken(sent[c].tokens)
             at == IF verdict = "OK" THEN "handling" ELSE "returned"
  <1>1. call[c].at = "entered" /\ UNCHANGED <<up, sent, answer>>
    BY DEF Authenticate
  <1> HIDE DEF at
  <1>2. CallInv(c) /\ ContentInv(c) /\ AnswerInv(c) /\ sent'[c] = sent[c] /\ answer'[c] = answer[c]
    BY <1>1 DEF CallsInv
  <1>3. Becomes(c, at, call[c].req, verdict, call[c].resp, call[c].handed, call[c].last)
    BY PutAtCode DEF Authenticate, at
  <1>4. /\ sent[c] \in Offers[c] /\ Untouched(c) /\ Admitted(c)
        /\ call[c].req = IF Desc(c).type = "unary" THEN sent[c].body ELSE Nil
    BY <1>1, <1>2 DEF CallInv, Broken, Entered
  <1>5. verdict # "OK" => Verdict(c) = verdict
    BY <1>4, VerdictOf DEF Admitted, Sound
  <1>7. /\ OneCall(c)
        /\ call'[c].at = at /\ call'[c].req = call[c].req /\ call'[c].code = verdict
        /\ call'[c].resp = Nil /\ call'[c].handed = Nil /\ call'[c].last = Nil
        /\ call'[c] = [at |-> call'[c].at, req |-> call'[c].req, code |-> call'[c].code,
                       resp |-> call'[c].resp, handed |-> call'[c].handed, last |-> call'[c].last]
    BY <1>1, <1>3, <1>4, Fields DEF Untouched
  <1> HIDE DEF verdict
  <1>8. CallInv(c)'
    <2>1. CASE verdict = "OK"
      <3>1. at = "handling"
        BY <2>1 DEF at
      <3> QED
        BY <1>2, <1>4, <1>7, <2>1, <3>1, SentStays, DeservedStays, NoLater
           DEF CallInv, Broken, Entered, CallAts, Untouched, Admitted, verdict
    <2>2. CASE verdict # "OK"
      <3>1. at = "returned"
        BY <2>2 DEF at
      <3> QED
        BY <1>2, <1>4, <1>5, <1>7, <2>2, <3>1, SentStays, DeservedStays, NoLater
           DEF CallInv, Broken, Entered, CallAts, Admitted
    <2> QED
      BY <2>1, <2>2
  <1>9. ContentInv(c)'
    BY <1>2, <1>7, SentStays, DeservedStays, NoLater DEF ContentInv, at
  <1>10. AnswerInv(c)'
    BY <1>1, <1>2, AnswerStays
  <1> QED
    BY <1>1, <1>7, <1>8, <1>9, <1>10, OneCallEnough DEF CallsInv

\* What is handed over of a legal message is in order.
LEMMA HandedAllowed ==
    ASSUME NEW m, NEW body, Legal(m, body)
    PROVE  Handed(m, body) = Nil \/ Allowed(m, Handed(m, body))
  <1>1. CASE m \in {"Register", "Heartbeat"}
    <2>0. "NodeId" \in DOMAIN Accepts[m] /\ Accepts[m]["NodeId"] = IDs(Limits.NodeID)
      <3>1. CASE m = "Register"
        BY <3>1 DEF Accepts
      <3>2. CASE m = "Heartbeat"
        BY <3>2 DEF Accepts
      <3> QED
        BY <1>1, <3>1, <3>2
    <2>1. body.NodeId \in IDs(Limits.NodeID)
      BY <2>0 DEF Legal
    <2>2. Handed(m, body).NodeId = body.NodeId
      BY <1>1 DEF Handed
    <2>3. m = "Heartbeat" => Len(Handed(m, body).Tasks) \in 0..Limits.TasksPerHeartbeat
      BY DEF Handed, Legal
    <2> QED
      BY <2>1, <2>2, <2>3 DEF Allowed
  <1>2. CASE m \notin {"Register", "Heartbeat"}
    BY <1>2 DEF Handed
  <1> QED
    BY <1>1, <1>2

\* The handler's decision on a request that arrived.
LEMMA ProceedStep ==
    ASSUME CallsInv, NEW c \in Calls, call[c].at = "handling", Sound(c),
           NEW a \in {"returned", "streaming"}, Proceed(c, sent[c].body, a),
           a = "streaming" => Desc(c).type = "stream",
           UNCHANGED <<up, sent, answer>>
    PROVE  CallsInv'
  <1> DEFINE r == sent[c].body
             good == validateAll(Checks(Method(c), r))
  <1>2. CallInv(c) /\ ContentInv(c) /\ AnswerInv(c) /\ sent'[c] = sent[c] /\ answer'[c] = answer[c]
    BY DEF CallsInv
  <1>3. /\ sent[c] \in Offers[c] /\ Untouched(c) /\ Admitted(c)
        /\ validateBearerToken(sent[c].tokens) = "OK"
    BY <1>2 DEF CallInv, Broken, Entered
  <1>4. Verdict(c) = IF good THEN "OK" ELSE "InvalidArgument"
    BY <1>3, VerdictOf DEF Admitted, Sound
  <1>0. /\ Desc(c).type = "stream" => Method(c) = "Heartbeat"
        /\ Deserved(c) = Verdict(c)
    BY <1>3, OfferKnown, NoLater DEF Admitted, Untouched
  <1>5. AnswerInv(c)'
    BY <1>2, AnswerStays
  <1>6. Response(Method(c), r) # Nil /\ DOMAIN r = DOMAIN Schema[Desc(c).req]
    BY <1>3, ResponseArrives, RequestArrives DEF Admitted, Sound
  <1>9. good => Handed(Method(c), r) = Nil \/ Allowed(Method(c), Handed(Method(c), r))
    <2>1. /\ Method(c) \in Methods /\ Request(ServiceDesc[Method(c)].req, r)
      BY <1>3, OfferKnown DEF Admitted, Sound
    <2>2. good => Legal(Method(c), r)
      BY <2>1, ValidIsLegal
    <2> QED
      BY <2>2, HandedAllowed
  <1>7. CASE good
    <2>1. Becomes(c, a, r, "OK", Response(Method(c), r), Handed(Method(c), r), call[c].last)
      BY <1>7, PutProceed
    <2>2. /\ OneCall(c)
          /\ call'[c].at = a /\ call'[c].req = r /\ call'[c].code = "OK"
          /\ call'[c].resp = Response(Method(c), r) /\ call'[c].handed = Handed(Method(c), r)
          /\ call'[c].last = Nil
          /\ call'[c] = [at |-> call'[c].at, req |-> call'[c].req, code |-> call'[c].code,
                         resp |-> call'[c].resp, handed |-> call'[c].handed,
                         last |-> call'[c].last]
      BY <1>3, <2>1, Fields DEF Untouched
    <2>3. CallInv(c)'
      BY <1>0, <1>2, <1>3, <1>4, <1>7, <2>2, SentStays, DeservedStays
         DEF CallInv, Entered, CallAts, Admitted, Untouched
    <2>4. ContentInv(c)'
      BY <1>2, <1>3, <1>4, <1>6, <1>7, <1>9, <2>2, SentStays, DeservedStays, NoLater
         DEF ContentInv, Admitted, Untouched
    <2> QED
      BY <1>5, <2>2, <2>3, <2>4, OneCallEnough DEF CallsInv
  <1>8. CASE ~good
    <2>1. Becomes(c, "returned", r, "InvalidArgument", call[c].resp, call[c].handed, call[c].last)
      BY <1>8, PutProceed
    <2>2. /\ OneCall(c)
          /\ call'[c].at = "returned" /\ call'[c].req = r /\ call'[c].code = "InvalidArgument"
          /\ call'[c].resp = Nil /\ call'[c].handed = Nil /\ call'[c].last = Nil
          /\ call'[c] = [at |-> call'[c].at, req |-> call'[c].req, code |-> call'[c].code,
                         resp |-> call'[c].resp, handed |-> call'[c].handed,
                         last |-> call'[c].last]
      BY <1>3, <2>1, Fields DEF Untouched
    <2>3. CallInv(c)'
      BY <1>2, <1>3, <1>4, <1>8, <2>2, SentStays, DeservedStays, NoLater
         DEF CallInv, Broken, Entered, CallAts, Admitted
    <2>4. ContentInv(c)'
      BY <1>2, <1>3, <1>6, <2>2, SentStays DEF ContentInv, Admitted
    <2> QED
      BY <1>5, <2>2, <2>3, <2>4, OneCallEnough DEF CallsInv
  <1> QED
    BY <1>7, <1>8

LEMMA HandleUnaryStep ==
    ASSUME CallsInv, NEW c \in Calls, HandleUnary(c)
    PROVE  CallsInv'
  <1>1. /\ call[c].at = "handling" /\ Desc(c).type = "unary"
        /\ Proceed(c, call[c].req, "returned") /\ UNCHANGED <<up, sent, answer>>
    BY DEF HandleUnary
  <1>2. call[c].req = sent[c].body /\ Sound(c)
    BY <1>1 DEF CallsInv, CallInv, Entered, Admitted
  <1>3. Proceed(c, sent[c].body, "returned")
    BY <1>1, <1>2
  <1> QED
    BY <1>1, <1>2, <1>3, ProceedStep

\* A call that a step does not touch at all.
LEMMA NothingStep ==
    ASSUME CallsInv, up' \in BOOLEAN, UNCHANGED <<sent, call, answer>>
    PROVE  CallsInv'
  <1>1. ASSUME NEW c \in Calls PROVE CallInv(c)' /\ ContentInv(c)' /\ AnswerInv(c)'
    BY OthersStay DEF CallsInv
  <1> QED
    BY <1>1 DEF CallsInv

LEMMA RecvFirstStep ==
    ASSUME CallsInv, NEW c \in Calls, RecvFirst(c)
    PROVE  CallsInv'
  <1>1. call[c].at = "handling" /\ Desc(c).type = "stream" /\ UNCHANGED <<up, sent, answer>>
    BY DEF RecvFirst
  <1>2. CallInv(c) /\ ContentInv(c) /\ AnswerInv(c) /\ sent'[c] = sent[c] /\ answer'[c] = answer[c]
    BY <1>1 DEF CallsInv
  <1>3. /\ sent[c] \in Offers[c] /\ Untouched(c) /\ Admitted(c) /\ call[c].req = Nil
        /\ validateBearerToken(sent[c].tokens) = "OK"
    BY <1>1, <1>2 DEF CallInv, Broken, Entered
  <1>4. AnswerInv(c)'
    BY <1>1, <1>2, AnswerStays
  <1>5. CASE sent[c].body = Nil
    <2>1. Becomes(c, "returned", call[c].req, call[c].code, call[c].resp, call[c].handed,
                  call[c].last)
      BY <1>5, PutAt DEF RecvFirst
    <2>2. Verdict(c) = "OK" /\ Deserved(c) = "OK"
      BY <1>1, <1>3, <1>5, VerdictOf, NilAssumption, NoLater DEF Admitted, Untouched
    <2>3. /\ OneCall(c)
          /\ call'[c].at = "returned" /\ call'[c].req = Nil /\ call'[c].code = "OK"
          /\ call'[c].resp = Nil /\ call'[c].handed = Nil /\ call'[c].last = Nil
          /\ call'[c] = [at |-> call'[c].at, req |-> call'[c].req, code |-> call'[c].code,
                         resp |-> call'[c].resp, handed |-> call'[c].handed,
                         last |-> call'[c].last]
      BY <1>1, <1>3, <2>1, Fields DEF Untouched
    <2>4. CallInv(c)'
      BY <1>1, <1>2, <1>3, <2>2, <2>3, SentStays, DeservedStays
         DEF CallInv, Entered, CallAts, Admitted, Untouched
    <2>5. ContentInv(c)'
      BY <1>2, <1>5, <2>3 DEF ContentInv
    <2> QED
      BY <1>1, <1>4, <2>3, <2>4, <2>5, OneCallEnough DEF CallsInv
  <1>6. CASE sent[c].body = Malformed
    <2>1. Becomes(c, "returned", call[c].req, "Internal", call[c].resp, call[c].handed,
                  call[c].last)
      BY <1>6, PutAtCode, NilAssumption DEF RecvFirst
    <2>2. Verdict(c) = "Internal" /\ Deserved(c) = "Internal"
      BY <1>1, <1>3, <1>6, VerdictOf, NoLater DEF Admitted, Untouched
    <2>3. /\ OneCall(c)
          /\ call'[c].at = "returned" /\ call'[c].req = Nil /\ call'[c].code = "Internal"
          /\ call'[c].resp = Nil /\ call'[c].handed = Nil /\ call'[c].last = Nil
          /\ call'[c] = [at |-> call'[c].at, req |-> call'[c].req, code |-> call'[c].code,
                         resp |-> call'[c].resp, handed |-> call'[c].handed,
                         last |-> call'[c].last]
      BY <1>1, <1>3, <2>1, Fields DEF Untouched
    <2>4. CallInv(c)'
      BY <1>1, <1>2, <1>3, <2>2, <2>3, SentStays, DeservedStays, NoLater
         DEF CallInv, Broken, Entered, CallAts, Admitted
    <2>5. ContentInv(c)'
      BY <2>3 DEF ContentInv
    <2> QED
      BY <1>1, <1>4, <2>3, <2>4, <2>5, OneCallEnough DEF CallsInv
  <1>7. CASE Sound(c)
    <2>1. Decode(Desc(c).req, Wire(c)) = sent[c].body
      BY <1>3, <1>7, RequestArrives DEF Sound, Admitted
    <2>2. Proceed(c, sent[c].body, "streaming")
      BY <1>7, <2>1 DEF RecvFirst, Sound
    <2> QED
      BY <1>1, <1>7, <2>2, ProceedStep
  <1> QED
    BY <1>5, <1>6, <1>7 DEF Sound

\* What the loop makes of a further message.
LEMMA PutLater ==
    ASSUME CallsInv, NEW c \in Calls, NEW m \in Later, RecvLater(c, m)
    PROVE  IF m = Malformed
           THEN Becomes(c, "returned", call[c].req, "Internal", call[c].resp, call[c].handed, m)
           ELSE IF validateAll(Checks("Heartbeat", m))
           THEN Becomes(c, "streaming", m, call[c].code, call[c].resp, Handed("Heartbeat", m), m)
           ELSE Becomes(c, "returned", m, "InvalidArgument", call[c].resp, call[c].handed, m)
  <1> DEFINE k == call[c]
             arrived == Decode("HeartbeatRequest", Encode("HeartbeatRequest", m))
             next == IF m = Malformed THEN [k EXCEPT !.at = "returned", !.code = "Internal"]
                                      ELSE ProceedLater(c, arrived)
  <1>1. k = [at |-> k.at, req |-> k.req, code |-> k.code, resp |-> k.resp,
             handed |-> k.handed, last |-> k.last] /\ k.at = "streaming"
    BY DEF CallsInv, CallInv, RecvLater
  <1>2. call = [d \in Calls |-> call[d]]
    BY DEF CallsInv
  <1>3. call' = [call EXCEPT ![c] = [next EXCEPT !.last = m]]
    BY DEF RecvLater
  <1>4. m # Malformed => arrived = m
    BY LaterArrives
  <1> HIDE DEF next, arrived
  <1>5. /\ call' = [d \in Calls |-> call'[d]]
        /\ call'[c] = [next EXCEPT !.last = m]
        /\ \A d \in Calls \ {c} : call'[d] = call[d]
    BY <1>2, <1>3
  <1>6. CASE m = Malformed
    <2>1. next = [k EXCEPT !.at = "returned", !.code = "Internal"]
      BY <1>6 DEF next
    <2> HIDE DEF k
    <2>2. next = [at |-> "returned", req |-> k.req, code |-> "Internal", resp |-> k.resp,
                  handed |-> k.handed, last |-> k.last]
      BY <1>1, <2>1
    <2>3. call'[c] = [at |-> "returned", req |-> k.req, code |-> "Internal", resp |-> k.resp,
                      handed |-> k.handed, last |-> m]
      BY <1>5, <2>2
    <2> QED
      BY <1>5, <1>6, <2>3 DEF Becomes, k
  <1>7. CASE m # Malformed /\ validateAll(Checks("Heartbeat", m))
    <2> DEFINE h == Handed("Heartbeat", m)
    <2>1. next = [k EXCEPT !.req = m, !.handed = h]
      BY <1>4, <1>7 DEF next, ProceedLater
    <2> HIDE DEF k, h
    <2>2. next = [at |-> "streaming", req |-> m, code |-> k.code, resp |-> k.resp,
                  handed |-> h, last |-> k.last]
      BY <1>1, <2>1
    <2>3. call'[c] = [at |-> "streaming", req |-> m, code |-> k.code, resp |-> k.resp,
                      handed |-> h, last |-> m]
      BY <1>5, <2>2
    <2> QED
      BY <1>5, <1>7, <2>3 DEF Becomes, k, h
  <1>8. CASE m # Malformed /\ ~validateAll(Checks("Heartbeat", m))
    <2>1. next = [k EXCEPT !.at = "returned", !.req = m, !.code = "InvalidArgument"]
      BY <1>4, <1>8 DEF next, ProceedLater
    <2> HIDE DEF k
    <2>2. next = [at |-> "returned", req |-> m, code |-> "InvalidArgument", resp |-> k.resp,
                  handed |-> k.handed, last |-> k.last]
      BY <1>1, <2>1
    <2>3. call'[c] = [at |-> "returned", req |-> m, code |-> "InvalidArgument",
                      resp |-> k.resp, handed |-> k.handed, last |-> m]
      BY <1>5, <2>2
    <2> QED
      BY <1>5, <1>8, <2>3 DEF Becomes, k
  <1> QED
    BY <1>6, <1>7, <1>8

LEMMA RecvLaterStep ==
    ASSUME CallsInv, NEW c \in Calls, NEW m \in Later, RecvLater(c, m)
    PROVE  CallsInv'
  <1>1. call[c].at = "streaming" /\ UNCHANGED <<up, sent, answer>>
    BY DEF RecvLater
  <1>2. CallInv(c) /\ ContentInv(c) /\ AnswerInv(c) /\ sent'[c] = sent[c] /\ answer'[c] = answer[c]
    BY <1>1 DEF CallsInv
  <1>3. /\ sent[c] \in Offers[c] /\ Admitted(c) /\ call[c].code = "OK"
        /\ Method(c) = "Heartbeat" /\ Verdict(c) = "OK"
    BY <1>1, <1>2 DEF CallInv, Entered
  <1>4. AnswerInv(c)'
    BY <1>1, <1>2, AnswerStays
  <1>5. m # Nil /\ (m # Malformed => DOMAIN m = DOMAIN Schema[Desc(c).req])
    <2>1. Desc(c).req = "HeartbeatRequest"
      BY <1>3 DEF Desc, ServiceDesc
    <2> QED
      BY <2>1, LaterArrives
  <1>6. ASSUME call'[c].last = m
        PROVE  Deserved(c)' = Judged("Heartbeat", m) /\ Latest(c)' = m
    BY <1>2, <1>3, <1>5, <1>6, SentStays DEF Deserved, Latest
  <1>7. m # Malformed => (validateAll(Checks("Heartbeat", m)) <=> Legal("Heartbeat", m))
    BY LaterArrives
  <1>8. Judged("Heartbeat", m) = IF m = Malformed THEN "Internal"
                                 ELSE IF validateAll(Checks("Heartbeat", m)) THEN "OK"
                                 ELSE "InvalidArgument"
    BY <1>5, <1>7 DEF Judged
  <1>9. CASE m # Malformed /\ validateAll(Checks("Heartbeat", m))
    <2>1. Becomes(c, "streaming", m, call[c].code, call[c].resp, Handed("Heartbeat", m), m)
      BY <1>9, PutLater
    <2>2. /\ OneCall(c)
          /\ call'[c].at = "streaming" /\ call'[c].req = m /\ call'[c].code = "OK"
          /\ call'[c].resp = call[c].resp /\ call'[c].handed = Handed("Heartbeat", m)
          /\ call'[c].last = m
          /\ call'[c] = [at |-> call'[c].at, req |-> call'[c].req, code |-> call'[c].code,
                         resp |-> call'[c].resp, handed |-> call'[c].handed,
                         last |-> call'[c].last]
      BY <1>1, <1>3, <2>1, Fields
    <2>3. Handed("Heartbeat", m) = Nil \/ Allowed("Heartbeat", Handed("Heartbeat", m))
      BY <1>7, <1>9, HandedAllowed
    <2>4. CallInv(c)'
      BY <1>2, <1>3, <1>6, <1>8, <1>9, <2>2, SentStays DEF CallInv, Entered, CallAts, Admitted
    <2>5. ContentInv(c)'
      BY <1>1, <1>2, <1>3, <1>5, <1>6, <1>9, <2>2, <2>3, SentStays
         DEF ContentInv, Admitted
    <2> QED
      BY <1>1, <1>4, <2>2, <2>4, <2>5, OneCallEnough DEF CallsInv
  <1>10. CASE m = Malformed \/ ~validateAll(Checks("Heartbeat", m))
    <2> DEFINE req == IF m = Malformed THEN call[c].req ELSE m
    <2>1. Becomes(c, "returned", req, Judged("Heartbeat", m), call[c].resp, call[c].handed, m)
      BY <1>8, <1>10, PutLater
    <2> HIDE DEF req
    <2>2. /\ OneCall(c)
          /\ call'[c].at = "returned" /\ call'[c].req = req
          /\ call'[c].code = Judged("Heartbeat", m)
          /\ call'[c].resp = call[c].resp /\ call'[c].handed = call[c].handed
          /\ call'[c].last = m
          /\ call'[c] = [at |-> call'[c].at, req |-> call'[c].req, code |-> call'[c].code,
                         resp |-> call'[c].resp, handed |-> call'[c].handed,
                         last |-> call'[c].last]
      BY <1>1, <1>3, <2>1, Fields
    <2>3. Judged("Heartbeat", m) # "OK"
      BY <1>8, <1>10
    <2>4. CallInv(c)'
      BY <1>2, <1>3, <1>6, <2>2, <2>3, SentStays DEF CallInv, Entered, CallAts, Admitted
    <2>5. ContentInv(c)'
      BY <1>1, <1>2, <1>3, <1>5, <1>6, <2>2, <2>3, SentStays
         DEF ContentInv, Admitted, req
    <2> QED
      BY <1>1, <1>4, <2>2, <2>4, <2>5, OneCallEnough DEF CallsInv
  <1> QED
    BY <1>9, <1>10

LEMMA CloseStreamStep ==
    ASSUME CallsInv, NEW c \in Calls, CloseStream(c)
    PROVE  CallsInv'
  <1>1. call[c].at = "streaming" /\ UNCHANGED <<up, sent, answer>>
    BY DEF CloseStream
  <1>2. CallInv(c) /\ ContentInv(c) /\ AnswerInv(c) /\ sent'[c] = sent[c] /\ answer'[c] = answer[c]
    BY <1>1 DEF CallsInv
  <1>3. sent[c] \in Offers[c] /\ Admitted(c) /\ call[c].code = "OK" /\ Deserved(c) = "OK"
    BY <1>1, <1>2 DEF CallInv, Entered
  <1>4. Becomes(c, "returned", call[c].req, call[c].code, call[c].resp, call[c].handed,
                call[c].last)
    BY PutAt DEF CloseStream
  <1>5. /\ OneCall(c)
        /\ call'[c].at = "returned" /\ call'[c].req = call[c].req /\ call'[c].code = "OK"
        /\ call'[c].resp = call[c].resp /\ call'[c].handed = call[c].handed
        /\ call'[c].last = call[c].last
        /\ call'[c] = [at |-> call'[c].at, req |-> call'[c].req, code |-> call'[c].code,
                       resp |-> call'[c].resp, handed |-> call'[c].handed, last |-> call'[c].last]
    BY <1>1, <1>3, <1>4, Fields
  <1>6. CallInv(c)'
    BY <1>2, <1>3, <1>5, SentStays, DeservedStays, NoLater
       DEF CallInv, Broken, Entered, CallAts, Admitted
  <1>7. ContentInv(c)'
    BY <1>1, <1>2, <1>3, <1>5, SentStays, DeservedStays, NoLater DEF ContentInv
  <1>8. AnswerInv(c)'
    BY <1>1, <1>2, AnswerStays
  <1> QED
    BY <1>1, <1>5, <1>6, <1>7, <1>8, OneCallEnough DEF CallsInv

LEMMA StreamBrokenStep ==
    ASSUME CallsInv, NEW c \in Calls, StreamBroken(c)
    PROVE  CallsInv'
  <1>1. /\ call[c].at \in {"handling", "streaming"} /\ answer[c].code = "Unavailable"
        /\ UNCHANGED <<up, sent, answer>>
    BY DEF StreamBroken
  <1>2. CallInv(c) /\ ContentInv(c) /\ AnswerInv(c) /\ sent'[c] = sent[c] /\ answer'[c] = answer[c]
    BY <1>1 DEF CallsInv
  <1>3. sent[c] \in Offers[c] /\ Admitted(c) /\ Method(c) = "Heartbeat"
    BY <1>1, <1>2, OfferKnown DEF CallInv, Entered, Admitted, StreamBroken
  <1>c. PICK code \in BrokenCodes :
          call' = [call EXCEPT ![c].at = "returned", ![c].code = code]
    BY DEF StreamBroken
  <1>4. Becomes(c, "returned", call[c].req, code, call[c].resp, call[c].handed, call[c].last)
    BY <1>c, PutAtCode
  <1>5. /\ OneCall(c)
        /\ call'[c].at = "returned" /\ call'[c].req = call[c].req /\ call'[c].code \in BrokenCodes
        /\ call'[c].resp = call[c].resp /\ call'[c].handed = call[c].handed
        /\ call'[c].last = call[c].last
        /\ call'[c] = [at |-> call'[c].at, req |-> call'[c].req, code |-> call'[c].code,
                       resp |-> call'[c].resp, handed |-> call'[c].handed, last |-> call'[c].last]
    BY <1>1, <1>4, Fields
  <1>6. CallInv(c)'
    BY <1>1, <1>2, <1>3, <1>5, SentStays, DeservedStays, NoLater
       DEF CallInv, Broken, Entered, CallAts, Admitted
  <1>7. ContentInv(c)'
    BY <1>2, <1>5, SentStays, DeservedStays DEF ContentInv, BrokenCodes
  <1>8. AnswerInv(c)'
    BY <1>1, <1>2, AnswerStays
  <1> QED
    BY <1>1, <1>5, <1>6, <1>7, <1>8, OneCallEnough DEF CallsInv

LEMMA CountStep ==
    ASSUME CallsInv, NEW c \in Calls, Count(c)
    PROVE  CallsInv'
  <1>1. call[c].at = "returned" /\ UNCHANGED <<up, sent, answer>>
    BY DEF Count
  <1>2. CallInv(c) /\ ContentInv(c) /\ AnswerInv(c) /\ sent'[c] = sent[c] /\ answer'[c] = answer[c]
    BY <1>1 DEF CallsInv
  <1>3. /\ sent[c] \in Offers[c]
        /\ call[c].code = Deserved(c) \/ Broken(c)
    BY <1>1, <1>2 DEF CallInv
  <1>4. Becomes(c, "replied", call[c].req, call[c].code, call[c].resp, call[c].handed,
                call[c].last)
    BY PutAt DEF Count
  <1>5. /\ OneCall(c)
        /\ call'[c].at = "replied" /\ call'[c].req = call[c].req /\ call'[c].code = call[c].code
        /\ call'[c].resp = call[c].resp /\ call'[c].handed = call[c].handed
        /\ call'[c].last = call[c].last
        /\ call'[c] = [at |-> call'[c].at, req |-> call'[c].req, code |-> call'[c].code,
                       resp |-> call'[c].resp, handed |-> call'[c].handed, last |-> call'[c].last]
    BY <1>1, <1>4, Fields
  <1>6. CallInv(c)'
    BY <1>2, <1>3, <1>5, SentStays, DeservedStays, NoLater DEF CallInv, Broken, Entered, CallAts
  <1>7. ContentInv(c)'
    BY <1>1, <1>2, <1>5, SentStays, DeservedStays, NoLater DEF ContentInv
  <1>8. AnswerInv(c)'
    BY <1>1, <1>2, AnswerStays
  <1> QED
    BY <1>1, <1>5, <1>6, <1>7, <1>8, OneCallEnough DEF CallsInv

\* The last step of a call: its client learns of it.
LEMMA AnswerStep ==
    ASSUME CallsInv, NEW c \in Calls, NEW a, UNCHANGED <<up, sent, call>>,
           answer' = [answer EXCEPT ![c] = a], answer[c] = NoAnswer,
           call[c].at # "none", AnswerInv(c)'
    PROVE  CallsInv'
  <1>1. OneCall(c)
    BY DEF OneCall, CallsInv
  <1>2. CallInv(c)'
    <2>1. CallInv(c) /\ sent'[c] = sent[c] /\ call'[c] = call[c]
      BY DEF CallsInv
    <2>2. call[c].at \in {"returned", "replied"} => call[c].code = Deserved(c)
      BY <2>1 DEF CallInv, Broken, NoAnswer
    <2> QED
      BY <2>1, <2>2, SentStays, DeservedStays
         DEF CallInv, Untouched, Entered, Admitted
  <1>3. ContentInv(c)'
    BY SentStays, DeservedStays, NoLater DEF CallsInv, ContentInv
  <1> QED
    BY <1>1, <1>2, <1>3, OneCallEnough DEF CallsInv

\* The codes a call can deserve.
LEMMA VerdictsAreCodes ==
    ASSUME NEW c \in Calls
    PROVE  Verdict(c) \in Codes /\ Deserved(c) \in Codes
  <1>1. \A m, body : Judged(m, body) \in Codes
    BY DEF Judged, Codes
  <1>2. Verdict(c) \in Codes
    <2> HIDE DEF Judged
    <2> QED
      BY <1>1 DEF Verdict, Codes
  <1> QED
    BY <1>1, <1>2 DEF Deserved

LEMMA DeliverStep ==
    ASSUME CallsInv, NEW c \in Calls, Deliver(c)
    PROVE  CallsInv'
  <1> DEFINE arrived == Decode(Desc(c).resp, Encode(Desc(c).resp, call[c].resp))
             msg == IF call[c].resp = Nil THEN Nil ELSE arrived
             a == [code |-> call[c].code, msg |-> msg]
  <1>1. /\ call[c].at = "replied" /\ answer[c] = NoAnswer /\ UNCHANGED <<up, sent, call>>
        /\ answer' = [answer EXCEPT ![c] = a]
    BY DEF Deliver
  <1>2. CallInv(c) /\ ContentInv(c)
    BY DEF CallsInv
  <1>3. sent[c] \in Offers[c] /\ call[c].code = Deserved(c)
    BY <1>1, <1>2 DEF CallInv, Broken, NoAnswer
  <1>4. call[c].resp # Nil => arrived = call[c].resp
    BY <1>2, <1>3, ResponseArrives DEF ContentInv, Sound
  <1>5. msg = call[c].resp
    BY <1>4
  <1> HIDE DEF arrived, msg
  <1>6. answer'[c] = a
    BY <1>1 DEF CallsInv
  <1>7. answer'[c].code = call[c].code /\ answer'[c].msg = call[c].resp
        /\ answer'[c] = [code |-> answer'[c].code, msg |-> answer'[c].msg]
    BY <1>5, <1>6
  <1>8. call[c].code \in Codes /\ call[c].code # "none"
    BY <1>3, VerdictsAreCodes DEF Codes
  <1>9. call[c].resp # Nil /\ Method(c) # "Heartbeat" => call[c].code = "OK"
    BY <1>2, <1>3, NoLater DEF ContentInv, CallInv
  <1> HIDE DEF a
  <1>10. AnswerInv(c)'
    BY <1>1, <1>7, <1>8, <1>9, SentStays DEF AnswerInv
  <1> QED
    BY <1>1, <1>10, AnswerStep

LEMMA LoseStep ==
    ASSUME CallsInv, NEW c \in Calls, Lose(c)
    PROVE  CallsInv'
  <1> DEFINE a == [code |-> "Unavailable", msg |-> Nil]
  <1>1. /\ call[c].at # "none" /\ answer[c] = NoAnswer /\ UNCHANGED <<up, sent, call>>
        /\ answer' = [answer EXCEPT ![c] = a]
    BY DEF Lose, Waiting
  <1>2. answer'[c] = a
    BY <1>1 DEF CallsInv
  <1>3. AnswerInv(c)'
    BY <1>2 DEF AnswerInv, Codes
  <1> HIDE DEF a
  <1> QED
    BY <1>1, <1>3, AnswerStep

LEMMA CallsInvKept == CallsInv /\ [RpcNext]_rpcVars => CallsInv'
  <1> SUFFICES ASSUME CallsInv, [RpcNext]_rpcVars PROVE CallsInv'
    OBVIOUS
  <1>1. ASSUME NEW c \in Calls, NEW o \in Offers[c], Invoke(c, o) PROVE CallsInv'
    BY <1>1, InvokeStep
  <1>2. ASSUME NEW c \in Calls, ServerStep(c) PROVE CallsInv'
    <2>1. CASE Panic(c)
      BY <2>1, NothingStep DEF Panic
    <2> QED
      BY <1>2, <2>1, RejectUnknownStep, RejectMalformedStep, EnterUnaryStep, EnterStreamStep,
         AuthenticateStep, HandleUnaryStep, RecvFirstStep, RecvLaterStep, CloseStreamStep,
         StreamBrokenStep, CountStep, DeliverStep DEF ServerStep
  <1>3. ASSUME NEW c \in Calls, Lose(c) PROVE CallsInv'
    BY <1>3, LoseStep
  <1>4. CASE UNCHANGED rpcVars
    BY <1>4, NothingStep DEF rpcVars, CallsInv
  <1> QED
    BY <1>1, <1>2, <1>3, <1>4 DEF RpcNext, Rest

LEMMA CallsInvInit == RpcInit => CallsInv
  <1> SUFFICES ASSUME RpcInit PROVE CallsInv
    OBVIOUS
  <1>1. ASSUME NEW c \in Calls PROVE CallInv(c) /\ ContentInv(c) /\ AnswerInv(c)
    <2>1. sent[c] = NotSent /\ call[c] = NoCall /\ answer[c] = NoAnswer
      BY DEF RpcInit
    <2>2. CallInv(c)
      BY <2>1 DEF CallInv, NoCall, Entered, CallAts
    <2>3. ContentInv(c)
      BY <2>1 DEF ContentInv, NoCall
    <2>4. AnswerInv(c)
      BY <2>1 DEF AnswerInv, NoAnswer
    <2> QED
      BY <2>2, <2>3, <2>4
  <1> QED
    BY <1>1 DEF CallsInv, RpcInit

-----------------------------------------------------------------------------
(* The counters.                                                           *)

\* The label a call is counted under.
Label(c) == <<sent[c].path, Desc(c).type, call[c].code>>

Under(k) == {c \in CountedCalls : k = Label(c)}

StreamsInside ==
    {c \in Calls : /\ call[c].at \in {"entered", "handling", "streaming", "returned"}
                   /\ Method(c) = "Heartbeat"}

CountInv ==
    /\ requests = [k \in DOMAIN requests |-> requests[k]]
    /\ \A k \in DOMAIN requests : /\ requests[k] \in Nat \ {0}
                                  /\ requests[k] = Cardinality(Under(k))
    /\ \A c \in CountedCalls : Label(c) \in DOMAIN requests
    /\ \A p \in knownMethods : p \in knownServiceMethods \/ Served(p)
    /\ activeStreams = Cardinality(StreamsInside)

\* A step of call c that no counter sees.
Quiet(c) ==
    /\ \A d \in Calls \ {c} : sent'[d] = sent[d] /\ call'[d] = call[d]
    /\ c \notin CountedCalls /\ c \notin CountedCalls'
    /\ c \in StreamsInside <=> c \in StreamsInside'
    /\ UNCHANGED <<knownMethods, requests, activeStreams>>

\* A call that a step leaves alone is counted as before.
LEMMA CountedStays ==
    ASSUME NEW c \in Calls, sent'[c] = sent[c], call'[c] = call[c]
    PROVE  /\ c \in CountedCalls <=> c \in CountedCalls'
           /\ Label(c)' = Label(c)
           /\ c \in StreamsInside <=> c \in StreamsInside'
  BY SentStays DEF CountedCalls, Label, StreamsInside

LEMMA FiniteUnder ==
    /\ \A k : IsFiniteSet(Under(k)) /\ Cardinality(Under(k)) \in Nat
    /\ IsFiniteSet(StreamsInside) /\ Cardinality(StreamsInside) \in 0..Cardinality(Calls)
  <1>1. IsFiniteSet(Calls) /\ Cardinality(Calls) \in Nat
    BY OffersAssumption, FS_CardinalityType
  <1>2. StreamsInside \subseteq Calls
    BY DEF StreamsInside
  <1>3. ASSUME NEW k PROVE IsFiniteSet(Under(k)) /\ Cardinality(Under(k)) \in Nat
    <2>1. Under(k) \subseteq Calls
      BY DEF Under, CountedCalls
    <2> QED
      BY <1>1, <2>1, FS_Subset, FS_CardinalityType
  <1>4. IsFiniteSet(StreamsInside) /\ Cardinality(StreamsInside) \in Nat
        /\ Cardinality(StreamsInside) <= Cardinality(Calls)
    BY <1>1, <1>2, FS_Subset, FS_CardinalityType
  <1>5. Cardinality(StreamsInside) \in 0..Cardinality(Calls)
    BY <1>1, <1>4
  <1> QED
    BY <1>3, <1>4, <1>5

LEMMA QuietKeeps ==
    ASSUME CountInv, NEW c \in Calls, Quiet(c)
    PROVE  CountInv'
  <1>1. ASSUME NEW d \in Calls, d # c
        PROVE  /\ d \in CountedCalls <=> d \in CountedCalls'
               /\ Label(d)' = Label(d)
               /\ d \in StreamsInside <=> d \in StreamsInside'
    BY <1>1, CountedStays DEF Quiet
  <1>2. CountedCalls' = CountedCalls
    <2>1. CountedCalls \subseteq Calls /\ CountedCalls' \subseteq Calls
      BY DEF CountedCalls
    <2> QED
      BY <1>1, <2>1 DEF Quiet
  <1>3. StreamsInside' = StreamsInside
    <2>1. StreamsInside \subseteq Calls /\ StreamsInside' \subseteq Calls
      BY DEF StreamsInside
    <2> QED
      BY <1>1, <2>1 DEF Quiet
  <1>4. ASSUME NEW d \in CountedCalls PROVE Label(d)' = Label(d)
    <2>1. d \in Calls /\ d # c
      BY DEF CountedCalls, Quiet
    <2> QED
      BY <1>1, <2>1
  <1>5. ASSUME NEW k PROVE Under(k)' = Under(k)
    BY <1>2, <1>4 DEF Under
  <1>6. UNCHANGED <<knownMethods, requests, activeStreams>>
    BY DEF Quiet
  <1>7. /\ requests' = [k \in DOMAIN requests' |-> requests'[k]]
        /\ \A k \in DOMAIN requests' : /\ requests'[k] \in Nat \ {0}
                                       /\ requests'[k] = Cardinality(Under(k)')
    BY <1>5, <1>6 DEF CountInv
  <1>8. \A d \in CountedCalls' : Label(d)' \in DOMAIN requests'
    BY <1>2, <1>4, <1>6 DEF CountInv
  <1>9. \A p \in knownMethods' : p \in knownServiceMethods \/ Served(p)
    BY <1>6 DEF CountInv
  <1>10. activeStreams' = Cardinality(StreamsInside')
    BY <1>3, <1>6 DEF CountInv
  <1> QED
    BY <1>7, <1>8, <1>9, <1>10 DEF CountInv

\* Where a call was and is, for the steps inside the server.
LEMMA InsideQuiet ==
    ASSUME NEW c \in Calls, Entered(c), Entered(c)', sent' = sent,
           \A d \in Calls \ {c} : call'[d] = call[d],
           UNCHANGED <<knownMethods, requests, activeStreams>>
    PROVE  Quiet(c)
  BY SentStays DEF Quiet, Entered, CountedCalls, StreamsInside

LEMMA QuietSteps ==
    ASSUME CallsInv, NEW c \in Calls,
           \/ \E o \in Offers[c] : Invoke(c, o)
           \/ RejectUnknown(c) \/ RejectMalformed(c) \/ EnterUnary(c)
           \/ Authenticate(c) \/ HandleUnary(c) \/ RecvFirst(c)
           \/ (\E m \in Later : RecvLater(c, m)) \/ CloseStream(c) \/ StreamBroken(c)
    PROVE  Quiet(c)
  <1>1. CASE \E o \in Offers[c] : Invoke(c, o)
    <2>1. PICK o \in Offers[c] : Invoke(c, o)
      BY <1>1
    <2>2. Becomes(c, "arrived", call[c].req, call[c].code, call[c].resp, call[c].handed,
                  call[c].last)
      BY <2>1, PutAt DEF Invoke
    <2>3. /\ call[c].at = "none" /\ call'[c].at = "arrived"
          /\ \A d \in Calls \ {c} : sent'[d] = sent[d] /\ call'[d] = call[d]
          /\ UNCHANGED <<knownMethods, requests, activeStreams>>
      BY <2>1, <2>2 DEF Invoke, Becomes, CallsInv
    <2> QED
      BY <2>3 DEF Quiet, CountedCalls, StreamsInside
  <1>2. CASE RejectUnknown(c)
    <2>1. Becomes(c, "replied", call[c].req, "Unimplemented", call[c].resp, call[c].handed,
                  call[c].last)
      BY <1>2, PutAtCode DEF RejectUnknown
    <2>2. /\ call[c].at = "arrived" /\ ~Served(sent[c].path)
          /\ UNCHANGED <<sent, knownMethods, requests, activeStreams>>
      BY <1>2 DEF RejectUnknown
    <2>3. call'[c].at = "replied" /\ \A d \in Calls \ {c} : call'[d] = call[d]
      BY <2>1 DEF Becomes
    <2> QED
      BY <2>2, <2>3 DEF Quiet, CountedCalls, StreamsInside
  <1>3. CASE RejectMalformed(c)
    <2>1. Becomes(c, "replied", call[c].req, "Internal", call[c].resp, call[c].handed,
                  call[c].last)
      BY <1>3, PutAtCode DEF RejectMalformed
    <2>2. /\ call[c].at = "arrived" /\ Desc(c).type = "unary" /\ sent[c].body = Malformed
          /\ UNCHANGED <<sent, knownMethods, requests, activeStreams>>
      BY <1>3 DEF RejectMalformed
    <2>3. call'[c].at = "replied" /\ \A d \in Calls \ {c} : call'[d] = call[d]
      BY <2>1 DEF Becomes
    <2> QED
      BY <2>2, <2>3, SentStays DEF Quiet, CountedCalls, StreamsInside
  <1>4. CASE EnterUnary(c)
    <2>1. \E r : Becomes(c, "entered", r, call[c].code, call[c].resp, call[c].handed,
                         call[c].last)
      BY <1>4, PutAtReq DEF EnterUnary
    <2>2. /\ call[c].at = "arrived" /\ Served(sent[c].path) /\ Desc(c).type = "unary"
          /\ UNCHANGED <<sent, knownMethods, requests, activeStreams>>
      BY <1>4 DEF EnterUnary
    <2>3. call'[c].at = "entered" /\ \A d \in Calls \ {c} : call'[d] = call[d]
      BY <2>1 DEF Becomes
    <2>4. Method(c) # "Heartbeat"
      <3>1. sent[c] \in Offers[c]
        BY <2>2 DEF CallsInv, CallInv
      <3> QED
        BY <2>2, <3>1, OfferKnown
    <2> QED
      BY <2>2, <2>3, <2>4, SentStays DEF Quiet, CountedCalls, StreamsInside
  <1>5. CASE Authenticate(c)
    <2>1. UNCHANGED <<sent, knownMethods, requests, activeStreams>> /\ Entered(c)
      BY <1>5 DEF Authenticate, Entered
    <2>2. \E a \in {"handling", "returned"} :
            Becomes(c, a, call[c].req, validateBearerToken(sent[c].tokens),
                    call[c].resp, call[c].handed, call[c].last)
      BY <1>5, PutAtCode DEF Authenticate
    <2>3. Entered(c)' /\ \A d \in Calls \ {c} : call'[d] = call[d]
      BY <2>2 DEF Becomes, Entered
    <2> QED
      BY <2>1, <2>3, InsideQuiet
  <1>6. ASSUME NEW r, NEW a \in {"streaming", "returned"}, Proceed(c, r, a),
               Entered(c), UNCHANGED <<sent, knownMethods, requests, activeStreams>>
        PROVE  Quiet(c)
    <2>1. \E b \in {"streaming", "returned"} : \E code, resp, handed :
            Becomes(c, b, r, code, resp, handed, call[c].last)
      BY <1>6, PutProceed
    <2>2. Entered(c)' /\ \A d \in Calls \ {c} : call'[d] = call[d]
      BY <2>1 DEF Becomes, Entered
    <2> QED
      BY <1>6, <2>2, InsideQuiet
  <1>7. CASE HandleUnary(c)
    <2>1. /\ Proceed(c, call[c].req, "returned") /\ Entered(c)
          /\ UNCHANGED <<sent, knownMethods, requests, activeStreams>>
      BY <1>7 DEF HandleUnary, Entered
    <2> QED
      BY <1>6, <2>1
  <1>8. CASE RecvFirst(c)
    <2>1. UNCHANGED <<sent, knownMethods, requests, activeStreams>> /\ Entered(c)
      BY <1>8 DEF RecvFirst, Entered
    <2>2. CASE Sound(c)
      BY <1>6, <1>8, <2>1, <2>2 DEF RecvFirst, Sound
    <2>3. CASE ~Sound(c)
      <3>1. \/ call' = [call EXCEPT ![c].at = "returned"]
            \/ call' = [call EXCEPT ![c].at = "returned", ![c].code = "Internal"]
        BY <1>8, <2>3 DEF RecvFirst, Sound
      <3>2. \E code : Becomes(c, "returned", call[c].req, code, call[c].resp, call[c].handed,
                              call[c].last)
        BY <3>1, PutAt, PutAtCode
      <3>3. Entered(c)' /\ \A d \in Calls \ {c} : call'[d] = call[d]
        BY <3>2 DEF Becomes, Entered
      <3> QED
        BY <2>1, <3>3, InsideQuiet
    <2> QED
      BY <2>2, <2>3
  <1>9. CASE CloseStream(c)
    <2>1. UNCHANGED <<sent, knownMethods, requests, activeStreams>> /\ Entered(c)
      BY <1>9 DEF CloseStream, Entered
    <2>2. Becomes(c, "returned", call[c].req, call[c].code, call[c].resp, call[c].handed,
                  call[c].last)
      BY <1>9, PutAt DEF CloseStream
    <2>3. Entered(c)' /\ \A d \in Calls \ {c} : call'[d] = call[d]
      BY <2>2 DEF Becomes, Entered
    <2> QED
      BY <2>1, <2>3, InsideQuiet
  <1>10. CASE StreamBroken(c)
    <2>1. UNCHANGED <<sent, knownMethods, requests, activeStreams>> /\ Entered(c)
      BY <1>10 DEF StreamBroken, Entered
    <2>2. \E code : Becomes(c, "returned", call[c].req, code, call[c].resp, call[c].handed,
                           call[c].last)
      BY <1>10, PutAtCode DEF StreamBroken
    <2>3. Entered(c)' /\ \A d \in Calls \ {c} : call'[d] = call[d]
      BY <2>2 DEF Becomes, Entered
    <2> QED
      BY <2>1, <2>3, InsideQuiet
  <1>11. ASSUME NEW m \in Later, RecvLater(c, m) PROVE Quiet(c)
    <2>1. UNCHANGED <<sent, knownMethods, requests, activeStreams>> /\ Entered(c)
      BY <1>11 DEF RecvLater, Entered
    <2>2. \E b \in {"streaming", "returned"} : \E req, code, resp, handed :
            Becomes(c, b, req, code, resp, handed, m)
      BY <1>11, PutLater
    <2>3. Entered(c)' /\ \A d \in Calls \ {c} : call'[d] = call[d]
      BY <2>2 DEF Becomes, Entered
    <2> QED
      BY <2>1, <2>3, InsideQuiet
  <1> QED
    BY <1>1, <1>2, <1>3, <1>4, <1>5, <1>7, <1>8, <1>9, <1>10, <1>11

\* No call moves.
LEMMA StillKeeps ==
    ASSUME CountInv, UNCHANGED <<sent, call, knownMethods, requests, activeStreams>>
    PROVE  CountInv'
  <1>1. /\ CountedCalls' = CountedCalls /\ StreamsInside' = StreamsInside
        /\ \A c \in Calls : Label(c)' = Label(c)
    BY DEF CountedCalls, StreamsInside, Label, Desc, Method
  <1>2. CountedCalls \subseteq Calls
    BY DEF CountedCalls
  <1>3. ASSUME NEW k PROVE Under(k)' = Under(k)
    BY <1>1, <1>2 DEF Under
  <1>4. /\ requests' = [k \in DOMAIN requests' |-> requests'[k]]
        /\ \A k \in DOMAIN requests' : /\ requests'[k] \in Nat \ {0}
                                       /\ requests'[k] = Cardinality(Under(k)')
    BY <1>3 DEF CountInv
  <1>5. \A d \in CountedCalls' : Label(d)' \in DOMAIN requests'
    BY <1>1, <1>2 DEF CountInv
  <1>6. \A p \in knownMethods' : p \in knownServiceMethods \/ Served(p)
    BY DEF CountInv
  <1>7. activeStreams' = Cardinality(StreamsInside')
    BY <1>1 DEF CountInv
  <1> QED
    BY <1>4, <1>5, <1>6, <1>7 DEF CountInv

\* The cache of labels takes in nothing but served paths.
LEMMA CacheKeeps ==
    ASSUME CountInv, NEW path, Served(path), knownMethods' = Cached(path)
    PROVE  \A p \in knownMethods' : p \in knownServiceMethods \/ Served(p)
  BY DEF CountInv, Cached

LEMMA EnterStreamCounts ==
    ASSUME CallsInv, CountInv, NEW c \in Calls, EnterStream(c)
    PROVE  CountInv'
  <1>1. /\ call[c].at = "arrived" /\ Served(sent[c].path) /\ Desc(c).type = "stream"
        /\ UNCHANGED <<sent, requests>>
        /\ knownMethods' = Cached(sent[c].path)
        /\ activeStreams' = activeStreams + 1
    BY DEF EnterStream
  <1>2. Becomes(c, "entered", call[c].req, call[c].code, call[c].resp, call[c].handed,
                call[c].last)
    BY PutAt DEF EnterStream
  <1>3. call'[c].at = "entered" /\ \A d \in Calls \ {c} : call'[d] = call[d]
    BY <1>2 DEF Becomes
  <1>4. Method(c) = "Heartbeat" /\ Method(c)' = "Heartbeat"
    <2>1. sent[c] \in Offers[c]
      BY <1>1 DEF CallsInv, CallInv
    <2> QED
      BY <1>1, <2>1, OfferKnown, SentStays
  <1>5. ASSUME NEW d \in Calls, d # c
        PROVE  /\ d \in CountedCalls <=> d \in CountedCalls'
               /\ Label(d)' = Label(d)
               /\ d \in StreamsInside <=> d \in StreamsInside'
    BY <1>1, <1>3, <1>5, CountedStays
  <1>6. c \notin CountedCalls /\ c \notin CountedCalls'
    BY <1>1, <1>3 DEF CountedCalls
  <1>7. CountedCalls' = CountedCalls
    <2>1. CountedCalls \subseteq Calls /\ CountedCalls' \subseteq Calls
      BY DEF CountedCalls
    <2> QED
      BY <1>5, <1>6, <2>1
  <1>8. ASSUME NEW d \in CountedCalls PROVE Label(d)' = Label(d)
    <2>1. d \in Calls /\ d # c
      BY <1>6 DEF CountedCalls
    <2> QED
      BY <1>5, <2>1
  <1>9. ASSUME NEW k PROVE Under(k)' = Under(k)
    BY <1>7, <1>8 DEF Under
  <1>10. /\ requests' = [k \in DOMAIN requests' |-> requests'[k]]
         /\ \A k \in DOMAIN requests' : /\ requests'[k] \in Nat \ {0}
                                        /\ requests'[k] = Cardinality(Under(k)')
    BY <1>1, <1>9 DEF CountInv
  <1>11. \A d \in CountedCalls' : Label(d)' \in DOMAIN requests'
    BY <1>1, <1>7, <1>8 DEF CountInv
  <1>12. \A p \in knownMethods' : p \in knownServiceMethods \/ Served(p)
    BY <1>1, CacheKeeps
  <1>13. activeStreams' = Cardinality(StreamsInside')
    <2>1. c \notin StreamsInside /\ c \in StreamsInside'
      BY <1>1, <1>3, <1>4 DEF StreamsInside
    <2>2. StreamsInside \subseteq Calls /\ StreamsInside' \subseteq Calls
      BY DEF StreamsInside
    <2>3. StreamsInside' = StreamsInside \cup {c}
      BY <1>5, <2>1, <2>2
    <2>4. Cardinality(StreamsInside \cup {c}) = Cardinality(StreamsInside) + 1
      BY <2>1, FiniteUnder, FS_AddElement
    <2> QED
      BY <1>1, <2>3, <2>4 DEF CountInv
  <1> QED
    BY <1>10, <1>11, <1>12, <1>13 DEF CountInv

LEMMA CountCounts ==
    ASSUME CallsInv, CountInv, NEW c \in Calls, Count(c)
    PROVE  CountInv'
  <1>0. PICK k0 : k0 = Label(c)
    OBVIOUS
  <1>1. /\ call[c].at = "returned" /\ UNCHANGED sent
        /\ knownMethods' = Cached(sent[c].path)
        /\ activeStreams' = IF Desc(c).type = "stream" THEN activeStreams - 1 ELSE activeStreams
    BY DEF Count
  <1>2. Becomes(c, "replied", call[c].req, call[c].code, call[c].resp, call[c].handed,
                call[c].last)
    BY PutAt DEF Count
  <1>3. /\ call'[c].at = "replied" /\ call'[c].code = call[c].code
        /\ \A d \in Calls \ {c} : call'[d] = call[d]
    BY <1>2 DEF Becomes
  <1>4. /\ sent[c] \in Offers[c] /\ Served(sent[c].path)
        /\ Desc(c).type = "unary" => sent[c].body # Malformed
    BY <1>1 DEF CallsInv, CallInv, Entered, Admitted, Sound
  <1>5. /\ Desc(c).type = IF Method(c) = "Heartbeat" THEN "stream" ELSE "unary"
        /\ Method(c) \in Methods /\ sent[c].path = FullMethodName(Method(c))
    BY <1>4, OfferKnown
  <1>6. requests' = requests (+) SetToBag({k0})
    <2>1. KnownPattern(sent[c].path)
      BY <1>5, PathOf
    <2>2. sanitizeMethod(sent[c].path) = sent[c].path
      BY <2>1 DEF sanitizeMethod
    <2> QED
      BY <1>0, <2>2 DEF Count, Label
  <1>7. ASSUME NEW d \in Calls, d # c
        PROVE  /\ d \in CountedCalls <=> d \in CountedCalls'
               /\ Label(d)' = Label(d)
               /\ d \in StreamsInside <=> d \in StreamsInside'
    BY <1>1, <1>3, <1>7, CountedStays
  <1>8. c \notin CountedCalls /\ c \in CountedCalls' /\ Label(c)' = k0
    BY <1>0, <1>1, <1>3, <1>4, SentStays DEF CountedCalls, Label
  <1>9. CountedCalls' = CountedCalls \cup {c}
    <2>1. CountedCalls \subseteq Calls /\ CountedCalls' \subseteq Calls
      BY DEF CountedCalls
    <2> QED
      BY <1>7, <1>8, <2>1
  <1>10. ASSUME NEW d \in CountedCalls PROVE Label(d)' = Label(d)
    <2>1. d \in Calls /\ d # c
      BY <1>8 DEF CountedCalls
    <2> QED
      BY <1>7, <2>1
  <1>11. ASSUME NEW k, k # k0 PROVE Under(k)' = Under(k)
    BY <1>8, <1>9, <1>10, <1>11 DEF Under
  <1>12. Under(k0)' = Under(k0) \cup {c}
    BY <1>8, <1>9, <1>10 DEF Under
  <1>13. Cardinality(Under(k0)') = Cardinality(Under(k0)) + 1
    <2>1. c \notin Under(k0)
      BY <1>8 DEF Under
    <2>2. Cardinality(Under(k0) \cup {c}) = Cardinality(Under(k0)) + 1
      BY <2>1, FiniteUnder, FS_AddElement
    <2> QED
      BY <1>12, <2>2
  <1>14. /\ DOMAIN requests' = DOMAIN requests \cup {k0}
         /\ requests' = [e \in DOMAIN requests \cup {k0} |-> requests'[e]]
         /\ \A e \in DOMAIN requests : e # k0 => requests'[e] = requests[e] + 0
         /\ requests'[k0] = (IF k0 \in DOMAIN requests THEN requests[k0] ELSE 0) + 1
    BY <1>6 DEF (+), SetToBag
  <1>15. requests'[k0] \in Nat \ {0} /\ requests'[k0] = Cardinality(Under(k0)')
    <2>1. CASE k0 \in DOMAIN requests
      <3>1. requests[k0] \in Nat \ {0} /\ requests[k0] = Cardinality(Under(k0))
        BY <2>1 DEF CountInv
      <3> QED
        BY <1>13, <1>14, <2>1, <3>1
    <2>2. CASE k0 \notin DOMAIN requests
      <3>1. Under(k0) = {}
        BY <2>2 DEF CountInv, Under
      <3>2. Cardinality(Under(k0)) = 0
        BY <3>1, FS_EmptySet, Zenon
      <3> QED
        BY <1>13, <1>14, <2>2, <3>2
    <2> QED
      BY <2>1, <2>2
  <1>16. ASSUME NEW k \in DOMAIN requests, k # k0
         PROVE  requests'[k] \in Nat \ {0} /\ requests'[k] = Cardinality(Under(k)')
    <2>1. requests[k] \in Nat \ {0} /\ requests[k] = Cardinality(Under(k))
      BY DEF CountInv
    <2>2. requests'[k] = requests[k]
      BY <1>14, <1>16, <2>1
    <2>3. Under(k)' = Under(k)
      BY <1>11, <1>16
    <2> QED
      BY <2>1, <2>2, <2>3
  <1>17. /\ requests' = [k \in DOMAIN requests' |-> requests'[k]]
         /\ \A k \in DOMAIN requests' : /\ requests'[k] \in Nat \ {0}
                                        /\ requests'[k] = Cardinality(Under(k)')
    <2>1. requests' = [k \in DOMAIN requests' |-> requests'[k]]
      BY <1>14
    <2>2. ASSUME NEW k \in DOMAIN requests'
          PROVE  requests'[k] \in Nat \ {0} /\ requests'[k] = Cardinality(Under(k)')
      BY <1>14, <1>15, <1>16
    <2> QED
      BY <2>1, <2>2
  <1>18. \A d \in CountedCalls' : Label(d)' \in DOMAIN requests'
    BY <1>8, <1>9, <1>10, <1>14 DEF CountInv
  <1>19. \A p \in knownMethods' : p \in knownServiceMethods \/ Served(p)
    BY <1>1, <1>4, CacheKeeps
  <1>20. activeStreams' = Cardinality(StreamsInside')
    <2>1. c \notin StreamsInside'
      BY <1>3 DEF StreamsInside
    <2>2. c \in StreamsInside <=> Method(c) = "Heartbeat"
      BY <1>1 DEF StreamsInside
    <2>3. StreamsInside \subseteq Calls /\ StreamsInside' \subseteq Calls
      BY DEF StreamsInside
    <2>4. StreamsInside' = StreamsInside \ {c}
      BY <1>7, <2>1, <2>3
    <2>5. Cardinality(StreamsInside \ {c}) = IF Method(c) = "Heartbeat"
                                             THEN Cardinality(StreamsInside) - 1
                                             ELSE Cardinality(StreamsInside)
      BY <2>2, FiniteUnder, FS_RemoveElement
    <2> QED
      BY <1>1, <1>5, <2>4, <2>5 DEF CountInv
  <1> QED
    BY <1>17, <1>18, <1>19, <1>20 DEF CountInv

LEMMA CountInvKept == CallsInv /\ CountInv /\ [RpcNext]_rpcVars => CountInv'
  <1> SUFFICES ASSUME CallsInv, CountInv, [RpcNext]_rpcVars PROVE CountInv'
    OBVIOUS
  <1>1. ASSUME NEW c \in Calls,
               \/ \E o \in Offers[c] : Invoke(c, o)
               \/ RejectUnknown(c) \/ RejectMalformed(c) \/ EnterUnary(c)
               \/ Authenticate(c) \/ HandleUnary(c) \/ RecvFirst(c)
               \/ (\E m \in Later : RecvLater(c, m)) \/ CloseStream(c) \/ StreamBroken(c)
        PROVE  CountInv'
    BY <1>1, QuietSteps, QuietKeeps
  <1>2. ASSUME NEW c \in Calls, EnterStream(c) \/ Count(c) PROVE CountInv'
    BY <1>2, EnterStreamCounts, CountCounts
  <1>3. ASSUME NEW c \in Calls, Panic(c) \/ Deliver(c) \/ Lose(c) PROVE CountInv'
    BY <1>3, StillKeeps DEF Panic, Deliver, Lose
  <1>4. CASE UNCHANGED rpcVars
    BY <1>4, StillKeeps DEF rpcVars
  <1> QED
    BY <1>1, <1>2, <1>3, <1>4 DEF RpcNext, ServerStep, Rest

LEMMA CountInvInit == RpcInit => CountInv
  <1> SUFFICES ASSUME RpcInit PROVE CountInv
    OBVIOUS
  <1>1. requests = [k \in {} |-> 1]
    BY DEF RpcInit, EmptyBag, SetToBag
  <1>2. \A c \in Calls : call[c].at = "none"
    BY DEF RpcInit, NoCall
  <1>3. CountedCalls = {} /\ StreamsInside = {}
    BY <1>2 DEF CountedCalls, StreamsInside
  <1>4. Cardinality(StreamsInside) = 0
    BY <1>3, FS_EmptySet, Zenon
  <1>5. activeStreams = 0 /\ knownMethods = knownServiceMethods
    BY DEF RpcInit
  <1> QED
    BY <1>1, <1>3, <1>4, <1>5 DEF CountInv

-----------------------------------------------------------------------------
(* The process.                                                            *)

LEMMA DeathKept ==
    CallsInv /\ DiesOnlyOfMissingResources /\ [RpcNext]_rpcVars
        => DiesOnlyOfMissingResources'
  <1> SUFFICES ASSUME CallsInv, DiesOnlyOfMissingResources, [RpcNext]_rpcVars
               PROVE  DiesOnlyOfMissingResources'
    OBVIOUS
  <1>1. ASSUME NEW c \in Calls, Panic(c) PROVE DiesOnlyOfMissingResources'
    <2>1. /\ call[c].at = "handling" /\ Desc(c).type = "unary" /\ sent' = sent
          /\ Method(c) = "Register" /\ call[c].req.Resources = Nil
          /\ validateAll(Checks("Register", call[c].req))
      BY <1>1 DEF Panic, Fatal
    <2>2. /\ sent[c] \in Offers[c] /\ Admitted(c) /\ call[c].req = sent[c].body
          /\ validateBearerToken(sent[c].tokens) = "OK"
      BY <2>1 DEF CallsInv, CallInv, Entered
    <2>3. Served(sent[c].path) /\ Sound(c)
      BY <2>1, <2>2 DEF Admitted
    <2>4. Verdict(c) = "OK"
      BY <2>1, <2>2, <2>3, VerdictOf DEF Sound
    <2>5. sent[c].path = FullMethodName("Register")
      BY <2>1, <2>2, <2>3, OfferKnown
    <2>6. Verdict(c)' = Verdict(c)
      BY <2>1, SentStays
    <2> QED
      BY <2>1, <2>2, <2>4, <2>5, <2>6 DEF DiesOnlyOfMissingResources
  <1>2. ASSUME up' = up, up \/ sent' = sent PROVE DiesOnlyOfMissingResources'
    <2>1. CASE up
      BY <1>2, <2>1 DEF DiesOnlyOfMissingResources
    <2>2. CASE ~up
      <3>1. PICK c \in Calls : /\ sent[c].path = FullMethodName("Register")
                               /\ Verdict(c) = "OK"
                               /\ sent[c].body.Resources = Nil
        BY <2>2 DEF DiesOnlyOfMissingResources
      <3>2. sent' = sent /\ Verdict(c)' = Verdict(c)
        BY <1>2, <2>2, SentStays
      <3> QED
        BY <3>1, <3>2 DEF DiesOnlyOfMissingResources
    <2> QED
      BY <2>1, <2>2
  <1>3. ASSUME NEW c \in Calls, \E o \in Offers[c] : Invoke(c, o)
        PROVE  up' = up /\ (up \/ sent' = sent)
    BY <1>3 DEF Invoke
  <1>4. ASSUME NEW c \in Calls, ServerStep(c), ~Panic(c) PROVE up' = up /\ (up \/ sent' = sent)
    BY <1>4 DEF ServerStep, RejectUnknown, RejectMalformed, EnterUnary, EnterStream,
                Authenticate, HandleUnary, RecvFirst, RecvLater, CloseStream, StreamBroken,
                Count, Deliver
  <1>5. ASSUME NEW c \in Calls, Lose(c) PROVE up' = up /\ (up \/ sent' = sent)
    BY <1>5 DEF Lose
  <1>6. CASE UNCHANGED rpcVars
    BY <1>2, <1>6 DEF rpcVars
  <1> QED
    BY <1>1, <1>2, <1>3, <1>4, <1>5, <1>6 DEF RpcNext, Rest

-----------------------------------------------------------------------------
(* The theorems.                                                           *)

RpcInv == CallsInv /\ CountInv /\ DiesOnlyOfMissingResources

LEMMA RpcInvariant == RpcSpec => []RpcInv
  <1>1. RpcInit => RpcInv
    BY CallsInvInit, CountInvInit DEF RpcInv, RpcInit, DiesOnlyOfMissingResources
  <1>2. RpcInv /\ [RpcNext]_rpcVars => RpcInv'
    BY CallsInvKept, CountInvKept, DeathKept DEF RpcInv
  <1> QED
    BY <1>1, <1>2, PTL DEF RpcSpec

LEMMA CodesTyped ==
    ASSUME CallsInv, NEW c \in Calls
    PROVE  call[c].code \in Codes
  <1>1. CallInv(c)
    BY DEF CallsInv
  <1>2. Deserved(c) \in Codes /\ "OK" \in Codes /\ BrokenCodes \subseteq Codes
    BY VerdictsAreCodes DEF Codes, BrokenCodes
  <1>3. CASE call[c].at = "none"
    BY <1>1, <1>2, <1>3 DEF CallInv, NoCall
  <1>4. CASE call[c].at # "none"
    BY <1>1, <1>2, <1>4 DEF CallInv, CallAts, Untouched, Broken
  <1> QED
    BY <1>3, <1>4

\* Whatever the clients send, in whatever order the server takes its steps,
\* every request a handler holds is a whole message of its method's type, every
\* code is one the service has, and the stream gauge stays within the calls.
THEOREM RpcTypeCorrect == RpcSpec => []RpcTypeOK
  <1>1. RpcInv => RpcTypeOK
    <2> SUFFICES ASSUME RpcInv PROVE RpcTypeOK
      OBVIOUS
    <2> USE DEF RpcInv
    <2>1. ASSUME NEW c \in Calls
          PROVE  /\ call[c].at \in CallAts
                 /\ call[c].code \in Codes
                 /\ answer[c].code \in Codes \cup {"none"}
                 /\ call[c].req # Nil => DOMAIN call[c].req = DOMAIN Schema[Desc(c).req]
                 /\ call[c].last \in Later \cup {Nil}
      <3>1. CallInv(c) /\ ContentInv(c) /\ AnswerInv(c)
        BY DEF CallsInv
      <3> QED
        BY <3>1, CodesTyped DEF CallInv, ContentInv, AnswerInv
    <2>2. IsABag(requests)
      BY DEF CountInv, IsABag
    <2>3. activeStreams \in 0..Cardinality(Calls)
      BY FiniteUnder DEF CountInv
    <2>4. up \in BOOLEAN
      BY DEF CallsInv
    <2> QED
      BY <2>1, <2>2, <2>3, <2>4 DEF RpcTypeOK
  <1> QED
    BY <1>1, RpcInvariant, PTL

\* Every call that is over has the code its request, its tokens and the last
\* message of its stream deserve, by the field-by-field reading of validator.go
\* and the token of the agent, or is a stream whose client lost the connection.
THEOREM CodesTellWhy == RpcSpec => []CodeTellsWhy
  <1>1. RpcInv => CodeTellsWhy
    BY DEF RpcInv, CallsInv, CallInv, Broken, CodeTellsWhy
  <1> QED
    BY <1>1, RpcInvariant, PTL

\* For all seven methods, any number of calls and streams of any length: the
\* registry is handed what a client with a right to it said last, and a client
\* gets the answer to its own request.
THEOREM OwnMessages == RpcSpec => []EachGetsItsOwn
  <1>1. RpcInv => EachGetsItsOwn
    <2> SUFFICES ASSUME RpcInv, NEW c \in Calls
                 PROVE  /\ call[c].handed # Nil =>
                             /\ Verdict(c) = "OK"
                             /\ Deserved(c) = "OK" =>
                                  call[c].handed = Handed(Method(c), Latest(c))
                             /\ Allowed(Method(c), call[c].handed)
                        /\ answer[c].code = "OK" /\ sent[c].body # Nil =>
                             answer[c].msg # Nil
                        /\ answer[c].msg # Nil =>
                             /\ Answers(Method(c), answer[c].msg, sent[c].body)
                             /\ Method(c) # "Heartbeat" => answer[c].code = "OK"
      BY DEF EachGetsItsOwn, Allowed
    <2>1. CallInv(c) /\ ContentInv(c) /\ AnswerInv(c)
      BY DEF RpcInv, CallsInv
    <2>2. ASSUME answer[c].msg # Nil
          PROVE  Answers(Method(c), answer[c].msg, sent[c].body)
      <3>1. call[c].at = "replied" /\ answer[c].msg = call[c].resp
        BY <2>1, <2>2 DEF AnswerInv
      <3>2. /\ Served(sent[c].path) /\ Sound(c) /\ sent[c] \in Offers[c]
            /\ call[c].resp = Response(Method(c), sent[c].body)
        BY <2>1, <2>2, <3>1 DEF ContentInv, CallInv
      <3>3. Answers(Method(c), Response(Method(c), sent[c].body), sent[c].body)
        BY <3>2, ResponseArrives DEF Sound
      <3> QED
        BY <3>1, <3>2, <3>3
    <2> QED
      BY <2>1, <2>2 DEF ContentInv, AnswerInv
  <1> QED
    BY <1>1, RpcInvariant, PTL

\* For any number of calls at once, the request counter of metrics.go holds each
\* call that got past the decoder exactly once, under its own name, and the
\* stream gauge is the number of Heartbeat streams inside the server.
THEOREM CountsExact == RpcSpec => []CountedUnderOwnName
  <1>1. RpcInv => CountedUnderOwnName
    <2> SUFFICES ASSUME RpcInv PROVE CountedUnderOwnName
      OBVIOUS
    <2> USE DEF RpcInv
    <2>1. ASSUME NEW k \in BagToSet(requests) \cup
                      {<<sent[c].path, Desc(c).type, call[c].code>> : c \in CountedCalls}
          PROVE  (IF BagIn(k, requests) THEN requests[k] ELSE 0) =
                   Cardinality({c \in CountedCalls :
                                  k = <<sent[c].path, Desc(c).type, call[c].code>>})
      <3>1. k \in DOMAIN requests
        BY DEF CountInv, Label, BagToSet
      <3>2. requests[k] = Cardinality(Under(k))
        BY <3>1 DEF CountInv
      <3>3. Under(k) = {c \in CountedCalls :
                          k = <<sent[c].path, Desc(c).type, call[c].code>>}
        BY DEF Under, Label
      <3> QED
        BY <3>1, <3>2, <3>3 DEF BagIn, BagToSet
    <2>2. activeStreams =
            Cardinality({c \in Calls :
                /\ call[c].at \in {"entered", "handling", "streaming", "returned"}
                /\ Method(c) = "Heartbeat"})
      BY DEF CountInv, StreamsInside
    <2> QED
      BY <2>1, <2>2 DEF CountInv, CountedUnderOwnName
  <1> QED
    BY <1>1, RpcInvariant, PTL

\* If the process is dead, it was killed by a Register with a legal request, the
\* right token and nil Resources, for any number of calls of any kind.
THEOREM DeathExplained == RpcSpec => []DiesOnlyOfMissingResources
  <1>1. RpcInv => DiesOnlyOfMissingResources
    BY DEF RpcInv
  <1> QED
    BY <1>1, RpcInvariant, PTL
=============================================================================
