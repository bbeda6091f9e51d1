------------------------- MODULE NodeRegistryProofs -------------------------
(***************************************************************************)
(* Proofs about NodeRegistry for every value of its constants.             *)
(***************************************************************************)
EXTENDS NodeRegistry, FiniteSetTheorems, TLAPS

-----------------------------------------------------------------------------
(* Facts about the operators on the map.                                   *)

\* The task count of any map is a natural number: its pairs are drawn from
\* the finitely many pairs of a node and a task.
LEMMA TotalTasksType ==
    ASSUME NEW f
    PROVE  /\ IsFiniteSet(RunningTasks(f))
           /\ totalTasksLocked(f) \in Nat
  <1>1. IsFiniteSet(Nodes \X Tasks)
    BY NodesAssumption, TasksAssumption, FS_Product
  <1>2. RunningTasks(f) \subseteq Nodes \X Tasks
    BY DEF RunningTasks
  <1>3. IsFiniteSet(RunningTasks(f))
    BY <1>1, <1>2, FS_Subset
  <1> QED
    BY <1>3, FS_CardinalityType DEF totalTasksLocked

\* A map with fewer running tasks has a count that is not larger.
LEMMA TotalTasksMonotone ==
    ASSUME NEW f, NEW g, RunningTasks(f) \subseteq RunningTasks(g)
    PROVE  totalTasksLocked(f) <= totalTasksLocked(g)
  BY TotalTasksType, FS_Subset DEF totalTasksLocked

\* A map all of whose entries are entries of another, with fewer tasks, has
\* fewer running tasks.
LEMMA FewerTasks ==
    ASSUME NEW f, NEW g,
           \A m \in DOMAIN f : f[m].tasks = {} \/ (m \in DOMAIN g /\ f[m].tasks = g[m].tasks)
    PROVE  RunningTasks(f) \subseteq RunningTasks(g)
  BY DEF RunningTasks

\* The registered nodes are finitely many.
LEMMA DomainFinite ==
    ASSUME NEW f, DOMAIN f \subseteq Nodes
    PROVE  /\ IsFiniteSet(DOMAIN f)
           /\ Cardinality(DOMAIN f) \in Nat
  BY NodesAssumption, FS_Subset, FS_CardinalityType

-----------------------------------------------------------------------------
(* Type correctness.                                                       *)

LEMMA TypeInit == RegistryInit => RegistryTypeOK
  BY BoundsAssumption DEF RegistryInit, RegistryTypeOK, NewNodeRegistry

\* Removing any set of nodes keeps the map well typed.
LEMMA WithoutType ==
    ASSUME RegistryTypeOK, NEW S
    PROVE  LET f == Without(nodes, S)
           IN  DOMAIN f \subseteq Nodes /\ f \in [DOMAIN f -> NodeInfo]
  BY DEF RegistryTypeOK, Without

LEMMA TypeStep ==
    RegistryTypeOK /\ [RegistryNext]_registryVars => RegistryTypeOK'
  <1> SUFFICES ASSUME RegistryTypeOK, [RegistryNext]_registryVars
               PROVE  RegistryTypeOK'
    OBVIOUS
  <1> USE BoundsAssumption
  <1>1. ASSUME NEW n \in Nodes, Register(n) PROVE RegistryTypeOK'
    <2>1. NextConnID(n) \in Nat
      BY DEF RegistryTypeOK, NextConnID, Registered, NodeInfo
    <2>2. (IF Registered(n) THEN nodes[n].born ELSE regs[n]) \in Nat
      BY DEF RegistryTypeOK, Registered, NodeInfo
    <2>3. /\ DOMAIN nodes' \subseteq Nodes
          /\ nodes' \in [DOMAIN nodes' -> NodeInfo]
      BY <1>1, <2>1, <2>2 DEF Register, RegistryTypeOK, Put, NodeInfo
    <2>4. registeredNodes' \in Nat
      BY <1>1, <2>3, DomainFinite DEF Register
    <2>5. regs' \in [Nodes -> 0..MaxRegs]
      BY <1>1 DEF Register, RegistryTypeOK
    <2> QED
      BY <1>1, <2>3, <2>4, <2>5 DEF Register, RegistryTypeOK
  <1>2. ASSUME NEW n \in Nodes, NEW ts \in TaskLists(MaxTasks),
               UpdateHeartbeat(n, ts)
        PROVE  RegistryTypeOK'
    <2>1. {ts[i] : i \in DOMAIN ts} \in SUBSET Tasks
      BY DEF TaskLists
    <2>2. /\ DOMAIN nodes' \subseteq Nodes
          /\ nodes' \in [DOMAIN nodes' -> NodeInfo]
      BY <1>2, <2>1 DEF UpdateHeartbeat, RegistryTypeOK, NodeInfo, Registered
    <2> QED
      BY <1>2, <2>2, TotalTasksType DEF UpdateHeartbeat, RegistryTypeOK
  <1>3. ASSUME NEW n \in Nodes, Remove(n) PROVE RegistryTypeOK'
    BY <1>3, WithoutType, DomainFinite, TotalTasksType
       DEF Remove, RegistryTypeOK
  <1>4. ASSUME NEW n \in Nodes, NEW c \in 0..MaxRegs,
               RemoveIfConnectionMatches(n, c)
        PROVE  RegistryTypeOK'
    BY <1>3, <1>4
       DEF RemoveIfConnectionMatches, registryVars, RegistryTypeOK
  <1>5. ASSUME StaleNodeCleanup PROVE RegistryTypeOK'
    BY <1>5, WithoutType, DomainFinite, TotalTasksType
       DEF StaleNodeCleanup, RegistryTypeOK
  <1>6. ASSUME Tick PROVE RegistryTypeOK'
    BY <1>6 DEF Tick, RegistryTypeOK, NodeInfo
  <1>7. ASSUME Restart PROVE RegistryTypeOK'
    BY <1>7 DEF Restart, RegistryTypeOK, NewNodeRegistry
  <1>8. ASSUME UNCHANGED registryVars PROVE RegistryTypeOK'
    BY <1>8 DEF registryVars, RegistryTypeOK
  <1> QED
    BY <1>1, <1>2, <1>3, <1>4, <1>5, <1>6, <1>7, <1>8 DEF RegistryNext

\* Every reachable state of the registry is well typed.
THEOREM TypeCorrect == RegistrySpec => []RegistryTypeOK
  BY TypeInit, TypeStep, PTL DEF RegistrySpec

-----------------------------------------------------------------------------
(* Each invariant below is inductive next to the type invariant.           *)

LEMMA StalenessStep ==
    ASSUME RegistryTypeOK, BoundedStaleness, [RegistryNext]_registryVars
    PROVE  BoundedStaleness'
  <1> USE BoundsAssumption DEF BoundedStaleness, RegistryTypeOK, NodeInfo
  <1>1. ASSUME NEW n \in Nodes, Register(n) PROVE BoundedStaleness'
    BY <1>1 DEF Register, Put
  <1>2. ASSUME NEW n \in Nodes, NEW ts, UpdateHeartbeat(n, ts)
        PROVE  BoundedStaleness'
    BY <1>2 DEF UpdateHeartbeat, Registered
  <1>3. ASSUME NEW n \in Nodes, Remove(n) PROVE BoundedStaleness'
    BY <1>3 DEF Remove, Without
  <1>4. ASSUME NEW n \in Nodes, NEW c, RemoveIfConnectionMatches(n, c)
        PROVE  BoundedStaleness'
    BY <1>3, <1>4 DEF RemoveIfConnectionMatches, registryVars
  <1>5. ASSUME StaleNodeCleanup PROVE BoundedStaleness'
    BY <1>5 DEF StaleNodeCleanup, StaleNodes, Without
  <1>6. ASSUME Tick PROVE BoundedStaleness'
    BY <1>6 DEF Tick
  <1>7. ASSUME Restart PROVE BoundedStaleness'
    BY <1>7 DEF Restart, NewNodeRegistry
  <1>8. ASSUME UNCHANGED registryVars PROVE BoundedStaleness'
    BY <1>8 DEF registryVars
  <1> QED
    BY <1>1, <1>2, <1>3, <1>4, <1>5, <1>6, <1>7, <1>8 DEF RegistryNext

\* Whatever the interleaving of registrations, heartbeats, removals and
\* cleanups, a listed node was heard within threshold + period.
THEOREM StalenessBounded == RegistrySpec => []BoundedStaleness
  <1>1. RegistryInit => BoundedStaleness
    BY DEF RegistryInit, BoundedStaleness, NewNodeRegistry
  <1> QED
    BY <1>1, StalenessStep, TypeCorrect, PTL DEF RegistrySpec

LEMMA NodeGaugeStep ==
    ASSUME RegistryTypeOK, RegisteredGaugeExact, [RegistryNext]_registryVars
    PROVE  RegisteredGaugeExact'
  <1> USE DEF RegisteredGaugeExact
  <1>1. ASSUME NEW n \in Nodes, Register(n) PROVE RegisteredGaugeExact'
    BY <1>1 DEF Register
  <1>2. ASSUME NEW n \in Nodes, NEW ts, UpdateHeartbeat(n, ts)
        PROVE  RegisteredGaugeExact'
    <2>1. DOMAIN nodes' = DOMAIN nodes
      BY <1>2 DEF UpdateHeartbeat, RegistryTypeOK
    <2> QED
      BY <1>2, <2>1 DEF UpdateHeartbeat
  <1>3. ASSUME NEW n \in Nodes, Remove(n) PROVE RegisteredGaugeExact'
    BY <1>3 DEF Remove
  <1>4. ASSUME NEW n \in Nodes, NEW c, RemoveIfConnectionMatches(n, c)
        PROVE  RegisteredGaugeExact'
    BY <1>3, <1>4 DEF RemoveIfConnectionMatches, registryVars
  <1>5. ASSUME StaleNodeCleanup PROVE RegisteredGaugeExact'
    <2>1. CASE StaleNodes = {}
      <3>1. DOMAIN nodes' = DOMAIN nodes
        BY <1>5, <2>1 DEF StaleNodeCleanup, Without
      <3> QED
        BY <1>5, <2>1, <3>1 DEF StaleNodeCleanup
    <2>2. CASE StaleNodes # {}
      BY <1>5, <2>2 DEF StaleNodeCleanup
    <2> QED
      BY <2>1, <2>2
  <1>6. ASSUME Tick PROVE RegisteredGaugeExact'
    <2>1. DOMAIN nodes' = DOMAIN nodes
      BY <1>6 DEF Tick
    <2> QED
      BY <1>6, <2>1 DEF Tick
  <1>7. ASSUME Restart PROVE RegisteredGaugeExact'
    <2>1. DOMAIN nodes' = {}
      BY <1>7 DEF Restart, NewNodeRegistry
    <2> QED
      BY <1>7, <2>1, FS_EmptySet DEF Restart
  <1>8. ASSUME UNCHANGED registryVars PROVE RegisteredGaugeExact'
    BY <1>8 DEF registryVars
  <1> QED
    BY <1>1, <1>2, <1>3, <1>4, <1>5, <1>6, <1>7, <1>8 DEF RegistryNext

\* The node gauge is the size of the map after every operation.
THEOREM NodeGaugeExact == RegistrySpec => []RegisteredGaugeExact
  <1>1. RegistryInit => RegisteredGaugeExact
    <2>1. DOMAIN NewNodeRegistry = {}
      BY DEF NewNodeRegistry
    <2> QED
      BY <2>1, FS_EmptySet DEF RegistryInit, RegisteredGaugeExact
  <1> QED
    BY <1>1, NodeGaugeStep, TypeCorrect, PTL DEF RegistrySpec

LEMMA TaskGaugeStep ==
    ASSUME RegistryTypeOK, TasksGaugeNeverUndercounts,
           [RegistryNext]_registryVars
    PROVE  TasksGaugeNeverUndercounts'
  <1> USE DEF TasksGaugeNeverUndercounts
  <1>0. /\ totalTasksLocked(nodes) \in Nat
        /\ totalTasksLocked(nodes') \in Nat
        /\ tasksRunning \in Nat
    BY TotalTasksType DEF RegistryTypeOK
  \* Steps that leave the gauge alone must not add a running task.
  <1>a. ASSUME RunningTasks(nodes') \subseteq RunningTasks(nodes),
               tasksRunning' = tasksRunning
        PROVE  TasksGaugeNeverUndercounts'
    <2>1. totalTasksLocked(nodes') <= totalTasksLocked(nodes)
      BY <1>a, TotalTasksMonotone
    <2> QED
      BY <1>0, <1>a, <2>1
  \* Steps that recompute it make it exact.
  <1>b. ASSUME tasksRunning' = totalTasksLocked(nodes')
        PROVE  TasksGaugeNeverUndercounts'
    BY <1>0, <1>b
  <1>1. ASSUME NEW n \in Nodes, Register(n)
        PROVE  TasksGaugeNeverUndercounts'
    <2>1. \A m \in DOMAIN nodes' :
            nodes'[m].tasks = {} \/ (m \in DOMAIN nodes /\ nodes'[m].tasks = nodes[m].tasks)
      BY <1>1 DEF Register, Put
    <2> QED
      BY <1>1, <1>a, <2>1, FewerTasks DEF Register
  <1>2. ASSUME NEW n \in Nodes, NEW ts, UpdateHeartbeat(n, ts)
        PROVE  TasksGaugeNeverUndercounts'
    BY <1>2, <1>b DEF UpdateHeartbeat
  <1>3. ASSUME NEW n \in Nodes, Remove(n) PROVE TasksGaugeNeverUndercounts'
    BY <1>3, <1>b DEF Remove
  <1>8. ASSUME UNCHANGED registryVars PROVE TasksGaugeNeverUndercounts'
    BY <1>8 DEF registryVars
  <1>4. ASSUME NEW n \in Nodes, NEW c, RemoveIfConnectionMatches(n, c)
        PROVE  TasksGaugeNeverUndercounts'
    BY <1>3, <1>4, <1>8 DEF RemoveIfConnectionMatches
  <1>5. ASSUME StaleNodeCleanup PROVE TasksGaugeNeverUndercounts'
    <2>1. CASE StaleNodes = {}
      <3>1. \A m \in DOMAIN nodes' :
              m \in DOMAIN nodes /\ nodes'[m].tasks = nodes[m].tasks
        BY <1>5 DEF StaleNodeCleanup, Without
      <3> QED
        BY <1>5, <1>a, <2>1, <3>1, FewerTasks DEF StaleNodeCleanup
    <2>2. CASE StaleNodes # {}
      BY <1>5, <1>b, <2>2 DEF StaleNodeCleanup
    <2> QED
      BY <2>1, <2>2
  <1>6. ASSUME Tick PROVE TasksGaugeNeverUndercounts'
    <2>1. \A m \in DOMAIN nodes' :
            m \in DOMAIN nodes /\ nodes'[m].tasks = nodes[m].tasks
      BY <1>6 DEF Tick, RegistryTypeOK, NodeInfo
    <2> QED
      BY <1>6, <1>a, <2>1, FewerTasks DEF Tick
  <1>7. ASSUME Restart PROVE TasksGaugeNeverUndercounts'
    <2>1. RunningTasks(nodes') = {}
      BY <1>7 DEF Restart, NewNodeRegistry, RunningTasks
    <2> QED
      BY <1>7, <1>b, <2>1, FS_EmptySet DEF Restart, totalTasksLocked
  <1> QED
    BY <1>1, <1>2, <1>3, <1>4, <1>5, <1>6, <1>7, <1>8 DEF RegistryNext

\* The task gauge never reports fewer tasks than the registry holds.
THEOREM TaskGaugeNeverLow == RegistrySpec => []TasksGaugeNeverUndercounts
  <1>1. RegistryInit => TasksGaugeNeverUndercounts
    <2>1. RunningTasks(NewNodeRegistry) = {}
      BY DEF NewNodeRegistry, RunningTasks
    <2> QED
      BY <2>1, FS_EmptySet
         DEF RegistryInit, TasksGaugeNeverUndercounts, totalTasksLocked
  <1> QED
    BY <1>1, TaskGaugeStep, TypeCorrect, PTL DEF RegistrySpec

LEMMA ConnIDStep ==
    ASSUME RegistryTypeOK, ConnIDCountsResidence, [RegistryNext]_registryVars
    PROVE  ConnIDCountsResidence'
  <1> USE BoundsAssumption DEF ConnIDCountsResidence, RegistryTypeOK, NodeInfo
  <1>1. ASSUME NEW n \in Nodes, Register(n) PROVE ConnIDCountsResidence'
    <2> DEFINE b == IF n \in DOMAIN nodes THEN nodes[n].born ELSE regs[n]
               info == [connID |-> NextConnID(n), age |-> 0, tasks |-> {}, born |-> b]
    <2>0. nodes' = Put(nodes, n, info)
      BY <1>1 DEF Register, Registered
    <2>1. /\ DOMAIN nodes' = DOMAIN nodes \cup {n}
          /\ nodes'[n] = info
          /\ \A m \in DOMAIN nodes : m # n => nodes'[m] = nodes[m]
      <3> HIDE DEF info
      <3> QED
        BY <2>0 DEF Put
    <2>2. /\ regs'[n] = regs[n] + 1
          /\ \A m \in Nodes : m # n => regs'[m] = regs[m]
      BY <1>1 DEF Register
    <2>3. /\ nodes'[n].connID + nodes'[n].born = regs'[n]
          /\ nodes'[n].connID > 0
      BY <2>1, <2>2 DEF NextConnID, Registered
    <2> QED
      BY <2>1, <2>2, <2>3
  <1>2. ASSUME NEW n \in Nodes, NEW ts, UpdateHeartbeat(n, ts)
        PROVE  ConnIDCountsResidence'
    BY <1>2 DEF UpdateHeartbeat, Registered
  <1>3. ASSUME NEW n \in Nodes, Remove(n) PROVE ConnIDCountsResidence'
    BY <1>3 DEF Remove, Without
  <1>4. ASSUME NEW n \in Nodes, NEW c, RemoveIfConnectionMatches(n, c)
        PROVE  ConnIDCountsResidence'
    BY <1>3, <1>4 DEF RemoveIfConnectionMatches, registryVars
  <1>5. ASSUME StaleNodeCleanup PROVE ConnIDCountsResidence'
    BY <1>5 DEF StaleNodeCleanup, Without
  <1>6. ASSUME Tick PROVE ConnIDCountsResidence'
    BY <1>6 DEF Tick
  <1>7. ASSUME Restart PROVE ConnIDCountsResidence'
    BY <1>7 DEF Restart, NewNodeRegistry
  <1>8. ASSUME UNCHANGED registryVars PROVE ConnIDCountsResidence'
    BY <1>8 DEF registryVars
  <1> QED
    BY <1>1, <1>2, <1>3, <1>4, <1>5, <1>6, <1>7, <1>8 DEF RegistryNext

\* Within one residence the connection number counts the registrations, so
\* it tells any two of them apart.
THEOREM ConnIDsCount == RegistrySpec => []ConnIDCountsResidence
  <1>1. RegistryInit => ConnIDCountsResidence
    BY DEF RegistryInit, ConnIDCountsResidence, NewNodeRegistry
  <1> QED
    BY <1>1, ConnIDStep, TypeCorrect, PTL DEF RegistrySpec

-----------------------------------------------------------------------------
(* Refinement.                                                             *)

LEMMA MembershipStep ==
    ASSUME RegistryTypeOK, BoundedStaleness, [RegistryNext]_registryVars
    PROVE  [M!Next]_([n \in DOMAIN nodes |-> nodes[n].age])
  <1> DEFINE age == [n \in DOMAIN nodes |-> nodes[n].age]
  <1> SUFFICES M!Next \/ age' = age
    OBVIOUS
  <1> USE BoundsAssumption
  <1>1. ASSUME NEW n \in Nodes, Register(n) PROVE M!Join(n)
    BY <1>1 DEF Register, Put, M!Join, M!Listed
  <1>2. ASSUME NEW n \in Nodes, NEW ts, UpdateHeartbeat(n, ts)
        PROVE  M!Hear(n) \/ age' = age
    BY <1>2 DEF UpdateHeartbeat, Registered, M!Hear, M!Listed, RegistryTypeOK, NodeInfo
  <1>3. ASSUME NEW n \in Nodes, Remove(n) PROVE M!Leave(n) \/ age' = age
    BY <1>3 DEF Remove, Without, M!Leave, M!Listed
  <1>8. ASSUME UNCHANGED registryVars PROVE age' = age
    BY <1>8 DEF registryVars
  <1>4. ASSUME NEW n \in Nodes, NEW c, RemoveIfConnectionMatches(n, c)
        PROVE  M!Leave(n) \/ age' = age
    BY <1>3, <1>4, <1>8 DEF RemoveIfConnectionMatches
  <1>5. ASSUME StaleNodeCleanup PROVE M!Expire
    BY <1>5 DEF StaleNodeCleanup, StaleNodes, Without, M!Expire, M!Listed, RegistryTypeOK, NodeInfo
  <1>6. ASSUME Tick PROVE M!Pass
    BY <1>6 DEF Tick, M!Pass, M!Listed, RegistryTypeOK, NodeInfo, BoundedStaleness
  <1>7. ASSUME Restart PROVE M!Crash
    BY <1>7 DEF Restart, NewNodeRegistry, M!Crash, M!Nobody
  <1> HIDE DEF age
  <1> QED
    BY <1>1, <1>2, <1>3, <1>4, <1>5, <1>6, <1>7, <1>8 DEF RegistryNext, M!Next

\* The registry implements the abstract membership list.  That time never
\* passes over an overdue node needs the bound on the staleness.
THEOREM RegistryImplementsMembership == RegistrySpec => ImplementsMembership
  <1>1. RegistryInit => M!Init
    BY DEF RegistryInit, NewNodeRegistry, M!Init, M!Nobody
  <1> QED
    BY <1>1, MembershipStep, TypeCorrect, StalenessBounded, PTL
       DEF RegistrySpec, ImplementsMembership, M!Spec
=============================================================================
