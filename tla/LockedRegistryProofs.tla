------------------------ MODULE LockedRegistryProofs ------------------------
(***************************************************************************)
(* Proofs about LockedRegistry, and RestApi on top of it, for every value  *)
(* of their constants, any number of goroutines included: the lock         *)
(* excludes what it should, hence reads see one moment and methods that    *)
(* are many steps take effect as one.  What NodeRegistryProofs shows of    *)
(* the atomic registry is thereby shown of the one the code has.           *)
(***************************************************************************)
EXTENDS RestApi, NodeRegistryProofs

-----------------------------------------------------------------------------
(* The inductive invariant.                                                *)

\* At most one goroutine has the writers' place, and while it holds the lock
\* nobody reads.
Mutex ==
    /\ \A t, u \in Threads : Announced(t) /\ Announced(u) => t = u
    /\ \A t, u \in Threads : pc[t] \in Holding => pc[u] # "copy"

\* A goroutine is in a place its call leads to; the cleanup comes when the
\* ticker has fired.
CallsFit ==
    /\ op[Cleaner] \in {NoOp, CleanupCall}
    /\ \A t \in Threads : t # Cleaner => op[t] # CleanupCall
    /\ \A t \in Threads : /\ pc[t] \in {"lock", "drain", "in"} =>
                               op[t] \in WriteCalls \cup {CleanupCall}
                          /\ pc[t] \in {"rlock", "blocked", "copy"} =>
                               op[t] \in ReadCalls \cup {GetAllCall}
    /\ pc[Cleaner] \in {"lock", "drain", "in"} => sinceTick = CleanupPeriod

\* Only the cleanup's deletion loop has something left to delete.
SweepFits ==
    /\ pc[Cleaner] # "sweep" => sweep = {}
    /\ \A t \in Threads : pc[t] = "sweep" => t = Cleaner

\* A goroutine that is not reading holds no copy.
CopiesFit == \A t \in Threads : pc[t] # "copy" => out[t] = NewNodeRegistry

\* The registrations under way fit into what is left of the bound.
Budget ==
    \A n \in Nodes : regs[n] + Cardinality(RegistersUnderWay(n)) <= MaxRegs

LockedInv ==
    /\ LockedTypeOK /\ Mutex /\ CallsFit /\ SweepFits /\ CopiesFit
    /\ CopiesAreCurrent /\ NodesGaugeLagsOnlyInside

-----------------------------------------------------------------------------
(* Facts about calls and the map.                                          *)

\* What the calls of the handlers carry.
LEMMA CallFields ==
    ASSUME NEW o \in WriteCalls
    PROVE  /\ o.node \in Nodes
           /\ o.kind \in {"Register", "UpdateHeartbeat", "Remove",
                          "RemoveIfConnectionMatches"}
           /\ o.kind = "Register" => o.profile \in Profiles
           /\ o.kind = "UpdateHeartbeat" => o.tasks \in TaskLists(MaxTasks)
           /\ o.kind = "RemoveIfConnectionMatches" => o.connID \in 0..MaxRegs
           /\ o # CleanupCall
  BY DEF WriteCalls, CleanupCall

\* A goroutine before its first store is in one of the writers' calls.
LEMMA WriterCall ==
    ASSUME CallsFit, NEW t \in Threads, pc[t] \in {"lock", "drain", "in"}
    PROVE  \/ t = Cleaner /\ op[t] = CleanupCall
           \/ t # Cleaner /\ op[t] \in WriteCalls
  <1>1. op[t] \in WriteCalls \cup {CleanupCall}
    BY DEF CallsFit
  <1>2. CASE t = Cleaner
    <2>1. op[t] # NoOp
      BY <1>1, CallFields DEF NoOp, CleanupCall
    <2> QED
      BY <1>2, <2>1 DEF CallsFit
  <1>3. CASE t # Cleaner
    BY <1>1, <1>3 DEF CallsFit
  <1> QED
    BY <1>2, <1>3

LEMMA CleanerIsThread == Cleaner \in Threads
  BY DEF Threads

LEMMA LockedInvInit == LockedInit => LockedInv
  <1> SUFFICES ASSUME LockedInit PROVE LockedInv
    OBVIOUS
  <1>1. RegistryTypeOK
    BY TypeInit DEF LockedInit
  <1>2. /\ pc = [t \in Threads |-> "idle"]
        /\ op = [t \in Threads |-> NoOp]
        /\ out = [t \in Threads |-> NewNodeRegistry]
        /\ DOMAIN NewNodeRegistry = {}
        /\ sweep = {}
        /\ profile = NewNodeRegistry
        /\ nodes = NewNodeRegistry
        /\ registeredNodes = 0
    BY DEF LockedInit, RegistryInit, NewNodeRegistry
  <1>3. LockedTypeOK
    BY <1>1, <1>2 DEF LockedTypeOK, Places, NewNodeRegistry
  <1>4. Mutex /\ SweepFits /\ CopiesFit /\ CopiesAreCurrent
    BY <1>2, CleanerIsThread
       DEF Mutex, Announced, Holding, SweepFits, CopiesFit, CopiesAreCurrent
  <1>5. CallsFit
    BY <1>2, CleanerIsThread DEF CallsFit, NoOp, CleanupCall
  <1>6. NodesGaugeLagsOnlyInside
    BY <1>2, FS_EmptySet DEF NodesGaugeLagsOnlyInside
  <1> QED
    BY <1>3, <1>4, <1>5, <1>6 DEF LockedInv

-----------------------------------------------------------------------------
(* Steps.  First the ones that leave the registry alone.                   *)

\* Waiting for the lock, getting it and giving it back.
LEMMA LockStep ==
    ASSUME LockedInv, NEW t \in Threads,
           Lock(t) \/ Drained(t) \/ RLock(t) \/ NoMatch(t) \/ RUnlock(t) \/ Unlock(t)
    PROVE  LockedInv'
  <1> USE DEF LockedInv, Lock, Drained, RLock, NoMatch, RUnlock, Unlock, Goto
  <1>1. /\ pc \in [Threads -> Places] /\ pc' \in [Threads -> Places]
        /\ DOMAIN op = Threads
        /\ DOMAIN out = Threads
        /\ UNCHANGED <<nodes, registeredNodes, tasksRunning, sinceTick, regs, sweep, profile>>
    BY DEF LockedTypeOK, registryVars, Places, Holding
  <1>2. LockedTypeOK'
    BY <1>1 DEF LockedTypeOK, RegistryTypeOK
  <1>3. Mutex'
    BY <1>1 DEF Mutex, Announced, Holding
  <1>4. CallsFit'
    BY <1>1, CleanerIsThread DEF CallsFit, NoOp, CleanupCall
  <1>5. SweepFits'
    BY <1>1, CleanerIsThread DEF SweepFits
  <1>6. CopiesFit' /\ CopiesAreCurrent'
    BY <1>1 DEF CopiesFit, CopiesAreCurrent, Summary, NewNodeRegistry
  <1>7. NodesGaugeLagsOnlyInside'
    BY <1>1 DEF NodesGaugeLagsOnlyInside
  <1> QED
    BY <1>2, <1>3, <1>4, <1>5, <1>6, <1>7

\* Calling a method.
LEMMA CallStep ==
    ASSUME LockedInv, NEW t \in Threads, NEW o, NEW l, Call(t, o, l),
           \/ t # Cleaner /\ o \in WriteCalls /\ l = "lock"
           \/ t # Cleaner /\ o \in ReadCalls \cup {GetAllCall} /\ l = "rlock"
           \/ t = Cleaner /\ o = CleanupCall /\ l = "lock" /\ sinceTick = CleanupPeriod
    PROVE  LockedInv'
  <1> USE DEF LockedInv, Call, Goto
  <1>0. o # CleanupCall \/ t = Cleaner
    BY CallFields DEF ReadCalls, GetAllCall, CleanupCall
  <1>1. /\ pc \in [Threads -> Places] /\ pc' \in [Threads -> Places]
        /\ DOMAIN op = Threads
        /\ DOMAIN out = Threads
        /\ UNCHANGED <<nodes, registeredNodes, tasksRunning, sinceTick, regs, sweep, profile, out>>
    BY DEF LockedTypeOK, registryVars, Places, Holding
  <1>2. LockedTypeOK'
    BY <1>1 DEF LockedTypeOK, RegistryTypeOK
  <1>3. Mutex'
    BY <1>1 DEF Mutex, Announced, Holding
  <1>4. CallsFit'
    BY <1>0, <1>1, CleanerIsThread DEF CallsFit
  <1>5. SweepFits' /\ CopiesFit' /\ CopiesAreCurrent' /\ NodesGaugeLagsOnlyInside'
    BY <1>1, CleanerIsThread
       DEF SweepFits, CopiesFit, CopiesAreCurrent, Summary, NodesGaugeLagsOnlyInside
  <1> QED
    BY <1>2, <1>3, <1>4, <1>5

-----------------------------------------------------------------------------
(* The stores.  The holder of the lock may change the map because nobody   *)
(* holds a copy of it.                                                     *)

LEMMA NobodyReads ==
    ASSUME LockedInv, NEW t \in Threads, pc[t] \in Holding
    PROVE  /\ \A u \in Threads : DOMAIN out[u] = {}
           /\ \A u \in Threads : pc[u] # "copy"
           /\ \A u \in Threads : Announced(u) => u = t
  BY DEF LockedInv, Mutex, CopiesFit, NewNodeRegistry, Announced

\* A store into the map, or a deletion, that keeps map and profiles well
\* typed and goes on to the gauges.
LEMMA StoreStep ==
    ASSUME LockedInv, NEW t \in Threads, NEW l \in {"sweep", "nodesGauge", "tasksGauge"},
           pc[t] \in {"in", "sweep"}, Goto(t, l),
           RegistryTypeOK', profile' \in [DOMAIN nodes' -> Profiles],
           sweep' \subseteq DOMAIN nodes',
           l = "sweep" => t = Cleaner,
           l # "sweep" => sweep' = {},
           l = "tasksGauge" => pc[t] = "in" /\ DOMAIN nodes' = DOMAIN nodes,
           t # Cleaner => sinceTick' = sinceTick,
           UNCHANGED <<registeredNodes, op, out>>
    PROVE  LockedInv'
  <1> USE DEF LockedInv, Goto
  <1>0. pc[t] \in Holding
    BY DEF Holding
  <1>1. /\ pc \in [Threads -> Places] /\ pc' \in [Threads -> Places]
        /\ DOMAIN op = Threads
        /\ DOMAIN out = Threads
    BY DEF LockedTypeOK, Places, Holding
  <1>2. LockedTypeOK'
    BY <1>1 DEF LockedTypeOK
  <1>3. Mutex'
    BY <1>0, <1>1 DEF Mutex, Announced, Holding
  <1>4. CallsFit'
    BY <1>1, CleanerIsThread DEF CallsFit
  <1>5. SweepFits'
    BY <1>0, <1>1, CleanerIsThread, NobodyReads DEF SweepFits, Announced, Holding
  <1>6. CopiesFit' /\ CopiesAreCurrent'
    BY <1>0, <1>1, NobodyReads DEF CopiesFit, CopiesAreCurrent
  <1>7. NodesGaugeLagsOnlyInside'
    <2>1. CASE l = "tasksGauge"
      BY <1>0, <1>1, <2>1, NobodyReads DEF NodesGaugeLagsOnlyInside, Announced, Holding
    <2>2. CASE l # "tasksGauge"
      BY <1>1, <2>2 DEF NodesGaugeLagsOnlyInside
    <2> QED
      BY <2>1, <2>2
  <1> QED
    BY <1>2, <1>3, <1>4, <1>5, <1>6, <1>7

\* Outside the deletion loop nothing is left to delete.
LEMMA NothingToSweep ==
    ASSUME LockedInv, NEW t \in Threads, pc[t] \in Holding, pc[t] # "sweep"
    PROVE  sweep = {}
  <1>1. CASE t = Cleaner
    BY <1>1 DEF LockedInv, SweepFits
  <1>2. CASE t # Cleaner
    <2>1. ~Announced(Cleaner)
      BY <1>2, CleanerIsThread, NobodyReads
    <2> QED
      BY <2>1 DEF LockedInv, SweepFits, Announced, Holding
  <1> QED
    BY <1>1, <1>2

LEMMA ThreadsFinite == IsFiniteSet(Threads)
  BY ThreadsAssumption, FS_Union, FS_Singleton DEF Threads

LEMMA UnderWayFinite ==
    ASSUME NEW n
    PROVE  /\ IsFiniteSet(RegistersUnderWay(n))
           /\ Cardinality(RegistersUnderWay(n)) \in Nat
  BY ThreadsFinite, FS_Subset, FS_CardinalityType DEF RegistersUnderWay

\* Whoever is about to register has a registration left.
LEMMA BudgetLeft ==
    ASSUME RegistryTypeOK, Budget, NEW n \in Nodes, NEW t \in RegistersUnderWay(n)
    PROVE  regs[n] < MaxRegs
  <1>1. Cardinality(RegistersUnderWay(n)) # 0
    BY UnderWayFinite, FS_EmptySet
  <1>2. regs[n] \in Nat /\ regs[n] + Cardinality(RegistersUnderWay(n)) <= MaxRegs
    BY BoundsAssumption DEF RegistryTypeOK, Budget
  <1> QED
    BY <1>1, <1>2, UnderWayFinite, BoundsAssumption

LEMMA RegisterStep ==
    ASSUME LockedInv, Budget, NEW t \in Threads, StoreRegister(t)
    PROVE  LockedInv'
  <1> USE BoundsAssumption DEF LockedInv, StoreRegister
  <1> DEFINE n == op[t].node
  <1>1. /\ t # Cleaner /\ op[t] \in WriteCalls
        /\ n \in Nodes /\ op[t].profile \in Profiles
    BY WriterCall, CallFields DEF CleanupCall
  <1>2. sweep = {}
    BY NothingToSweep DEF Holding
  <1>3. NextConnID(n) \in Nat /\ (IF Registered(n) THEN nodes[n].born ELSE regs[n]) \in Nat
    BY <1>1 DEF LockedTypeOK, RegistryTypeOK, NextConnID, Registered, NodeInfo
  <1>4. /\ DOMAIN nodes' \subseteq Nodes
        /\ nodes' \in [DOMAIN nodes' -> NodeInfo]
    BY <1>1, <1>3 DEF LockedTypeOK, RegistryTypeOK, Put, NodeInfo
  <1>5. DOMAIN nodes' = DOMAIN nodes \cup {n} /\ DOMAIN profile' = DOMAIN profile \cup {n}
    BY DEF Put
  <1>6. profile' \in [DOMAIN nodes' -> Profiles]
    BY <1>1, <1>5 DEF LockedTypeOK, Put
  <1>7. regs' \in [Nodes -> 0..MaxRegs]
    <2>1. t \in RegistersUnderWay(n)
      BY DEF RegistersUnderWay
    <2>2. regs[n] < MaxRegs
      BY <1>1, <2>1, BudgetLeft DEF LockedTypeOK
    <2> QED
      BY <1>1, <2>2 DEF LockedTypeOK, RegistryTypeOK
  <1>8. RegistryTypeOK'
    BY <1>4, <1>7 DEF LockedTypeOK, RegistryTypeOK
  <1> QED
    BY <1>1, <1>2, <1>6, <1>8, StoreStep

LEMMA HeartbeatStep ==
    ASSUME LockedInv, NEW t \in Threads, StoreHeartbeat(t)
    PROVE  LockedInv'
  <1> USE BoundsAssumption DEF LockedInv, StoreHeartbeat
  <1> DEFINE n == op[t].node
             ts == op[t].tasks
  <1>1. t # Cleaner /\ ts \in TaskLists(MaxTasks)
    BY WriterCall, CallFields DEF CleanupCall
  <1>2. sweep = {}
    BY NothingToSweep DEF Holding
  <1>3. {ts[i] : i \in DOMAIN ts} \in SUBSET Tasks
    BY <1>1 DEF TaskLists
  <1>4. /\ DOMAIN nodes' = DOMAIN nodes
        /\ nodes' \in [DOMAIN nodes' -> NodeInfo]
    BY <1>3, ZenonT(60) DEF LockedTypeOK, RegistryTypeOK, NodeInfo, Registered
  <1>5. RegistryTypeOK' /\ profile' \in [DOMAIN nodes' -> Profiles]
    BY <1>4 DEF LockedTypeOK, RegistryTypeOK
  <1> QED
    BY <1>1, <1>2, <1>4, <1>5, StoreStep

LEMMA DeleteStep ==
    ASSUME LockedInv, NEW t \in Threads, Delete(t)
    PROVE  LockedInv'
  <1> USE DEF LockedInv, Delete
  <1>1. t # Cleaner
    BY WriterCall DEF CleanupCall, Removes
  <1>2. sweep = {}
    BY NothingToSweep DEF Holding
  <1>3. RegistryTypeOK' /\ profile' \in [DOMAIN nodes' -> Profiles]
    BY WithoutType DEF LockedTypeOK, RegistryTypeOK, Without
  <1> QED
    BY <1>1, <1>2, <1>3, StoreStep

LEMMA CleanupNowStep ==
    ASSUME LockedInv, CleanupNow
    PROVE  LockedInv'
  <1> USE BoundsAssumption DEF LockedInv, CleanupNow
  <1>1. RegistryTypeOK' /\ profile' \in [DOMAIN nodes' -> Profiles]
    BY DEF LockedTypeOK, RegistryTypeOK
  <1>2. StaleNodes \subseteq DOMAIN nodes'
    BY DEF StaleNodes
  <1>3. CASE StaleNodes # {}
    BY <1>1, <1>2, <1>3, CleanerIsThread, StoreStep
  <1>4. CASE StaleNodes = {}
    <2>1. pc' = [pc EXCEPT ![Cleaner] = "unlock"] /\ sweep' = {}
      BY <1>4 DEF Goto
    <2>2. /\ pc \in [Threads -> Places] /\ pc' \in [Threads -> Places]
          /\ UNCHANGED <<nodes, registeredNodes, op, out, profile>>
      BY <2>1 DEF LockedTypeOK, Places, Holding
    <2>3. LockedTypeOK'
      BY <1>1, <2>1, <2>2 DEF LockedTypeOK
    <2>4. Mutex' /\ CallsFit' /\ SweepFits'
      BY <2>1, <2>2, CleanerIsThread DEF Mutex, Announced, Holding, CallsFit, SweepFits
    <2>5. CopiesFit' /\ CopiesAreCurrent' /\ NodesGaugeLagsOnlyInside'
      BY <2>1, <2>2, CleanerIsThread
         DEF CopiesFit, CopiesAreCurrent, Summary, NodesGaugeLagsOnlyInside
    <2> QED
      BY <2>3, <2>4, <2>5
  <1> QED
    BY <1>3, <1>4

LEMMA CleanupDeleteStep ==
    ASSUME LockedInv, NEW n \in Nodes, CleanupDelete(n)
    PROVE  LockedInv'
  <1> USE DEF LockedInv, CleanupDelete
  <1>1. RegistryTypeOK' /\ profile' \in [DOMAIN nodes' -> Profiles]
    BY WithoutType DEF LockedTypeOK, RegistryTypeOK, Without
  <1>2. sweep' \subseteq DOMAIN nodes'
    BY DEF LockedTypeOK, Without
  <1> QED
    BY <1>1, <1>2, CleanerIsThread, StoreStep

\* The gauges.
LEMMA GaugeStep ==
    ASSUME LockedInv, NEW t \in Threads, SetNodesGauge(t) \/ SetTasksGauge(t)
    PROVE  LockedInv'
  <1> USE DEF LockedInv, SetNodesGauge, SetTasksGauge, Goto
  <1>1. /\ pc \in [Threads -> Places] /\ pc' \in [Threads -> Places]
        /\ UNCHANGED <<nodes, sinceTick, regs, op, out, sweep, profile>>
    BY DEF LockedTypeOK, Places, Holding
  <1>2. RegistryTypeOK'
    BY <1>1, DomainFinite, TotalTasksType DEF LockedTypeOK, RegistryTypeOK
  <1>3. LockedTypeOK'
    BY <1>1, <1>2 DEF LockedTypeOK
  <1>4. Mutex' /\ CallsFit' /\ SweepFits'
    BY <1>1, CleanerIsThread DEF Mutex, Announced, Holding, CallsFit, SweepFits
  <1>5. CopiesFit' /\ CopiesAreCurrent'
    BY <1>1 DEF CopiesFit, CopiesAreCurrent, Summary
  <1>6. NodesGaugeLagsOnlyInside'
    BY <1>1 DEF NodesGaugeLagsOnlyInside
  <1> QED
    BY <1>3, <1>4, <1>5, <1>6

\* One entry is copied, while no writer can change it.
LEMMA CopyStep ==
    ASSUME LockedInv, NEW t \in Threads, NEW n \in Nodes, Copy(t, n)
    PROVE  LockedInv'
  <1> USE DEF LockedInv, Copy
  <1>1. UNCHANGED <<nodes, registeredNodes, tasksRunning, sinceTick, regs, pc, op, sweep, profile>>
    BY DEF registryVars
  <1>2. LockedTypeOK' /\ Mutex' /\ CallsFit' /\ SweepFits' /\ NodesGaugeLagsOnlyInside'
    BY <1>1 DEF LockedTypeOK, RegistryTypeOK, Mutex, Announced, CallsFit, SweepFits,
                NodesGaugeLagsOnlyInside
  <1>3. CopiesFit'
    BY <1>1 DEF CopiesFit, LockedTypeOK
  <1>4. n \in DOMAIN nodes
    BY DEF Wanted
  <1>5. CopiesAreCurrent'
    BY <1>1, <1>4 DEF CopiesAreCurrent, Summary, Put, LockedTypeOK
  <1> QED
    BY <1>2, <1>3, <1>5

LEMMA TimeStep ==
    ASSUME LockedInv, LockedTick
    PROVE  LockedInv'
  <1> USE BoundsAssumption DEF LockedInv, LockedTick, Tick
  <1>1. UNCHANGED <<pc, op, out, sweep, profile, registeredNodes, tasksRunning, regs>>
    BY DEF lockVars
  <1>2. /\ DOMAIN nodes' = DOMAIN nodes
        /\ \A n \in DOMAIN nodes : nodes'[n].connID = nodes[n].connID
    BY DEF LockedTypeOK, RegistryTypeOK, NodeInfo
  <1>3. RegistryTypeOK'
    BY <1>1 DEF LockedTypeOK, RegistryTypeOK, NodeInfo
  <1>4. LockedTypeOK' /\ Mutex' /\ SweepFits' /\ CopiesFit' /\ NodesGaugeLagsOnlyInside'
    BY <1>1, <1>2, <1>3 DEF LockedTypeOK, Mutex, Announced, SweepFits, CopiesFit,
                            NodesGaugeLagsOnlyInside
  <1>5. CallsFit'
    BY <1>1 DEF CallsFit
  <1>6. CopiesAreCurrent'
    BY <1>1, <1>2 DEF CopiesAreCurrent, Summary
  <1> QED
    BY <1>4, <1>5, <1>6

-----------------------------------------------------------------------------
(* The bound on registrations.                                             *)

LEMMA BudgetKept ==
    ASSUME RegistryTypeOK, Budget, regs' = regs,
           \A n \in Nodes : RegistersUnderWay(n)' \subseteq RegistersUnderWay(n)
    PROVE  Budget'
  <1> SUFFICES ASSUME NEW n \in Nodes
               PROVE  regs'[n] + Cardinality(RegistersUnderWay(n)') <= MaxRegs
    BY DEF Budget
  <1>1. /\ Cardinality(RegistersUnderWay(n)') <= Cardinality(RegistersUnderWay(n))
        /\ Cardinality(RegistersUnderWay(n)') \in Nat
    BY UnderWayFinite, FS_Subset, FS_CardinalityType
  <1>2. regs[n] \in Nat /\ regs[n] + Cardinality(RegistersUnderWay(n)) <= MaxRegs
    BY BoundsAssumption DEF RegistryTypeOK, Budget
  <1> QED
    BY <1>1, <1>2, UnderWayFinite, BoundsAssumption

LEMMA CallBudget ==
    ASSUME LockedInv, Budget, NEW t \in Handlers, NEW o \in WriteCalls, CallWrite(t, o)
    PROVE  Budget'
  <1> USE DEF CallWrite, Call, Goto, RegistersUnderWay, LockedInv, LockedTypeOK, Threads
  <1>0. regs' = regs
    BY DEF registryVars
  <1>1. CASE o.kind # "Register"
    <2>1. \A n \in Nodes : RegistersUnderWay(n)' \subseteq RegistersUnderWay(n)
      BY <1>1
    <2> QED
      BY <1>0, <2>1, BudgetKept
  <1>2. CASE o.kind = "Register"
    <2> SUFFICES ASSUME NEW n \in Nodes
                 PROVE  regs'[n] + Cardinality(RegistersUnderWay(n)') <= MaxRegs
      BY DEF Budget
    <2>1. CASE n = o.node
      <3>1. RegistersUnderWay(n)' = RegistersUnderWay(n) \cup {t} /\ t \notin RegistersUnderWay(n)
        BY <1>2, <2>1
      <3> HIDE DEF RegistersUnderWay
      <3>2. Cardinality(RegistersUnderWay(n)') = Cardinality(RegistersUnderWay(n)) + 1
        BY <3>1, UnderWayFinite, FS_AddElement
      <3>3. regs[n] \in Nat /\ regs[n] + Cardinality(RegistersUnderWay(n)) < MaxRegs
        BY <1>2, <2>1, BoundsAssumption DEF RegistryTypeOK
      <3> QED
        BY <1>0, <3>2, <3>3, UnderWayFinite, BoundsAssumption
    <2>2. CASE n # o.node
      <3>1. RegistersUnderWay(n)' = RegistersUnderWay(n)
        BY <1>2, <2>2
      <3> HIDE DEF RegistersUnderWay
      <3> QED
        BY <1>0, <3>1 DEF Budget
    <2> QED
      BY <2>1, <2>2
  <1> QED
    BY <1>1, <1>2

LEMMA RegisterBudget ==
    ASSUME LockedInv, Budget, NEW t \in Threads, StoreRegister(t)
    PROVE  Budget'
  <1> USE DEF StoreRegister, Goto, RegistersUnderWay, LockedInv, LockedTypeOK
  <1> SUFFICES ASSUME NEW n \in Nodes
               PROVE  regs'[n] + Cardinality(RegistersUnderWay(n)') <= MaxRegs
    BY DEF Budget
  <1>1. /\ regs \in [Nodes -> 0..MaxRegs]
        /\ regs[n] + Cardinality(RegistersUnderWay(n)) <= MaxRegs
    BY DEF RegistryTypeOK, Budget
  <1>2. CASE n = op[t].node
    <2>1. RegistersUnderWay(n)' = RegistersUnderWay(n) \ {t} /\ t \in RegistersUnderWay(n)
      BY <1>2
    <2>2. regs'[n] = regs[n] + 1
      BY <1>1, <1>2
    <2> HIDE DEF RegistersUnderWay
    <2>3. Cardinality(RegistersUnderWay(n)') = Cardinality(RegistersUnderWay(n)) - 1
      BY <2>1, UnderWayFinite, FS_RemoveElement
    <2> QED
      BY <1>1, <2>2, <2>3, UnderWayFinite, BoundsAssumption
  <1>3. CASE n # op[t].node
    <2>1. RegistersUnderWay(n)' = RegistersUnderWay(n) /\ regs'[n] = regs[n]
      BY <1>1, <1>3
    <2> HIDE DEF RegistersUnderWay
    <2> QED
      BY <1>1, <2>1
  <1> QED
    BY <1>2, <1>3

\* Every step keeps the invariant and the bound.
LEMMA LockedInvStep ==
    ASSUME LockedInv, Budget, [LockedNext]_lockedVars
    PROVE  LockedInv' /\ Budget'
  <1>0. ASSUME regs' = regs,
               \A n \in Nodes : RegistersUnderWay(n)' \subseteq RegistersUnderWay(n)
        PROVE  Budget'
    BY <1>0, BudgetKept DEF LockedInv, LockedTypeOK
  <1>a. pc \in [Threads -> Places] /\ DOMAIN op = Threads
    BY DEF LockedInv, LockedTypeOK
  <1>b. Handlers \subseteq Threads \ {Cleaner} /\ Readers \subseteq Threads \ {Cleaner}
    BY ThreadsAssumption DEF Threads
  <1>1. ASSUME NEW t \in Handlers, NEW o \in WriteCalls, CallWrite(t, o)
        PROVE  LockedInv' /\ Budget'
    BY <1>b, <1>1, CallStep, CallBudget DEF CallWrite
  <1>2. ASSUME NEW t \in Handlers, NEW o \in ReadCalls, CallConnectionID(t, o)
        PROVE  LockedInv' /\ Budget'
    <2>1. LockedInv'
      BY <1>b, <1>2, CallStep DEF CallConnectionID
    <2>2. Budget'
      BY <1>0, <1>a, <1>2 DEF CallConnectionID, Call, Goto, RegistersUnderWay, registryVars
    <2> QED
      BY <2>1, <2>2
  <1>3. ASSUME NEW t \in Readers, CallGetAll(t)
        PROVE  LockedInv' /\ Budget'
    <2>1. LockedInv'
      BY <1>b, <1>3, CallStep DEF CallGetAll
    <2>2. Budget'
      BY <1>0, <1>a, <1>3 DEF CallGetAll, Call, Goto, RegistersUnderWay, registryVars
    <2> QED
      BY <2>1, <2>2
  <1>4. ASSUME CallCleanup PROVE LockedInv' /\ Budget'
    <2>1. LockedInv'
      BY <1>4, CleanerIsThread, CallStep DEF CallCleanup
    <2>2. Budget'
      BY <1>0, <1>a, <1>4
         DEF CallCleanup, CleanupCall, Call, Goto, RegistersUnderWay, registryVars
    <2> QED
      BY <2>1, <2>2
  <1>5. ASSUME NEW t \in Threads,
               Lock(t) \/ Drained(t) \/ RLock(t) \/ NoMatch(t) \/ RUnlock(t) \/ Unlock(t)
        PROVE  LockedInv' /\ Budget'
    <2>1. regs' = regs
      BY <1>5 DEF Lock, Drained, RLock, NoMatch, RUnlock, Unlock, registryVars
    <2>2. ASSUME NEW n \in Nodes, NEW u \in RegistersUnderWay(n)'
          PROVE  u \in RegistersUnderWay(n)
      BY <1>a, <1>5, <2>2
         DEF Lock, Drained, RLock, NoMatch, RUnlock, Unlock, Goto, RegistersUnderWay, NoOp
    <2> QED
      BY <1>0, <1>5, <2>1, <2>2, LockStep
  <1>6. ASSUME NEW t \in Threads, StoreRegister(t) PROVE LockedInv' /\ Budget'
    BY <1>6, RegisterStep, RegisterBudget
  <1>7. ASSUME NEW t \in Threads, StoreHeartbeat(t) PROVE LockedInv' /\ Budget'
    BY <1>0, <1>a, <1>7, HeartbeatStep DEF StoreHeartbeat, Goto, RegistersUnderWay
  <1>8. ASSUME NEW t \in Threads, Delete(t) PROVE LockedInv' /\ Budget'
    BY <1>0, <1>a, <1>8, DeleteStep DEF Delete, Goto, RegistersUnderWay
  <1>9. ASSUME NEW t \in Threads, SetNodesGauge(t) \/ SetTasksGauge(t)
        PROVE  LockedInv' /\ Budget'
    BY <1>0, <1>a, <1>9, GaugeStep DEF SetNodesGauge, SetTasksGauge, Goto, RegistersUnderWay
  <1>10. ASSUME NEW t \in Threads, NEW n \in Nodes, Copy(t, n) PROVE LockedInv' /\ Budget'
    BY <1>0, <1>a, <1>10, CopyStep DEF Copy, RegistersUnderWay, registryVars
  <1>11. ASSUME CleanupNow PROVE LockedInv' /\ Budget'
    BY <1>0, <1>a, <1>11, CleanupNowStep DEF CleanupNow, Goto, RegistersUnderWay
  <1>12. ASSUME NEW n \in Nodes, CleanupDelete(n) PROVE LockedInv' /\ Budget'
    BY <1>0, <1>a, <1>12, CleanupDeleteStep DEF CleanupDelete, Goto, RegistersUnderWay
  <1>13. ASSUME LockedTick PROVE LockedInv' /\ Budget'
    BY <1>0, <1>13, TimeStep DEF LockedTick, Tick, lockVars, RegistersUnderWay
  <1>14. ASSUME UNCHANGED lockedVars PROVE LockedInv' /\ Budget'
    <2>1. LockedInv'
      BY <1>14 DEF lockedVars, lockVars, registryVars, LockedInv, LockedTypeOK,
             RegistryTypeOK, Mutex, Announced, CallsFit, SweepFits, CopiesFit,
             CopiesAreCurrent, Summary, NodesGaugeLagsOnlyInside
    <2>2. Budget'
      BY <1>0, <1>14 DEF lockedVars, lockVars, registryVars, RegistersUnderWay
    <2> QED
      BY <2>1, <2>2
  <1> QED
    BY <1>1, <1>2, <1>3, <1>4, <1>5, <1>6, <1>7, <1>8, <1>9, <1>10, <1>11, <1>12,
       <1>13, <1>14 DEF LockedNext, Inside, InsideCleanup

LEMMA LockedInvariant == LockedSpec => [](LockedInv /\ Budget)
  <1>1. LockedInit => Budget
    <2> SUFFICES ASSUME LockedInit PROVE Budget
      OBVIOUS
    <2>1. \A n \in Nodes : RegistersUnderWay(n) = {} /\ regs[n] = 0
      BY DEF LockedInit, RegistryInit, RegistersUnderWay
    <2> QED
      BY <2>1, FS_EmptySet, BoundsAssumption DEF Budget
  <1> QED
    BY <1>1, LockedInvInit, LockedInvStep, PTL DEF LockedSpec

\* Every reachable state of the registry under its lock is well typed.
THEOREM LockedTypeCorrect == LockedSpec => []LockedTypeOK
  <1>1. LockedInv => LockedTypeOK
    BY DEF LockedInv
  <1> QED
    BY <1>1, LockedInvariant, PTL

\* What a GetAll or a ConnectionID has copied stays what the registry holds
\* until it returns.
THEOREM CopiesStayCurrent == LockedSpec => []CopiesAreCurrent
  <1>1. LockedInv => CopiesAreCurrent
    BY DEF LockedInv
  <1> QED
    BY <1>1, LockedInvariant, PTL

\* A scrape, which takes no lock, finds the node gauge exact unless a method
\* is between its store and its gauge.
THEOREM NodesGaugeLags == LockedSpec => []NodesGaugeLagsOnlyInside
  <1>1. LockedInv => NodesGaugeLagsOnlyInside
    BY DEF LockedInv
  <1> QED
    BY <1>1, LockedInvariant, PTL

-----------------------------------------------------------------------------
(* Refinement: the registry under its lock implements NodeRegistry.        *)

\* Somebody is between a store and the task gauge it is about to set.
TasksBehind ==
    \E t \in Threads : \/ pc[t] \in {"sweep", "tasksGauge"}
                       \/ pc[t] = "nodesGauge" /\ op[t].kind # "Register"

\* The mapping, read under the lock's protection: outside the deletion loop
\* the map is settled; the node gauge always comes to the size of the map; the
\* holder of the lock is the only one who can owe the task gauge an update.
Settled ==
    /\ sweep = {} => SettledNodes = nodes
    /\ SettledRegistered = Cardinality(DOMAIN SettledNodes)
    /\ SettledTasks = IF TasksBehind THEN totalTasksLocked(SettledNodes) ELSE tasksRunning
    /\ \A t \in Threads :
         pc[t] \in Holding =>
           (TasksBehind <=> \/ pc[t] \in {"sweep", "tasksGauge"}
                            \/ pc[t] = "nodesGauge" /\ op[t].kind # "Register")

LEMMA SettledNow == LockedInv => Settled
  <1> SUFFICES ASSUME LockedInv PROVE Settled
    OBVIOUS
  <1>1. sweep = {} => SettledNodes = nodes
    BY DEF LockedInv, LockedTypeOK, RegistryTypeOK, SettledNodes, Without
  <1>2. SettledRegistered = Cardinality(DOMAIN SettledNodes)
    <2>1. CASE \E t \in Threads : pc[t] \in {"sweep", "nodesGauge"}
      BY <2>1 DEF SettledRegistered
    <2>2. CASE \A t \in Threads : pc[t] \notin {"sweep", "nodesGauge"}
      <3>1. sweep = {}
        BY <2>2, CleanerIsThread DEF LockedInv, SweepFits
      <3> QED
        BY <1>1, <2>2, <3>1 DEF LockedInv, NodesGaugeLagsOnlyInside, SettledRegistered
    <2> QED
      BY <2>1, <2>2
  <1>3. SettledTasks = IF TasksBehind THEN totalTasksLocked(SettledNodes) ELSE tasksRunning
    BY DEF SettledTasks, TasksBehind
  <1>4. ASSUME NEW t \in Threads, pc[t] \in Holding
        PROVE  TasksBehind <=> \/ pc[t] \in {"sweep", "tasksGauge"}
                               \/ pc[t] = "nodesGauge" /\ op[t].kind # "Register"
    BY <1>4, NobodyReads DEF TasksBehind, Announced, Holding
  <1> QED
    BY <1>1, <1>2, <1>3, <1>4 DEF Settled

LEMMA SettledNext == LockedInv' => Settled'
  BY SettledNow, PTL

\* A step that moves goroutines only between places where nothing is owed to
\* a gauge, and leaves the registry alone, is a stutter.
LEMMA QuietStep ==
    ASSUME LockedInv, LockedInv', UNCHANGED <<registryVars, sweep>>,
           TasksBehind' <=> TasksBehind
    PROVE  UNCHANGED <<SettledNodes, SettledRegistered, SettledTasks, sinceTick, regs>>
  <1>0. Settled /\ Settled'
    BY SettledNow, SettledNext
  <1>1. SettledNodes' = SettledNodes
    BY DEF SettledNodes, registryVars
  <1>2. SettledRegistered' = SettledRegistered
    BY <1>1, <1>0 DEF Settled
  <1>3. SettledTasks' = SettledTasks
    BY <1>1, <1>0 DEF Settled, registryVars, totalTasksLocked
  <1> QED
    BY <1>1, <1>2, <1>3 DEF registryVars

\* The instance counts as this module does.
LEMMA SameCardinality == \A S : R!Cardinality(S) = Cardinality(S)
  BY DEF R!Cardinality, Cardinality

LEMMA AtomicRegister ==
    ASSUME LockedInv, LockedInv', Budget, NEW t \in Threads, StoreRegister(t)
    PROVE  R!Register(op[t].node)
  <1> USE DEF StoreRegister
  <1> DEFINE n == op[t].node
  <1>0. Settled /\ Settled'
    BY SettledNow, SettledNext
  <1>1. sweep = {} /\ sweep' = {}
    BY NothingToSweep DEF Holding
  <1>2. SettledNodes = nodes /\ SettledNodes' = nodes'
    BY <1>1, <1>0 DEF Settled
  <1>3. n \in Nodes /\ t \in RegistersUnderWay(n)
    BY WriterCall, CallFields DEF LockedInv, CleanupCall, RegistersUnderWay
  <1>4. regs[n] < MaxRegs
    BY <1>3, BudgetLeft DEF LockedInv, LockedTypeOK
  <1>5. pc'[t] = "nodesGauge" /\ op'[t].kind = "Register"
    BY DEF LockedInv, LockedTypeOK, Goto
  <1>6. ~TasksBehind /\ ~TasksBehind'
    BY <1>5, <1>0 DEF Settled, Holding
  <1>7. SettledTasks' = SettledTasks
    BY <1>6, <1>0 DEF Settled
  <1>8. SettledRegistered' = Cardinality(DOMAIN SettledNodes')
    BY <1>0 DEF Settled
  <1> QED
    BY <1>2, <1>4, <1>7, <1>8, SameCardinality
       DEF R!Register, R!Put, R!NextConnID, R!Registered, Put, NextConnID, Registered

LEMMA AtomicHeartbeat ==
    ASSUME LockedInv, LockedInv', NEW t \in Threads, StoreHeartbeat(t)
    PROVE  R!UpdateHeartbeat(op[t].node, op[t].tasks)
  <1> USE DEF StoreHeartbeat
  <1>0. Settled /\ Settled'
    BY SettledNow, SettledNext
  <1>1. sweep = {} /\ sweep' = {}
    BY NothingToSweep DEF Holding
  <1>2. SettledNodes = nodes /\ SettledNodes' = nodes'
    BY <1>1, <1>0 DEF Settled
  <1>3. pc'[t] = "tasksGauge"
    BY DEF LockedInv, LockedTypeOK, Goto
  <1>4. TasksBehind'
    BY <1>3 DEF TasksBehind
  <1>5. SettledTasks' = totalTasksLocked(SettledNodes')
    BY <1>4, <1>0 DEF Settled, totalTasksLocked, RunningTasks
  <1>6. DOMAIN nodes' = DOMAIN nodes
    OBVIOUS
  <1>7. SettledRegistered' = SettledRegistered
    BY <1>2, <1>6, <1>0 DEF Settled
  <1> QED
    BY <1>2, <1>5, <1>7, SameCardinality
       DEF R!UpdateHeartbeat, R!Registered, R!totalTasksLocked, R!RunningTasks,
           Registered, totalTasksLocked, RunningTasks

LEMMA AtomicRemove ==
    ASSUME LockedInv, LockedInv', NEW t \in Threads, Delete(t)
    PROVE  R!Remove(op[t].node)
  <1> USE DEF Delete
  <1>0. Settled /\ Settled'
    BY SettledNow, SettledNext
  <1>1. sweep = {} /\ sweep' = {}
    BY NothingToSweep DEF Holding
  <1>2. SettledNodes = nodes /\ SettledNodes' = nodes'
    BY <1>1, <1>0 DEF Settled
  <1>3. pc'[t] = "nodesGauge" /\ op'[t].kind # "Register"
    BY DEF LockedInv, LockedTypeOK, Goto, Removes
  <1>4. TasksBehind'
    BY <1>3 DEF TasksBehind
  <1>5. SettledTasks' = totalTasksLocked(SettledNodes')
    BY <1>4, <1>0 DEF Settled, totalTasksLocked, RunningTasks
  <1>6. SettledRegistered' = Cardinality(DOMAIN SettledNodes')
    BY <1>0 DEF Settled
  <1> QED
    BY <1>2, <1>5, <1>6, SameCardinality
       DEF R!Remove, R!Without, R!totalTasksLocked, R!RunningTasks,
           Without, totalTasksLocked, RunningTasks

LEMMA AtomicCleanup ==
    ASSUME LockedInv, LockedInv', CleanupNow
    PROVE  R!StaleNodeCleanup
  <1> USE DEF CleanupNow
  <1>0. Settled /\ Settled'
    BY SettledNow, SettledNext
  <1>1. sweep = {} /\ sinceTick = CleanupPeriod
    BY CleanerIsThread, NothingToSweep DEF Holding, LockedInv, CallsFit
  <1>2. SettledNodes = nodes /\ SettledNodes' = Without(nodes, StaleNodes)
    BY <1>1, <1>0 DEF Settled, SettledNodes
  <1>3. SettledRegistered' = Cardinality(DOMAIN SettledNodes')
    BY <1>0 DEF Settled
  <1>4. R!StaleNodes = StaleNodes
    BY <1>2 DEF R!StaleNodes, StaleNodes
  <1>5. CASE StaleNodes # {}
    <2>1. pc'[Cleaner] = "sweep"
      BY <1>5, CleanerIsThread DEF LockedInv, LockedTypeOK, Goto
    <2>2. TasksBehind'
      BY <2>1, CleanerIsThread DEF TasksBehind
    <2>3. SettledTasks' = totalTasksLocked(SettledNodes')
      BY <2>2, <1>0 DEF Settled, totalTasksLocked, RunningTasks
    <2> QED
      BY <1>1, <1>2, <1>3, <1>4, <1>5, <2>3, SameCardinality
         DEF R!StaleNodeCleanup, R!Without, Without, R!totalTasksLocked, R!RunningTasks,
             totalTasksLocked, RunningTasks
  <1>6. CASE StaleNodes = {}
    <2>1. pc'[Cleaner] = "unlock"
      BY <1>6, CleanerIsThread DEF LockedInv, LockedTypeOK, Goto
    <2>2. ~TasksBehind /\ ~TasksBehind'
      BY <2>1, CleanerIsThread, <1>0 DEF Settled, Holding
    <2>3. SettledTasks' = SettledTasks
      BY <2>2, <1>0 DEF Settled
    <2>4. SettledNodes' = SettledNodes
      BY <1>1, <1>6 DEF SettledNodes
    <2>5. SettledRegistered' = SettledRegistered
      BY <1>3, <2>4, <1>0 DEF Settled
    <2> QED
      BY <1>1, <1>2, <1>4, <1>6, <2>3, <2>5 DEF R!StaleNodeCleanup, R!Without, Without
  <1> QED
    BY <1>5, <1>6

\* The deletions of a cleanup, one by one, change nothing any more.
LEMMA QuietDeletion ==
    ASSUME LockedInv, LockedInv', NEW n \in Nodes, CleanupDelete(n)
    PROVE  UNCHANGED <<SettledNodes, SettledRegistered, SettledTasks, sinceTick, regs>>
  <1> USE DEF CleanupDelete
  <1>0. Settled /\ Settled'
    BY SettledNow, SettledNext
  <1>1. SettledNodes' = SettledNodes
    BY DEF SettledNodes, Without
  <1>2. TasksBehind
    BY CleanerIsThread DEF TasksBehind
  <1>3. /\ pc'[Cleaner] \in {"sweep", "nodesGauge"}
        /\ op'[Cleaner].kind # "Register"
    BY CleanerIsThread
       DEF LockedInv, LockedTypeOK, Goto, CallsFit, NoOp, CleanupCall
  <1>4. TasksBehind'
    BY <1>3, CleanerIsThread DEF TasksBehind
  <1>5. SettledTasks' = SettledTasks
    BY <1>1, <1>2, <1>4, <1>0 DEF Settled, totalTasksLocked, RunningTasks
  <1> QED
    BY <1>1, <1>5, <1>0 DEF Settled

\* Setting a gauge brings it to the value it was already taken to have.
LEMMA QuietGauge ==
    ASSUME LockedInv, LockedInv', NEW t \in Threads, SetNodesGauge(t) \/ SetTasksGauge(t)
    PROVE  UNCHANGED <<SettledNodes, SettledRegistered, SettledTasks, sinceTick, regs>>
  <1> USE DEF SetNodesGauge, SetTasksGauge
  <1>0. Settled /\ Settled'
    BY SettledNow, SettledNext
  <1>1. /\ sweep = {} /\ pc[t] \in Holding
        /\ UNCHANGED <<nodes, sinceTick, regs, op, sweep>>
    BY NothingToSweep DEF Holding
  <1>2. SettledNodes' = SettledNodes /\ SettledNodes = nodes
    BY <1>1, <1>0 DEF Settled, SettledNodes
  <1>3. SettledRegistered' = SettledRegistered
    BY <1>2, <1>0 DEF Settled
  <1>4. CASE SetNodesGauge(t)
    <2>1. pc'[t] = IF op[t].kind = "Register" THEN "unlock" ELSE "tasksGauge"
      BY <1>4 DEF LockedInv, LockedTypeOK, Goto
    <2>2. TasksBehind' <=> TasksBehind
      BY <1>1, <1>4, <2>1, <1>0 DEF Settled, Holding
    <2>3. SettledTasks' = SettledTasks
      BY <1>2, <1>4, <2>2, <1>0 DEF Settled, totalTasksLocked, RunningTasks
    <2> QED
      BY <1>1, <1>2, <1>3, <2>3
  <1>5. CASE SetTasksGauge(t)
    <2>1. pc'[t] = "unlock"
      BY <1>5 DEF LockedInv, LockedTypeOK, Goto
    <2>2. TasksBehind /\ ~TasksBehind'
      BY <1>1, <1>5, <2>1, <1>0 DEF Settled, Holding
    <2>3. SettledTasks' = SettledTasks
      BY <1>2, <1>5, <2>2, <1>0 DEF Settled, totalTasksLocked, RunningTasks
    <2> QED
      BY <1>1, <1>2, <1>3, <2>3
  <1> QED
    BY <1>4, <1>5

LEMMA AtomicTick ==
    ASSUME LockedInv, LockedInv', LockedTick
    PROVE  R!Tick
  <1> USE DEF LockedTick, Tick
  <1>0. Settled /\ Settled'
    BY SettledNow, SettledNext
  <1>1. UNCHANGED <<pc, op, sweep, tasksRunning, regs>>
    BY DEF lockVars
  <1>2. /\ DOMAIN nodes' = DOMAIN nodes
        /\ \A n \in DOMAIN nodes : nodes'[n].tasks = nodes[n].tasks
    BY DEF LockedInv, LockedTypeOK, RegistryTypeOK, NodeInfo
  <1>3. /\ DOMAIN SettledNodes' = DOMAIN SettledNodes
        /\ SettledNodes' = [n \in DOMAIN SettledNodes |->
                              [SettledNodes[n] EXCEPT !.age = @ + 1]]
    BY <1>1 DEF SettledNodes, Without
  <1>4. RunningTasks(SettledNodes') = RunningTasks(SettledNodes)
    BY <1>1, <1>2 DEF RunningTasks, SettledNodes, Without
  <1>5. SettledTasks' = SettledTasks
    BY <1>1, <1>4, <1>0 DEF Settled, TasksBehind, totalTasksLocked
  <1>6. SettledRegistered' = SettledRegistered
    BY <1>3, <1>0 DEF Settled
  <1> QED
    BY <1>1, <1>3, <1>5, <1>6 DEF R!Tick

LEMMA AtomicStep ==
    ASSUME LockedInv, LockedInv', Budget, [LockedNext]_lockedVars
    PROVE  [R!RegistryNext]_<<SettledNodes, SettledRegistered, SettledTasks, sinceTick, regs>>
  <1> DEFINE settled == <<SettledNodes, SettledRegistered, SettledTasks, sinceTick, regs>>
  <1> SUFFICES R!RegistryNext \/ UNCHANGED settled
    OBVIOUS
  <1>a. pc \in [Threads -> Places] /\ DOMAIN op = Threads
    BY DEF LockedInv, LockedTypeOK
  <1>1. ASSUME NEW t \in Threads, NEW o, NEW l \in {"lock", "rlock"}, Call(t, o, l)
        PROVE  UNCHANGED settled
    <2>1. TasksBehind' <=> TasksBehind
      BY <1>a, <1>1 DEF Call, Goto, TasksBehind
    <2> QED
      BY <1>1, <2>1, QuietStep DEF Call
  <1>2. ASSUME NEW t \in Threads,
               Lock(t) \/ Drained(t) \/ RLock(t) \/ NoMatch(t) \/ RUnlock(t) \/ Unlock(t)
        PROVE  UNCHANGED settled
    <2>1. TasksBehind' <=> TasksBehind
      BY <1>a, <1>2
         DEF Lock, Drained, RLock, NoMatch, RUnlock, Unlock, Goto, TasksBehind
    <2> QED
      BY <1>2, <2>1, QuietStep DEF Lock, Drained, RLock, NoMatch, RUnlock, Unlock
  <1>3. ASSUME NEW t \in Threads, StoreRegister(t) PROVE R!RegistryNext
    <2>1. op[t].node \in Nodes
      BY <1>3, WriterCall, CallFields DEF LockedInv, CleanupCall, StoreRegister
    <2> QED
      BY <1>3, <2>1, AtomicRegister DEF R!RegistryNext
  <1>4. ASSUME NEW t \in Threads, StoreHeartbeat(t) PROVE R!RegistryNext
    <2>1. op[t].node \in Nodes /\ op[t].tasks \in R!TaskLists(MaxTasks)
      BY <1>4, WriterCall, CallFields
         DEF LockedInv, CleanupCall, StoreHeartbeat, TaskLists, R!TaskLists
    <2> QED
      BY <1>4, <2>1, AtomicHeartbeat DEF R!RegistryNext
  <1>5. ASSUME NEW t \in Threads, Delete(t) PROVE R!RegistryNext
    <2>1. op[t].node \in Nodes
      BY <1>5, WriterCall, CallFields DEF LockedInv, CleanupCall, Delete, Removes
    <2> QED
      BY <1>5, <2>1, AtomicRemove DEF R!RegistryNext
  <1>6. ASSUME NEW t \in Threads, SetNodesGauge(t) \/ SetTasksGauge(t)
        PROVE  UNCHANGED settled
    BY <1>6, QuietGauge
  <1>7. ASSUME NEW t \in Threads, NEW n \in Nodes, Copy(t, n)
        PROVE  UNCHANGED settled
    BY <1>7, QuietStep DEF Copy, TasksBehind
  <1>8. ASSUME CleanupNow PROVE R!RegistryNext
    BY <1>8, AtomicCleanup DEF R!RegistryNext
  <1>9. ASSUME NEW n \in Nodes, CleanupDelete(n) PROVE UNCHANGED settled
    BY <1>9, QuietDeletion
  <1>10. ASSUME LockedTick PROVE R!RegistryNext
    BY <1>10, AtomicTick DEF R!RegistryNext
  <1>11. ASSUME UNCHANGED lockedVars PROVE UNCHANGED settled
    BY <1>11, QuietStep DEF lockedVars, lockVars, TasksBehind
  <1>12. Handlers \cup Readers \cup {Cleaner} = Threads
    BY DEF Threads
  <1> QED
    BY <1>1, <1>2, <1>3, <1>4, <1>5, <1>6, <1>7, <1>8, <1>9, <1>10, <1>11, <1>12
       DEF LockedNext, Inside, InsideCleanup, CallWrite, CallConnectionID, CallGetAll,
           CallCleanup

LEMMA AtomicInit == LockedInit => R!RegistryInit
  <1> SUFFICES ASSUME LockedInit PROVE R!RegistryInit
    OBVIOUS
  <1>1. /\ nodes = NewNodeRegistry /\ DOMAIN NewNodeRegistry = {} /\ sweep = {}
        /\ registeredNodes = 0 /\ tasksRunning = 0 /\ sinceTick = 0
        /\ regs = [n \in Nodes |-> 0]
        /\ \A t \in Threads : pc[t] = "idle"
    BY DEF LockedInit, RegistryInit, NewNodeRegistry
  <1>2. SettledNodes = NewNodeRegistry
    BY <1>1 DEF SettledNodes, Without, NewNodeRegistry
  <1>3. SettledRegistered = 0 /\ SettledTasks = 0
    BY <1>1 DEF SettledRegistered, SettledTasks
  <1> QED
    BY <1>1, <1>2, <1>3 DEF R!RegistryInit, R!NewNodeRegistry, NewNodeRegistry

\* The methods of registry.go, whose stores, deletions and gauge updates are
\* steps of their own under the mutex, implement the atomic methods of
\* NodeRegistry: all that is proved of those holds of these, at the moment
\* each takes effect.
THEOREM LockMakesAtomic == LockedSpec => MethodsAreAtomic
  <1>1. LockedInv /\ Budget /\ [LockedNext]_lockedVars /\ (LockedInv /\ Budget)'
          => [R!RegistryNext]_<<SettledNodes, SettledRegistered, SettledTasks, sinceTick, regs>>
    BY AtomicStep
  <1> QED
    BY <1>1, AtomicInit, LockedInvariant, PTL
       DEF LockedSpec, MethodsAreAtomic, R!RegistrySpec, R!registryVars

-----------------------------------------------------------------------------
(* The REST API on top of it.                                              *)

\* A step of the REST API is one of the registry's, or none to it.
LEMMA RestStep == [RestNext]_restVars => [LockedNext]_lockedVars
  <1> SUFFICES ASSUME [RestNext]_restVars PROVE [LockedNext]_lockedVars
    OBVIOUS
  <1>1. Handlers \subseteq Threads /\ Readers \subseteq Threads /\ HandlerCalls \subseteq WriteCalls
    BY DEF Threads, HandlerCalls
  <1>2. ASSUME NEW t \in Handlers,
               \/ \E o \in HandlerCalls : CallWrite(t, o)
               \/ \E o \in ReadCalls : CallConnectionID(t, o)
               \/ RUnlock(t)
        PROVE  LockedNext
    BY <1>1, <1>2 DEF LockedNext
  <1>3. ASSUME \/ CallCleanup \/ InsideCleanup \/ LockedTick
               \/ \E t \in Threads : Lock(t) \/ Inside(t)
        PROVE  LockedNext
    BY <1>3 DEF LockedNext
  <1>4. ASSUME NEW t \in Readers, NEW req \in Requests,
               \/ HealthHandler(t, req) \/ Unauthorized(t, req)
               \/ MetricsHandler(t, req) \/ NodesHandler(t, req)
        PROVE  LockedNext \/ UNCHANGED lockedVars
    BY <1>4 DEF HealthHandler, Unauthorized, MetricsHandler, NodesHandler, LockedNext
  <1>5. ASSUME NEW t \in Readers, NodesReturned(t) \/ Written(t)
        PROVE  LockedNext \/ UNCHANGED lockedVars
    BY <1>1, <1>5 DEF NodesReturned, Written, LockedNext
  <1>6. CASE UNCHANGED restVars
    BY <1>6 DEF restVars
  <1> QED
    BY <1>2, <1>3, <1>4, <1>5, <1>6 DEF RestNext

\* Every behaviour of the REST API is one of the registry under its lock: what is
\* proved of that holds with any number of HTTP clients on top, however slowly
\* they read.
THEOREM RestImplementsLocked == RestSpec => LockedSpec
  <1>1. RestInit => LockedInit
    BY DEF RestInit
  <1> QED
    BY <1>1, RestStep, PTL DEF RestSpec, LockedSpec

\* A goroutine that answers a listing is in GetAll, on a request with the right
\* key; otherwise it is in no method.
Reading == {"rlock", "blocked", "copy"}

RestInv ==
    /\ DOMAIN http = Readers
    /\ \A t \in Readers :
         IF http[t].at = "listing"
         THEN op[t] = GetAllCall /\ pc[t] \in Reading /\ RequireAPIKey(http[t].req)
         ELSE pc[t] = "idle"

\* What a goroutine that is not in a method, or is in a GetAll, does not do.
LEMMA RestFrame ==
    ASSUME LockedInv, NEW t \in Readers, pc[t] \in {"idle"} \cup Reading,
           \/ \E u \in Handlers :
                \/ \E o \in HandlerCalls : CallWrite(u, o)
                \/ \E o \in ReadCalls : CallConnectionID(u, o)
                \/ RUnlock(u)
           \/ CallCleanup
           \/ \E u \in Threads : Lock(u) \/ Inside(u)
           \/ InsideCleanup
           \/ LockedTick
    PROVE  /\ op'[t] = op[t]
           /\ pc[t] = "idle" => pc'[t] = "idle"
           /\ pc[t] \in Reading => pc'[t] \in Reading
  <1> USE DEF Reading
  <1>1. /\ pc \in [Threads -> Places] /\ DOMAIN op = Threads
        /\ t \in Threads /\ Handlers \subseteq Threads /\ Cleaner \in Threads
        /\ t \notin Handlers /\ t # Cleaner
    BY ThreadsAssumption DEF LockedInv, LockedTypeOK, Threads
  <1>2. ASSUME NEW u \in Handlers, NEW o, NEW l, Call(u, o, l)
        PROVE  op'[t] = op[t] /\ pc'[t] = pc[t]
    BY <1>1, <1>2 DEF Call, Goto
  <1>3. ASSUME CallCleanup PROVE op'[t] = op[t] /\ pc'[t] = pc[t]
    BY <1>1, <1>3 DEF CallCleanup, Call, Goto
  <1>4. ASSUME NEW u \in Handlers, RUnlock(u) PROVE op'[t] = op[t] /\ pc'[t] = pc[t]
    BY <1>1, <1>4 DEF RUnlock, Goto
  <1>5. ASSUME NEW u \in Threads, Lock(u) \/ Drained(u) \/ RLock(u) \/ NoMatch(u)
                                \/ StoreRegister(u) \/ StoreHeartbeat(u) \/ Delete(u)
                                \/ SetNodesGauge(u) \/ SetTasksGauge(u)
        PROVE  /\ op'[t] = op[t]
               /\ pc[t] = "idle" => pc'[t] = "idle"
               /\ pc[t] \in Reading => pc'[t] \in Reading
    BY <1>1, <1>5 DEF Lock, Drained, RLock, NoMatch, StoreRegister, StoreHeartbeat, Delete,
                      SetNodesGauge, SetTasksGauge, Goto
  <1>6. ASSUME NEW u \in Threads, Unlock(u)
        PROVE  /\ op'[t] = op[t]
               /\ pc[t] = "idle" => pc'[t] = "idle"
               /\ pc[t] \in Reading => pc'[t] \in Reading
    <2>1. u # t
      BY <1>6 DEF Unlock
    <2> QED
      BY <1>1, <1>6, <2>1 DEF Unlock
  <1>7. ASSUME NEW u \in Threads, NEW n \in Nodes, Copy(u, n)
        PROVE  op'[t] = op[t] /\ pc'[t] = pc[t]
    BY <1>7 DEF Copy
  <1>8. ASSUME InsideCleanup PROVE op'[t] = op[t] /\ pc'[t] = pc[t]
    BY <1>1, <1>8 DEF InsideCleanup, CleanupNow, CleanupDelete, Goto
  <1>9. ASSUME LockedTick PROVE op'[t] = op[t] /\ pc'[t] = pc[t]
    BY <1>9 DEF LockedTick, lockVars
  <1> QED
    BY <1>2, <1>3, <1>4, <1>5, <1>6, <1>7, <1>8, <1>9
       DEF CallWrite, CallConnectionID, Inside

LEMMA RestInvKept ==
    ASSUME LockedInv, RestInv, [RestNext]_restVars
    PROVE  RestInv'
  <1>1. ASSUME \/ \E u \in Handlers :
                    \/ \E o \in HandlerCalls : CallWrite(u, o)
                    \/ \E o \in ReadCalls : CallConnectionID(u, o)
                    \/ RUnlock(u)
               \/ CallCleanup
               \/ \E u \in Threads : Lock(u) \/ Inside(u)
               \/ InsideCleanup
               \/ LockedTick,
               UNCHANGED http
        PROVE  RestInv'
    <2>1. ASSUME NEW t \in Readers
          PROVE  /\ op'[t] = op[t]
                 /\ pc[t] = "idle" => pc'[t] = "idle"
                 /\ pc[t] \in Reading => pc'[t] \in Reading
      <3>1. pc[t] \in {"idle"} \cup Reading
        BY DEF RestInv
      <3> QED
        BY <1>1, <3>1, RestFrame
    <2> QED
      BY <1>1, <2>1 DEF RestInv
  <1>2. ASSUME NEW t \in Readers PROVE t \in Threads /\ \A u \in Readers : u \in Threads
    BY DEF Threads
  <1>3. pc \in [Threads -> Places] /\ DOMAIN op = Threads
    BY DEF LockedInv, LockedTypeOK
  <1>4. ASSUME NEW t \in Readers, NEW status, Answer(t, status), UNCHANGED lockedVars,
               http[t].at = "none"
        PROVE  RestInv'
    <2>1. http'[t] = [at |-> "writing", status |-> status] /\ DOMAIN http' = Readers
          /\ \A u \in Readers \ {t} : http'[u] = http[u]
      BY <1>4 DEF Answer, RestInv
    <2>2. http'[t].at = "writing" /\ pc[t] = "idle" /\ pc' = pc /\ op' = op
      BY <1>4, <2>1 DEF RestInv, lockedVars, lockVars
    <2> QED
      BY <2>1, <2>2 DEF RestInv
  <1>5. ASSUME NEW t \in Readers, NEW req \in Requests, NodesHandler(t, req)
        PROVE  RestInv'
    <2>1. /\ pc' = [pc EXCEPT ![t] = "rlock"] /\ op' = [op EXCEPT ![t] = GetAllCall]
          /\ http' = [http EXCEPT ![t] = [at |-> "listing", req |-> req]]
          /\ RequireAPIKey(req)
      BY <1>5 DEF NodesHandler, CallGetAll, Call, Goto
    <2>2. /\ http'[t] = [at |-> "listing", req |-> req] /\ DOMAIN http' = Readers
          /\ \A u \in Readers \ {t} : http'[u] = http[u]
      BY <2>1 DEF RestInv
    <2>3. /\ pc'[t] = "rlock" /\ op'[t] = GetAllCall
          /\ \A u \in Readers \ {t} : pc'[u] = pc[u] /\ op'[u] = op[u]
      BY <1>2, <1>3, <2>1
    <2>4. http'[t].at = "listing" /\ http'[t].req = req
      BY <2>2
    <2> QED
      BY <2>1, <2>2, <2>3, <2>4 DEF RestInv, Reading
  <1>6. ASSUME NEW t \in Readers, NodesReturned(t)
        PROVE  RestInv'
    <2>1. /\ pc' = [pc EXCEPT ![t] = "idle"] /\ op' = [op EXCEPT ![t] = NoOp]
          /\ http' = [http EXCEPT ![t] = [at |-> "writing", status |-> 200]]
      BY <1>6 DEF NodesReturned, RUnlock, Goto, Answer
    <2>2. /\ http'[t] = [at |-> "writing", status |-> 200] /\ DOMAIN http' = Readers
          /\ \A u \in Readers \ {t} : http'[u] = http[u]
      BY <2>1 DEF RestInv
    <2>3. /\ pc'[t] = "idle"
          /\ \A u \in Readers \ {t} : pc'[u] = pc[u] /\ op'[u] = op[u]
      BY <1>2, <1>3, <2>1
    <2>4. http'[t].at = "writing"
      BY <2>2
    <2> QED
      BY <2>2, <2>3, <2>4 DEF RestInv
  <1>7. ASSUME NEW t \in Readers, Written(t)
        PROVE  RestInv'
    <2>1. /\ http[t].at = "writing" /\ pc' = pc /\ op' = op
          /\ http' = [http EXCEPT ![t] = NoRequest]
      BY <1>7 DEF Written, lockedVars, lockVars
    <2>2. /\ http'[t] = NoRequest /\ DOMAIN http' = Readers
          /\ \A u \in Readers \ {t} : http'[u] = http[u]
      BY <2>1 DEF RestInv
    <2>3. http'[t].at = "none" /\ pc[t] = "idle"
      BY <2>1, <2>2 DEF NoRequest, RestInv
    <2> QED
      BY <2>1, <2>2, <2>3 DEF RestInv
  <1>8. CASE UNCHANGED restVars
    BY <1>8 DEF restVars, lockedVars, lockVars, RestInv
  <1>9. ASSUME NEW t \in Readers, NEW req \in Requests,
               HealthHandler(t, req) \/ Unauthorized(t, req) \/ MetricsHandler(t, req)
        PROVE  RestInv'
    BY <1>4, <1>9 DEF HealthHandler, Unauthorized, MetricsHandler
  <1> QED
    BY <1>1, <1>5, <1>6, <1>7, <1>8, <1>9 DEF RestNext

LEMMA RestInvariant == RestSpec => [](LockedInv /\ RestInv)
  <1>1. RestInit => RestInv
    <2> SUFFICES ASSUME RestInit PROVE RestInv
      OBVIOUS
    <2>1. \A t \in Readers : pc[t] = "idle" /\ http[t].at = "none"
      BY DEF RestInit, LockedInit, Threads, NoRequest
    <2> QED
      BY <2>1 DEF RestInv, RestInit
  <1> QED
    BY <1>1, RestInvKept, RestImplementsLocked, LockedInvariant, PTL DEF RestSpec

\* What NodesHandler makes of an entry is what the agent registered with.
LEMMA EntryExpected ==
    ASSUME LockedInv, NEW n \in DOMAIN nodes
    PROVE  NodeResponse(n, Summary(n)) = Expected(n)
  <1> DEFINE reg == Registration[profile[n]]
             res == reg.Resources
  <1>1. res # Nil
    BY RegistrationAssumption DEF LockedInv, LockedTypeOK
  <1>2. Summary(n).profile = profile[n]
    BY DEF Summary
  <1>3. /\ Schema["CpuResources"] = CpuResources
        /\ Schema["MemoryResources"] = MemoryResources
        /\ \A type \in {"string", "int32", "uint64"} : type \notin DOMAIN Schema
    BY DEF Schema
  <1>4. ASSUME NEW num
        PROVE  Zero(Opt(num, "string")) = "" /\ Zero(Opt(num, "int32")) = 0
               /\ Zero(Opt(num, "uint64")) = 0
    BY <1>3 DEF Zero, IsMessage, Opt
  <1>5. /\ Schema["CpuResources"]["PhysicalCores"] = Opt(1, "int32")
        /\ Schema["CpuResources"]["LogicalCores"] = Opt(2, "int32")
        /\ Schema["CpuResources"]["Architecture"] = Opt(3, "string")
        /\ Schema["CpuResources"]["ModelName"] = Opt(4, "string")
        /\ Schema["MemoryResources"]["TotalBytes"] = Opt(1, "uint64")
    BY <1>3 DEF CpuResources, MemoryResources
  <1>7. /\ Zero(Schema["CpuResources"]["PhysicalCores"]) = 0
        /\ Zero(Schema["CpuResources"]["LogicalCores"]) = 0
        /\ Zero(Schema["CpuResources"]["Architecture"]) = ""
        /\ Zero(Schema["CpuResources"]["ModelName"]) = ""
        /\ Zero(Schema["MemoryResources"]["TotalBytes"]) = 0
    BY <1>4, <1>5
  <1> HIDE DEF res
  <1>8. cpuSummary(res.Cpu) =
          [PhysicalCores |-> Field(res, "Cpu", "CpuResources", "PhysicalCores"),
           LogicalCores |-> Field(res, "Cpu", "CpuResources", "LogicalCores"),
           Architecture |-> Field(res, "Cpu", "CpuResources", "Architecture"),
           Model |-> Field(res, "Cpu", "CpuResources", "ModelName")]
    <2>1. ASSUME NEW T, NEW f PROVE Field(res, "Cpu", T, f) = Get(T, res.Cpu, f)
      BY <1>1 DEF Field, Get
    <2>2. CASE res.Cpu = Nil
      BY <1>7, <2>1, <2>2 DEF cpuSummary, Get
    <2>3. CASE res.Cpu # Nil
      BY <2>1, <2>3 DEF cpuSummary, Get
    <2> QED
      BY <2>2, <2>3
  <1>9. memorySummary(res.Memory) =
          [TotalGB |-> GB(Field(res, "Memory", "MemoryResources", "TotalBytes"))]
    BY <1>1, <1>7 DEF memorySummary, Field, Get
  <1> QED
    BY <1>2, <1>8, <1>9 DEF NodeResponse, Expected, gpuSummary, res

\* Whatever the handlers, the cleanup and other clients do between the request and
\* its answer, the body of GET /api/v1/nodes is the registry at the moment GetAll
\* returns, for any number of nodes, goroutines and requests; and nobody without
\* the key gets one.
THEOREM ListingsExact == RestSpec => ListingIsRegistry
  <1>1. ASSUME LockedInv, RestInv, [RestNext]_restVars
        PROVE  [\A t \in Readers : ListsRegistry(t)]_restVars
    <2> SUFFICES ASSUME NEW t \in Readers, http[t].at = "listing", http'[t].at = "writing"
                 PROVE  /\ NodesResponse(out[t]) = {Expected(n) : n \in DOMAIN nodes}
                        /\ \/ ApiKey \in {"", http[t].req.header}
                           \/ <<http[t].req.header, http[t].req.query>> = <<"", ApiKey>>
      BY DEF ListsRegistry
    <2>1. DOMAIN http = Readers
      BY <1>1 DEF RestInv
    <2>2. http' # http
      OBVIOUS
    <2>3. ASSUME NEW u \in Readers, NEW v, http' = [http EXCEPT ![u] = v] PROVE u = t
      BY <2>1, <2>3
    <2>4. NodesReturned(t)
      <3>1. PICK u \in Readers :
              \/ \E req \in Requests :
                    \/ HealthHandler(u, req) \/ Unauthorized(u, req)
                    \/ MetricsHandler(u, req) \/ NodesHandler(u, req)
              \/ NodesReturned(u)
              \/ Written(u)
        BY <1>1, <2>2 DEF RestNext, restVars
      <3>2. u = t
        BY <2>3, <3>1 DEF HealthHandler, Unauthorized, MetricsHandler, NodesHandler,
                          NodesReturned, Written, Answer
      <3> QED
        BY <3>1, <3>2 DEF HealthHandler, Unauthorized, MetricsHandler, NodesHandler, Written
    <2>5. op[t] = GetAllCall /\ RequireAPIKey(http[t].req) /\ t \in Threads
      BY <1>1 DEF RestInv, Threads
    <2>6. DOMAIN nodes \subseteq DOMAIN out[t]
      BY <2>4, <2>5 DEF NodesReturned, RUnlock, Wanted, GetAllCall
    <2>7. /\ DOMAIN out[t] \subseteq DOMAIN nodes
          /\ \A n \in DOMAIN out[t] : out[t][n] = Summary(n)
      BY <1>1, <2>5 DEF LockedInv, CopiesAreCurrent
    <2>8. ASSUME NEW n \in DOMAIN nodes PROVE NodeResponse(n, out[t][n]) = Expected(n)
      BY <1>1, <2>6, <2>7, EntryExpected
    <2>9. NodesResponse(out[t]) = {Expected(n) : n \in DOMAIN nodes}
      BY <2>6, <2>7, <2>8 DEF NodesResponse
    <2>10. \/ ApiKey \in {"", http[t].req.header}
           \/ <<http[t].req.header, http[t].req.query>> = <<"", ApiKey>>
      BY <2>5 DEF RequireAPIKey
    <2> QED
      BY <2>9, <2>10
  <1> QED
    BY <1>1, RestInvariant, PTL DEF RestSpec, ListingIsRegistry
=============================================================================
