--------------------------- MODULE LockedRegistry ---------------------------
(***************************************************************************)
(* The registry's methods store by store, under the sync.RWMutex that      *)
(* NodeRegistry takes for granted                                          *)
(* (control-plane/internal/registry/registry.go): the goroutines that call *)
(* them, who waits for whom, and what memory looks like between the        *)
(* stores of one method.                                                   *)
(*                                                                         *)
(* A goroutine inside a method is at                                       *)
(*                                                                         *)
(*   "lock"        in Lock, behind another writer                          *)
(*   "drain"       in Lock, first in line: readers have to leave, new ones *)
(*                 have to wait                                            *)
(*   "in"          holding the lock, before its first store                *)
(*   "sweep"       in the deletion loop of the cleanup                     *)
(*   "nodesGauge"  about to set metrics.RegisteredNodes                    *)
(*   "tasksGauge"  about to set metrics.TasksRunning                       *)
(*   "unlock"      about to unlock                                         *)
(*   "rlock"       in RLock                                                *)
(*   "blocked"     in RLock, behind a writer                               *)
(*   "copy"        holding the read lock                                   *)
(*                                                                         *)
(* and at "idle" outside.  Nodes carry what the agent registered with      *)
(* (address and resources) as their profile.  One life of the process.     *)
(***************************************************************************)
EXTENDS NodeRegistry

CONSTANTS
    Handlers,       \* goroutines of gRPC handlers
    Readers,        \* goroutines of REST handlers
    Cleaner,        \* the goroutine of StaleNodeCleanup
    Profiles        \* what an agent may register with

ASSUME ThreadsAssumption ==
    /\ IsFiniteSet(Handlers)
    /\ IsFiniteSet(Readers)
    /\ Handlers \cap Readers = {}
    /\ Cleaner \notin Handlers \cup Readers

VARIABLES
    pc,             \* goroutine -> where it is
    op,             \* goroutine -> the call it is in
    out,            \* goroutine -> what it has copied: node -> [connID, profile]
    sweep,          \* nodes the running cleanup has yet to delete
    profile         \* registered node -> its profile

lockVars == <<pc, op, out, sweep, profile>>

lockedVars == <<registryVars, lockVars>>

Threads == Handlers \cup Readers \cup {Cleaner}

-----------------------------------------------------------------------------
(* Calls.                                                                  *)

NoOp == [kind |-> "none"]

WriteCalls ==
    [kind : {"Register"}, node : Nodes, profile : Profiles]
    \cup [kind : {"UpdateHeartbeat"}, node : Nodes, tasks : TaskLists(MaxTasks)]
    \cup [kind : {"Remove"}, node : Nodes]
    \cup [kind : {"RemoveIfConnectionMatches"}, node : Nodes, connID : 0..MaxRegs]

ReadCalls == [kind : {"ConnectionID"}, node : Nodes]

CleanupCall == [kind |-> "StaleNodeCleanup"]

GetAllCall == [kind |-> "GetAll"]

\* Registrations of n that are called and have not stored yet.
RegistersUnderWay(n) ==
    {t \in Threads : /\ op[t].kind = "Register" /\ op[t].node = n
                     /\ pc[t] \in {"lock", "drain", "in"}}

-----------------------------------------------------------------------------
(* The mutex, as sync.RWMutex works: writers queue for one place; the one  *)
(* that has it keeps new readers out and waits for the old ones; when it   *)
(* unlocks, the readers it kept out all get in.                            *)

Holding == {"in", "sweep", "nodesGauge", "tasksGauge", "unlock"}

Announced(t) == pc[t] \in {"drain"} \cup Holding

Goto(t, l) == pc' = [pc EXCEPT ![t] = l]

\* Mutant: writers do not wait for each other.
LockShared(t) ==
    /\ pc[t] = "lock"
    /\ Goto(t, "drain")
    /\ UNCHANGED <<registryVars, op, out, sweep, profile>>

Lock(t) ==
    /\ pc[t] = "lock"
    /\ \A u \in Threads : ~Announced(u)
    /\ Goto(t, "drain")
    /\ UNCHANGED <<registryVars, op, out, sweep, profile>>

Drained(t) ==
    /\ pc[t] = "drain"
    /\ \A u \in Threads : pc[u] # "copy"
    /\ Goto(t, "in")
    /\ UNCHANGED <<registryVars, op, out, sweep, profile>>

Unlock(t) ==
    /\ pc[t] = "unlock"
    /\ pc' = [u \in Threads |-> CASE u = t -> "idle"
                                  [] u # t /\ pc[u] = "blocked" -> "copy"
                                  [] OTHER -> pc[u]]
    /\ op' = [op EXCEPT ![t] = NoOp]
    /\ UNCHANGED <<registryVars, out, sweep, profile>>

\* Mutant: a reader does not wait for a writer.
RLockAtOnce(t) ==
    /\ pc[t] = "rlock"
    /\ Goto(t, "copy")
    /\ UNCHANGED <<registryVars, op, out, sweep, profile>>

RLock(t) ==
    /\ pc[t] = "rlock"
    /\ Goto(t, IF \E u \in Threads : Announced(u) THEN "blocked" ELSE "copy")
    /\ UNCHANGED <<registryVars, op, out, sweep, profile>>

-----------------------------------------------------------------------------
(* The methods.                                                            *)

LockedInit ==
    /\ RegistryInit
    /\ pc = [t \in Threads |-> "idle"]
    /\ op = [t \in Threads |-> NoOp]
    /\ out = [t \in Threads |-> NewNodeRegistry]
    /\ sweep = {}
    /\ profile = NewNodeRegistry

Call(t, o, l) ==
    /\ pc[t] = "idle"
    /\ Goto(t, l)
    /\ op' = [op EXCEPT ![t] = o]
    /\ UNCHANGED <<registryVars, out, sweep, profile>>

CallWrite(t, o) ==
    /\ o.kind = "Register" =>
         regs[o.node] + Cardinality(RegistersUnderWay(o.node)) < MaxRegs
    /\ Call(t, o, "lock")

CallConnectionID(t, o) == Call(t, o, "rlock")

CallGetAll(t) == Call(t, GetAllCall, "rlock")

CallCleanup == sinceTick = CleanupPeriod /\ Call(Cleaner, CleanupCall, "lock")

StoreRegister(t) ==
    /\ pc[t] = "in" /\ op[t].kind = "Register"
    /\ LET n == op[t].node
       IN  /\ nodes' = Put(nodes, n,
                [connID |-> NextConnID(n), age |-> 0, tasks |-> {},
                 born |-> IF Registered(n) THEN nodes[n].born ELSE regs[n]])
           /\ profile' = Put(profile, n, op[t].profile)
           /\ regs' = [regs EXCEPT ![n] = @ + 1]
    /\ Goto(t, "nodesGauge")
    /\ UNCHANGED <<registeredNodes, tasksRunning, sinceTick, op, out, sweep>>

StoreHeartbeat(t) ==
    /\ pc[t] = "in" /\ op[t].kind = "UpdateHeartbeat"
    /\ LET n == op[t].node
           ts == op[t].tasks
       IN  nodes' = IF Registered(n)
                    THEN [nodes EXCEPT ![n].age = 0,
                                       ![n].tasks = {ts[i] : i \in DOMAIN ts}]
                    ELSE nodes
    /\ Goto(t, "tasksGauge")
    /\ UNCHANGED <<registeredNodes, tasksRunning, sinceTick, regs, op, out, sweep, profile>>

\* Remove deletes whatever it finds; RemoveIfConnectionMatches looks first.
Removes(t) ==
    \/ op[t].kind = "Remove"
    \/ /\ op[t].kind = "RemoveIfConnectionMatches"
       /\ Registered(op[t].node)
       /\ nodes[op[t].node].connID = op[t].connID

\* Mutant: a deletion that forgets the gauges.
DeleteNoGauge(t) ==
    /\ pc[t] = "in" /\ Removes(t)
    /\ nodes' = Without(nodes, {op[t].node})
    /\ profile' = Without(profile, {op[t].node})
    /\ Goto(t, "unlock")
    /\ UNCHANGED <<registeredNodes, tasksRunning, sinceTick, regs, op, out, sweep>>

Delete(t) ==
    /\ pc[t] = "in" /\ Removes(t)
    /\ nodes' = Without(nodes, {op[t].node})
    /\ profile' = Without(profile, {op[t].node})
    /\ Goto(t, "nodesGauge")
    /\ UNCHANGED <<registeredNodes, tasksRunning, sinceTick, regs, op, out, sweep>>

NoMatch(t) ==
    /\ pc[t] = "in" /\ op[t].kind = "RemoveIfConnectionMatches" /\ ~Removes(t)
    /\ Goto(t, "unlock")
    /\ UNCHANGED <<registryVars, op, out, sweep, profile>>

\* The cleanup reads the clock: that decides which nodes go.
CleanupNow ==
    /\ pc[Cleaner] = "in"
    /\ sweep' = StaleNodes
    /\ sinceTick' = 0
    /\ Goto(Cleaner, IF StaleNodes = {} THEN "unlock" ELSE "sweep")
    /\ UNCHANGED <<nodes, registeredNodes, tasksRunning, regs, op, out, profile>>

CleanupDelete(n) ==
    /\ pc[Cleaner] = "sweep" /\ n \in sweep
    /\ nodes' = Without(nodes, {n})
    /\ profile' = Without(profile, {n})
    /\ sweep' = sweep \ {n}
    /\ Goto(Cleaner, IF sweep' = {} THEN "nodesGauge" ELSE "sweep")
    /\ UNCHANGED <<registeredNodes, tasksRunning, sinceTick, regs, op, out>>

SetNodesGauge(t) ==
    /\ pc[t] = "nodesGauge"
    /\ registeredNodes' = Cardinality(DOMAIN nodes)
    /\ Goto(t, IF op[t].kind = "Register" THEN "unlock" ELSE "tasksGauge")
    /\ UNCHANGED <<nodes, tasksRunning, sinceTick, regs, op, out, sweep, profile>>

SetTasksGauge(t) ==
    /\ pc[t] = "tasksGauge"
    /\ tasksRunning' = totalTasksLocked(nodes)
    /\ Goto(t, "unlock")
    /\ UNCHANGED <<nodes, registeredNodes, sinceTick, regs, op, out, sweep, profile>>

\* The entries a read looks at: one, or all of the map.
Wanted(t) ==
    IF op[t].kind = "GetAll" THEN DOMAIN nodes ELSE {op[t].node} \cap DOMAIN nodes

Summary(n) == [connID |-> nodes[n].connID, profile |-> profile[n]]

Copy(t, n) ==
    /\ pc[t] = "copy" /\ n \in Wanted(t) \ DOMAIN out[t]
    /\ out' = [out EXCEPT ![t] = Put(@, n, Summary(n))]
    /\ UNCHANGED <<registryVars, pc, op, sweep, profile>>

\* The read returns out[t].
RUnlock(t) ==
    /\ pc[t] = "copy" /\ Wanted(t) \subseteq DOMAIN out[t]
    /\ Goto(t, "idle")
    /\ op' = [op EXCEPT ![t] = NoOp]
    /\ out' = [out EXCEPT ![t] = NewNodeRegistry]
    /\ UNCHANGED <<registryVars, sweep, profile>>

\* One unit of time, in or out of any method.
LockedTick == Tick /\ UNCHANGED lockVars

-----------------------------------------------------------------------------
\* A step of a goroutine inside a method, waiting for the writers' place
\* aside.
Inside(t) ==
    \/ Drained(t) \/ Unlock(t) \/ RLock(t)
    \/ StoreRegister(t) \/ StoreHeartbeat(t) \/ Delete(t) \/ NoMatch(t)
    \/ SetNodesGauge(t) \/ SetTasksGauge(t)
    \/ \E n \in Nodes : Copy(t, n)

InsideCleanup == CleanupNow \/ \E n \in Nodes : CleanupDelete(n)

LockedNext ==
    \/ \E t \in Handlers : \/ \E o \in WriteCalls : CallWrite(t, o)
                           \/ \E o \in ReadCalls : CallConnectionID(t, o)
    \/ \E t \in Readers : CallGetAll(t)
    \/ CallCleanup
    \/ \E t \in Threads : Lock(t) \/ Inside(t) \/ RUnlock(t)
    \/ InsideCleanup
    \/ LockedTick

LockedSpec == LockedInit /\ [][LockedNext]_lockedVars

(* Goroutines are scheduled, and a waiter gets the writers' place: the     *)
(* mutex inside sync.RWMutex hands itself over to one that has waited for  *)
(* a millisecond.                                                          *)
LockedFairSpec ==
    /\ LockedSpec
    /\ \A t \in Threads : /\ WF_lockedVars(Inside(t))
                          /\ WF_lockedVars(RUnlock(t))
                          /\ SF_lockedVars(Lock(t))
    /\ WF_lockedVars(InsideCleanup)

-----------------------------------------------------------------------------
(* Properties.                                                             *)

Places == {"idle", "lock", "drain", "rlock", "blocked", "copy"} \cup Holding

\* Type invariant.
LockedTypeOK ==
    /\ RegistryTypeOK
    /\ pc \in [Threads -> Places]
    /\ DOMAIN op = Threads /\ DOMAIN out = Threads
    /\ sweep \subseteq DOMAIN nodes
    /\ profile \in [DOMAIN nodes -> Profiles]
    /\ \A t \in Threads : op[t] \in WriteCalls \cup ReadCalls \cup {NoOp, CleanupCall, GetAllCall}

\* What a reader has copied is still what the registry holds: no method
\* changes the map between the first and the last entry of a GetAll, and no
\* ConnectionID returns a number the map no longer has.  With all of Wanted
\* copied, a listing is the registry at one moment.
CopiesAreCurrent ==
    \A t \in Threads :
        /\ DOMAIN out[t] \subseteq DOMAIN nodes
        /\ \A n \in DOMAIN out[t] : out[t][n] = Summary(n)

\* A scrape reads the gauges without the lock.  It sees the size of the map,
\* unless the lock's holder is between its store and its gauge.
NodesGaugeLagsOnlyInside ==
    (\A t \in Threads : pc[t] \notin {"sweep", "nodesGauge"})
        => registeredNodes = Cardinality(DOMAIN nodes)

\* The map without what the running cleanup is about to delete, and the
\* gauges as the lock's holder is about to leave them.
SettledNodes == Without(nodes, sweep)

SettledRegistered ==
    IF \E t \in Threads : pc[t] \in {"sweep", "nodesGauge"}
    THEN Cardinality(DOMAIN SettledNodes) ELSE registeredNodes

SettledTasks ==
    IF \E t \in Threads : \/ pc[t] \in {"sweep", "tasksGauge"}
                          \/ pc[t] = "nodesGauge" /\ op[t].kind # "Register"
    THEN totalTasksLocked(SettledNodes) ELSE tasksRunning

R == INSTANCE NodeRegistry WITH
        nodes <- SettledNodes,
        registeredNodes <- SettledRegistered,
        tasksRunning <- SettledTasks

\* Every method takes effect at once, at its first store (the cleanup when it
\* reads the clock), although its stores, its deletions and its gauges are
\* steps of their own and time passes between them: the registry under its
\* lock implements the one whose methods are atomic.
MethodsAreAtomic == R!RegistrySpec

\* Every registration, heartbeat, removal, lookup and cleanup that calls the
\* registry returns, whoever else keeps calling it: neither the listings nor
\* the other writers keep it out for good.
CallsReturn ==
    \A t \in Handlers \cup {Cleaner} : (pc[t] # "idle") ~> (pc[t] = "idle")
=============================================================================
