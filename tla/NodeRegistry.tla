---------------------------- MODULE NodeRegistry ----------------------------
(***************************************************************************)
(* The in-memory node registry of the control plane                        *)
(* (control-plane/internal/registry/registry.go): the map of registered    *)
(* nodes behind one RWMutex, the two gauges it maintains while it holds    *)
(* the lock, and the background goroutine that expires silent nodes.       *)
(*                                                                         *)
(* Every exported method runs under the lock, so each is one action.       *)
(* A node's address and resources are left out: no decision reads them.    *)
(* Of LastBeat only its age matters.  The monotone counters                *)
(* (registrations, heartbeats, stale removals) are left out too.           *)
(***************************************************************************)
EXTENDS Naturals, FiniteSets, Sequences

CONSTANTS
    Nodes,          \* node ids that pass validation
    Tasks,          \* task ids an agent may report
    MaxTasks,       \* longest task list that passes validation
    Threshold,      \* silence after which a node is stale (30s in main.go)
    CleanupPeriod,  \* period of the cleanup ticker (10s)
    MaxRegs         \* bound of the model: registrations per node id

ASSUME NodesAssumption == IsFiniteSet(Nodes)
ASSUME TasksAssumption == IsFiniteSet(Tasks)
ASSUME BoundsAssumption ==
    /\ MaxTasks \in Nat
    /\ MaxRegs \in Nat
    /\ Threshold \in Nat
    /\ CleanupPeriod \in Nat \ {0}

VARIABLES
    nodes,            \* registered node id -> NodeInfo (the map r.nodes)
    registeredNodes,  \* gauge metrics.RegisteredNodes
    tasksRunning,     \* gauge metrics.TasksRunning
    sinceTick,        \* time since the cleanup ticker last fired
    regs              \* history: registrations of each node id so far

registryVars == <<nodes, registeredNodes, tasksRunning, sinceTick, regs>>

-----------------------------------------------------------------------------
(* Data.  The field born is history: the value of regs when the node last  *)
(* entered the map.  It names the residence the entry belongs to.          *)

NodeInfo ==
    [connID : Nat, age : Nat, tasks : SUBSET Tasks, born : Nat]

\* The task lists an agent may send: a list may name a task twice.
TaskLists(k) == UNION {[1..j -> Tasks] : j \in 0..k}

Registered(n) == n \in DOMAIN nodes

\* The maps after a store and after a deletion.
Put(f, n, info) ==
    [m \in DOMAIN f \cup {n} |-> IF m = n THEN info ELSE f[m]]

Without(f, S) == [m \in DOMAIN f \ S |-> f[m]]

NewNodeRegistry == [n \in {} |-> {}]

\* The (node, task) pairs of a map.  Two nodes may run tasks of one name.
RunningTasks(f) ==
    {p \in Nodes \X Tasks : p[1] \in DOMAIN f /\ p[2] \in f[p[1]].tasks}

totalTasksLocked(f) == Cardinality(RunningTasks(f))

\* 0 stands for "not registered".
ConnectionID(n) == IF Registered(n) THEN nodes[n].connID ELSE 0

\* Mutant: a re-registration keeps its number.
NextConnIDKept(n) == IF Registered(n) THEN nodes[n].connID ELSE 1

NextConnID(n) == IF Registered(n) THEN nodes[n].connID + 1 ELSE 1

-----------------------------------------------------------------------------
RegistryInit ==
    /\ nodes = NewNodeRegistry
    /\ registeredNodes = 0
    /\ tasksRunning = 0
    /\ sinceTick = 0
    /\ regs = [n \in Nodes |-> 0]

\* Registration of a node, or re-registration: its tasks are dropped and the
\* task gauge is not recomputed.
Register(n) ==
    /\ regs[n] < MaxRegs
    /\ nodes' = Put(nodes, n,
         [connID |-> NextConnID(n), age |-> 0, tasks |-> {},
          born |-> IF Registered(n) THEN nodes[n].born ELSE regs[n]])
    /\ regs' = [regs EXCEPT ![n] = @ + 1]
    /\ registeredNodes' = Cardinality(DOMAIN nodes')
    /\ UNCHANGED <<tasksRunning, sinceTick>>

\* Mutant: the gauge is computed before the task map is replaced.
UpdateHeartbeatGaugeFirst(n, ts) ==
    /\ nodes' = IF Registered(n)
                THEN [nodes EXCEPT ![n].age = 0,
                                   ![n].tasks = {ts[i] : i \in DOMAIN ts}]
                ELSE nodes
    /\ tasksRunning' = totalTasksLocked(nodes)
    /\ UNCHANGED <<registeredNodes, sinceTick, regs>>

\* A heartbeat for node n, whichever stream it came on.  An unknown node is
\* left unknown; the task map is keyed by task id.
UpdateHeartbeat(n, ts) ==
    /\ nodes' = IF Registered(n)
                THEN [nodes EXCEPT ![n].age = 0,
                                   ![n].tasks = {ts[i] : i \in DOMAIN ts}]
                ELSE nodes
    /\ tasksRunning' = totalTasksLocked(nodes')
    /\ UNCHANGED <<registeredNodes, sinceTick, regs>>

Remove(n) ==
    /\ nodes' = Without(nodes, {n})
    /\ registeredNodes' = Cardinality(DOMAIN nodes')
    /\ tasksRunning' = totalTasksLocked(nodes')
    /\ UNCHANGED <<sinceTick, regs>>

\* Mutant: a deletion that forgets the node gauge.
RemoveMatchingNoGauge(n, connID) ==
    /\ nodes' = IF Registered(n) /\ nodes[n].connID = connID
                THEN Without(nodes, {n}) ELSE nodes
    /\ UNCHANGED <<registeredNodes, tasksRunning, sinceTick, regs>>

RemoveIfConnectionMatches(n, connID) ==
    \/ /\ Registered(n)
       /\ nodes[n].connID = connID
       /\ Remove(n)
    \/ /\ ~(Registered(n) /\ nodes[n].connID = connID)
       /\ UNCHANGED registryVars

\* Mutant: only nodes silent for a whole period past the threshold go.
StaleNodesLate ==
    {n \in DOMAIN nodes : nodes[n].age > Threshold + CleanupPeriod}

\* Mutant: a node exactly at the threshold is stale.
StaleNodesEarly == {n \in DOMAIN nodes : nodes[n].age >= Threshold}

StaleNodes == {n \in DOMAIN nodes : nodes[n].age > Threshold}

\* Mutant: the goroutine returns once it finds nothing stale.
StaleNodeCleanupGivesUp ==
    /\ StaleNodes # {}
    /\ sinceTick = CleanupPeriod
    /\ sinceTick' = 0
    /\ nodes' = Without(nodes, StaleNodes)
    /\ registeredNodes' = Cardinality(DOMAIN nodes')
    /\ tasksRunning' = totalTasksLocked(nodes')
    /\ UNCHANGED regs

\* One firing of the cleanup ticker.  The gauges are set only if something
\* was removed.
StaleNodeCleanup ==
    /\ sinceTick = CleanupPeriod
    /\ sinceTick' = 0
    /\ nodes' = Without(nodes, StaleNodes)
    /\ IF StaleNodes # {}
       THEN /\ registeredNodes' = Cardinality(DOMAIN nodes')
            /\ tasksRunning' = totalTasksLocked(nodes')
       ELSE UNCHANGED <<registeredNodes, tasksRunning>>
    /\ UNCHANGED regs

\* One unit of time.  The cleanup goroutine is assumed to run when its
\* ticker fires: time does not pass a firing it has not served.
Tick ==
    /\ sinceTick < CleanupPeriod
    /\ sinceTick' = sinceTick + 1
    /\ nodes' = [n \in DOMAIN nodes |-> [nodes[n] EXCEPT !.age = @ + 1]]
    /\ UNCHANGED <<registeredNodes, tasksRunning, regs>>

\* The process ends (it is killed, or Register panics on nil resources) and
\* a new one starts: nothing was persisted.
Restart ==
    /\ nodes' = NewNodeRegistry
    /\ registeredNodes' = 0
    /\ tasksRunning' = 0
    /\ sinceTick' = 0
    /\ UNCHANGED regs

RegistryNext ==
    \/ \E n \in Nodes :
         \/ Register(n)
         \/ \E ts \in TaskLists(MaxTasks) : UpdateHeartbeat(n, ts)
         \/ Remove(n)
         \/ \E c \in 0..MaxRegs : RemoveIfConnectionMatches(n, c)
    \/ StaleNodeCleanup
    \/ Tick
    \/ Restart

RegistrySpec == RegistryInit /\ [][RegistryNext]_registryVars

-----------------------------------------------------------------------------
(* Properties.                                                             *)

\* Type invariant of the registry.
RegistryTypeOK ==
    /\ DOMAIN nodes \subseteq Nodes
    /\ nodes \in [DOMAIN nodes -> NodeInfo]
    /\ registeredNodes \in Nat
    /\ tasksRunning \in Nat
    /\ sinceTick \in 0..CleanupPeriod
    /\ regs \in [Nodes -> 0..MaxRegs]

\* A listed node was heard within the threshold plus the time since the
\* cleanup last ran, hence within threshold + period: StaleNodeCleanup never
\* lets a node overstay, whenever between two firings its last beat fell.
BoundedStaleness ==
    \A n \in DOMAIN nodes : nodes[n].age <= Threshold + sinceTick

\* nmonit_nodes_registered_total is the size of the map after every operation,
\* although each sets it separately and UpdateHeartbeat and a cleanup that
\* removes nothing do not set it at all.
RegisteredGaugeExact == registeredNodes = Cardinality(DOMAIN nodes)

\* nmonit_tasks_running_total never reports fewer tasks than the map holds:
\* every path that can add a task recomputes it, and the paths that do not
\* recompute it (Register, an idle cleanup) only drop tasks.
TasksGaugeNeverUndercounts == tasksRunning >= totalTasksLocked(nodes)

\* What metrics.go says of the gauge: the number of running tasks across all
\* nodes.  Register breaks it by dropping the tasks of a node that
\* registers again without recomputing the gauge.
TasksGaugeExact == tasksRunning = totalTasksLocked(nodes)

\* Within one residence of a node in the map the connection number counts
\* its registrations, so no two registrations of a residence share one: what
\* RemoveIfConnectionMatches relies on.
ConnIDCountsResidence ==
    \A n \in DOMAIN nodes :
        /\ nodes[n].connID + nodes[n].born = regs[n]
        /\ nodes[n].connID > 0

\* A node is again and again either unlisted or just heard from: no node
\* stays in the map forever on the strength of an old heartbeat.
NoZombieNodes ==
    \A n \in Nodes :
        []<>(n \notin DOMAIN nodes \/ nodes[n].age = 0)

M == INSTANCE Membership WITH
        Grace <- Threshold + CleanupPeriod,
        silence <- [n \in DOMAIN nodes |-> nodes[n].age]

\* The registry implements the abstract membership list: every method, the
\* cleanup and the passing of time are steps of Membership or change nothing
\* it sees.
ImplementsMembership == M!Spec
=============================================================================
