# nmonit: a TLA+ verification project

nmonit is a small cluster system: compute agents (Rust, `src/agent`) register
with a control plane (Go, `src/control-plane`) over gRPC, keep a heartbeat
stream open, and the control plane keeps a list of the nodes that are alive and
serves it with metrics over HTTP. This directory models the part of it that has
state and concurrency, checks the models with TLC on small instances and proves
the main results with TLAPS for every value of the constants.

## 1. Inventory

| Component | State | Operations | Interacts with |
|---|---|---|---|
| Node registry `internal/registry/registry.go` | map of node id to entry (connection number, last beat, tasks, resources) behind an RWMutex; two gauges | Register, UpdateHeartbeat, Remove, RemoveIfConnectionMatches, ConnectionID, cleanup goroutine, GetAll | called by every handler and by the REST API; expires nodes by itself |
| Agent service `internal/agent/agent.go` | locals of each Heartbeat handler (node id, captured connection number); one ack goroutine per handler | Register, Heartbeat; stub RPCs that validate and acknowledge | the registry, the agents |
| Certificate reloader `internal/tlsreload/reloader.go` | served pair and CA pool, recorded modification times | load() from Watch (polling) and Reload (SIGHUP), GetCertificate, GetConfigForClient | the files on disk, every TLS handshake |
| Agent loop `agent/src/main.rs` | attempt counter, backoff, session | connect, event loop (`select!`), give up, sleep | `heartbeat.rs` |
| Heartbeat client `agent/src/heartbeat.rs` | request channel, reader task | connect, send_heartbeat, next_instruction, drop | the agent service |
| Startup and shutdown `cmd/control-plane/main.go` | signal channel | flags, wiring, SIGHUP, graceful stop | all of the above |
| Validation and bearer tokens `internal/validator`, `internal/agent/agent.go` | none | checks chained per method, token check | in front of every handler |
| Interceptors `internal/metrics/metrics.go` | request counter, stream gauge, cache of label values | one around unary calls, one around streams | around the token check and the handlers |
| Messages and stubs `gen/compute/v1/*.pb.go` | none | getters, client stubs, unary handlers that decode before the interceptors run | every call |
| REST API `internal/restapi/restapi.go` | none of its own | /health, /api/v1/nodes, /metrics behind an API key | GetAll and the gauges |
| Resource discovery, CLI, dashboard, SDK, deployment | none | | |

What is hard here:

* handlers take the registry lock several times, so registrations, cleanups and
  the ends of other streams fall between their steps;
* a node may be served by an old and a new stream at once, and only a number
  captured at the beginning tells whose registration it is;
* a node that falls silent is removed by a goroutine with its own clock;
* calls given up by an agent may still be served, streams break with messages
  under way, both processes may die at any point;
* agent and handler each wait for the other when a stream is opened;
* certificate files are rewritten one at a time while two goroutines load them
  without a lock;
* a registry method is several stores and two gauges, a listing a loop of copies,
  and all that makes them one is an RWMutex, which every heartbeat needs and
  which listings for slow clients take as well; the gauges are scraped without it;
* a request is decoded, counted, authenticated, validated and answered in an
  order spread over generated code, interceptors and handlers, and proto3 does
  not send zero values.

`PROJECT.json` lists these hazards line by line with the properties that cover
them.

## 2. Modules

    Membership            what a list of live nodes promises (abstract)
       ^ refinement
    NodeRegistry          registry.go, each method one action
       ^ EXTENDS                    ^ EXTENDS and refinement
    AgentServer                  LockedRegistry    registry.go store by store
       ^ EXTENDS                    ^ EXTENDS      under its lock
    Cluster                      RestApi           restapi.go
       v EXTENDS                    v EXTENDS
    Agent                        Messages          agent.pb.go, resource.pb.go
                                    ^ EXTENDS
                                 Rpc               a call through stub, interceptors,
                                                   validators and handler

    CertReloader          reloader.go, independent of the others
       ^ EXTENDS
    ForcedReload          what a SIGHUP promises
    ControlPlane          main.go with the interceptors of metrics.go, likewise

`MCNodeRegistry` adds a symmetry set for TLC, `MCCertReloader` an initial
condition that stands for one, `MCRpc` and `MCRestApi` the requests and the
registrations of their instances; `NodeRegistryProofs`, `LockedRegistryProofs`
(which also covers RestApi), `AgentServerProofs`, `CertReloaderProofs`,
`AgentProofs`, `ClusterProofs`, `ControlPlaneProofs` and `RpcProofs` (which also
covers Messages) hold the theorems. Operators called `...Late`, `...Kept` and
so on, commented "Mutant", are deliberately wrong versions of the definition
after them; no specification uses them.

**Membership.** A function `silence` from the listed nodes to how long each has
not been heard. Nodes join, are heard, leave; time passes; a node silent for
longer than a grace period cannot be listed.

**NodeRegistry.** Each exported method runs under the lock and is one action.
`nodes` is `r.nodes`; of `LastBeat` only the age is kept, and of an entry the
connection number and the set of task ids (the code keys a map by them).
`registeredNodes` and `tasksRunning` are the gauges, set where the code sets
them and nowhere else. `sinceTick` is the phase of the cleanup ticker. `regs` and the field `born`
are history: they count registrations and name the residence (the time between
entering and leaving the map) an entry belongs to. `Restart` loses everything,
as a process that persists nothing does.

**AgentServer.** A Heartbeat handler is a program counter and its locals. Every
locked section, `Recv` and `Send` is a step: first `Recv` with validation and
reading the connection number, applying the first beat, the first ack (which
starts the ack goroutine), the receive loop. The four ways to return are
separate, since two of them remove the node and two leave it. Later messages
may name any node, as in the code. The ack goroutine waits for its ticker or for
`done`, or is inside a `Send`, which may outlive the handler; it is not stopped
there and ends when the `Send` fails or it gets back to its `select`. `Crash`
takes all goroutines.

**LockedRegistry.** The same methods, with the goroutines that call them. Every
store, deletion and gauge is a step, and so is every entry GetAll copies; time
passes between them. The mutex works as sync.RWMutex does: a writer that is
first in line keeps new readers out and waits for the old ones, and its Unlock
lets in all readers it kept out. `profile` is what an agent registered with
(address and resources), which NodeRegistry does not need. Refinement: a method
takes effect at its first store, the cleanup when it reads the clock;
`SettledNodes` and the settled gauges are what the lock's holder is about to
leave behind.

**Messages.** A message type is a function from the fields of its Go struct to
their numbers, types and whether they repeat; a message a function from these
fields to values. `New` is a composite literal, `Get` a generated getter,
`Encode` and `Decode` what proto3 does to zero values, to nested messages and to
lists. The encoding is external and modelled from the struct tags. It is
written level by level instead of recursively, so that theorems can use it:
messages nest at most five deep (`DepthAssumption`, which TLC evaluates).
One row of fields stands for a whole generated type, its repetitive accessors
included, so this module accounts for about two thirds of the source lines the
project maps (some 3,600 of 5,100); the hand-written control plane and agent are
the other third or so (some 1,300, and the service stubs).

**Rpc.** Calls of AgentService from the client stub to its answer: unknown
methods and undecodable requests that no interceptor sees, the two interceptors,
the token, the validators with their limits, each handler's answer and what it
hands to the registry, and the panic of Register on nil resources, which takes
the process. A string is a name with a length and the attributes the validators
look at (null byte, safe identifier, image reference); what the two regular
expressions match is a parameter. What clients offer is any request the Go types
allow, or bytes that are no message (`OffersAssumption`). A Heartbeat stream goes
on with further messages (`Later`), each of which is handed to the registry,
refused (InvalidArgument) or not decodable (Internal), until it is closed or
breaks; `last` is history, the last of them. What the messages do to the registry
is in AgentServer.

**RestApi.** One goroutine per connection on top of LockedRegistry: API key, the
three routes, the listing made from GetAll's copy, and clients that need not
read. Of the float division by 2^30 the whole part and the rest are kept. Every
registration has resources, because Register panics without
(`RegistrationAssumption`).

**CertReloader.** `load()` is one step per `os.Stat`, comparison, file read and
the locked swap. A file is a content (a generation of the pair, garbage, or
missing) and a modification time. A write leaves a time the file never had or,
if `TimesRepeat`, possibly the one it had. The recorded times are read without the lock;
while another load may be storing them the comparison can go either way.

**ForcedReload.** CertReloader with a history variable: which loads ran from
their first step on without a write and without another load beside them. It
says what a SIGHUP must achieve, which matters most where `--tls-reload-interval`
leaves no polling to make good what a load missed.

**Agent.** The connection loop with its attempt counter and backoff. What the
network answers is a choice. `failed` and `slept` are history. With an unlimited
number of attempts the counter is not kept, because it is then only logged.
SIGINT is an action only where `select!` is waiting: anywhere else it is lost.

**Cluster.** Every agent step joined to the handler step at the other end of the
call or stream. The transport is external and modelled from its use: `link`
holds whether a stream is up, whether its response headers were delivered and
how many beats are under way (the periodic acks change nothing at the agent and
are left to AgentServer); `call` and `late` are Register calls under way and
calls given up but possibly still served. What was sent before a break may
still be received. `EagerHeaders` says when response headers travel: grpc-go
sends them with the handler's first message, which is `FALSE`; `TRUE` is a
transport or a handler that sends them at once (`SendHeader` at the top of
Heartbeat). The first is used for the run about the handshake, the second for
all questions about sessions, which the first never lets begin.

**ControlPlane.** The process: where its main goroutine is, the TLS flags, the
two servers in goroutines that are spawned and only later serve, the channel of
one signal, gRPC calls inside the metrics interceptor (arrive, token check,
handler, count) and HTTP requests. Signals before `signal.Notify` kill, and so do
an address that is taken and a Register without resources, which panics. `Serve`
called after GracefulStop is an error and takes the process down, `ListenAndServe`
after Shutdown is not. A reload runs in the main goroutine; `hup` is history: a
SIGHUP came since the last one began.

## 3. Runs

| Run | Shows |
|---|---|
| `registry` | staleness bound, exact node gauge, task gauge never low, connection numbers count a residence; refinement of Membership |
| `server` | captured numbers identify registrations; a stream's end removes exactly its own registration within a residence, nothing if it captured 0, and never another node its messages named; handler and ack goroutine never send at once; no silent node stays, also none abandoned by its handler |
| `reloader` | a matching pair with its CA is served, recorded times vouch for contents; a SIGHUP reload that nothing disturbs serves the files on disk, whatever went before; files that settle are served in the end |
| `agent` | gives up at exactly the limit; exponential backoff with cap; repeated SIGINTs end it |
| `cluster` | one live stream per agent; each session's handler holds the session's registration; an ended agent leaves the list for good; one unlisted under its open stream is listed again |
| `controlplane` | stream gauge and request counter are exact; no plaintext where TLS is required; every SIGHUP is followed by a reload; a SIGTERM in the channel ends the process |
| `rpc` | every call ends with the code its request and tokens deserve, a stream with that of its last message; what reaches the registry is what the caller itself said last and was accepted, and answers are for one's own request; the request counter holds each call once under its own name; the process dies only of a legal Register without resources |
| `restapi` | methods under the lock refine the atomic ones; what a reader copied is current and a listing is the registry at one moment; the node gauge lags only inside a method; every caller gets in and out |

Four runs end in a violation and record where the code does something else than
its comments say:

| Run | What happens |
|---|---|
| `registry_tasks_gauge` | re-registration drops the tasks of a node and leaves `TasksRunning` as it was |
| `server_reconnect` | numbers restart at 1 after a removal, so an old stream's end can remove the node of a newer one |
| `reloader_overlap` | the earlier of two overlapping loads may swap last and put the old pair back until the next poll |
| `cluster_handshake` | the agent awaits response headers before its first heartbeat, the handler awaits a heartbeat before it sends anything: the agent times out, retries and gives up |

### Bounds

* Three nodes, two tasks, a threshold and a cleanup period of two units in the
  registry: enough for a node to be exactly at, just below and beyond
  the threshold at a firing. Counts of registrations are bounded by `MaxRegs`
  (2 or 3): a reconnection, and one after a removal. Three nodes because an
  expiry of two of three is neither one node leaving nor all.
* Two streams: an old and a new one. Stream identities are reused once handler
  and ack goroutine have ended. The limit on task lists is 0 and lists have up
  to one task, one beyond the limit; lists that are accepted with tasks in them
  are in the registry's run, and the refinement is proved for all of them.
* Two loaders (polling and SIGHUP), two generations and three writes: a rotation
  of both files, and damage in the middle of it. Generations are only compared
  for equality, so `reloader` starts from one of them. Both runs give every write
  a modification time of its own. With `TimesRepeat = TRUE` in `reloader.cfg` TLC
  refutes `TimesVouchForContents` and `ForcedReloadServes`: a file replaced with its
  old time (`cp -p`, a coarse clock) is skipped, by a SIGHUP too, although
  reloader.go:165 says that Reload "forces an immediate certificate reload from
  disk". That is a limit of the code to know of.
* The agent run has a limit of five attempts and a cap that is not a power of
  two times the initial backoff. The cluster has one agent, two streams, a
  channel of two beats, two registrations and one given-up call: more
  agents only interact through the registry, which `server` checks with two nodes. Its threshold is 0
  and its period 1: a beat that is one unit late costs the node its entry.
* The process run has two calls and one HTTP request, each made once, and three
  signals: a reload, a signal during it and one that finds the channel full.
* The run of the calls has two, so that two can be inside at once. The first is
  any method with everything set, with nothing set, with any one field at each
  of its interesting values (empty, at its limit, one beyond, of every kind of
  string, nil, an empty message), with every choice of tokens, and undecodable.
  A stream goes on with legal, illegal and undecodable messages.
  The limits are scaled down and differ from each other, so that a validator that
  uses another one's shows.
* The run of the REST API has one gRPC handler, the cleanup and one connection,
  two nodes and two registrations each, with everything or nothing in them: two
  writers in line and a reader in between, and a cleanup of both nodes while a
  listing waits. The theorems cover any number.

Time is discrete and passes only when the cleanup has served its firing: the
cleanup goroutine is assumed to be scheduled within one unit. The staleness
bound is relative to that.

### Fairness

Time passes and the cleanup goroutine runs (a ticker and the Go scheduler); Watch polls and a load that began ends; in
the cluster, agents and handlers are scheduled, calls under way are served or
lost, and a connect that can only time out does so, and no connection outlives its
MaxConnectionAge of 30 minutes (`keepalive` in main.go), so streams break in the
end; in the agent, timers fire and every call returns or times out; goroutines
inside a registry method are scheduled, and a waiting writer gets its turn, for
which sync.Mutex has its starvation mode; in the process, goroutines
are scheduled and a stream ends at the latest when its connection reaches
MaxConnectionAge and its grace. Nothing makes an agent
register or beat in `NodeRegistry` and `AgentServer`, no stream has to end or to
break there, no `Send` of an ack goroutine has to return, no HTTP client has to read, no SIGHUP or SIGINT has to come, no process has to die. `NoZombieNodes` does not
rest on streams ending. `InterruptsEndIt` assumes repeated interrupts in its own
premise: whoever presses Ctrl-C again and again catches the agent in `select!`
unless it gives up first.

## 4. Proofs

Assumptions: node, task and call sets are finite, the numeric parameters are
natural numbers (the cleanup period is positive), the model values differ,
requests are what the Go types allow or no messages at all, nil is none of the
messages a handler builds, and registrations reach the registry with resources.
Nothing bounds the number of nodes, streams, loaders, agents or calls.

* **Registry.** The inductive invariant joins the type invariant with the age
  bound, the gauges and the connection numbers. `BoundedStaleness` is inductive because time stops at a
  firing: ages are at most threshold + `sinceTick`, a tick adds one to both
  sides, a firing resets `sinceTick` and removes everything above the
  threshold. The task gauge needs monotonicity of cardinality. Refinement of
  Membership maps each method to a join, hear, leave or stutter.
* **Agent service.** Every handler step is a method of the registry or a
  stutter (lemma `RegistrySteps`; it holds by the way the module is built), which
  carries the registry's theorems over, `ServerImplementsMembership` among them. The captured number is right because, within a
  residence, number + `born` = registrations on both sides; the invariant says
  so for the handler's locals, which no other actor changes. `SendersAreSingle`:
  the ack goroutine is there only once the handler is past its own `Send`.
* **Registry under its lock.** `LockMakesAtomic` is the refinement: every step
  of a goroutine inside a method is the method's atomic action or a stutter of
  the settled map and gauges. It rests on `LockedInv`: at most one goroutine
  holds the lock and none copies meanwhile, a goroutine's place fits its call,
  the running cleanup has only listed stale nodes left to delete, a reader has
  copied only what it wants, and copies are current. Mutual exclusion is needed
  because the mapping looks at where the holder is: with two holders one's gauge
  would settle the other's store. A budget on registrations under way keeps the
  model's bound.
* **Reloader.** A load about to read the CA or to swap holds a matching pair;
  a recorded or remembered time that is still the file's time means that the
  content recorded or read is still the file's, since a write moves the time on
  (`TimesVouch` assumes `~TimesRepeat`; the other invariants do not need it), and
  the time was taken before the content. `ForcedReloads` adds what an undisturbed
  load knows at each place (`KnowsDisk`): the times it took and the contents it
  read are those on disk. If it returns early, either a file was missing or did not
  load, or all times were the recorded ones, and these vouch for what is served.
* **Agent.** `GivesUpAtTheLimit` is not inductive: `attempt` says how many
  connects failed only together with where the loop is (one more while
  connecting, equal while asleep, zero in a session). `Counts` states this.
  `BackoffIsExponential` is proved from `Paced`, which ties the next backoff to
  how often the agent has slept since its last session. That 2^(k+1) is twice 2^k
  is proved by counting: the library knows powers of two as the sizes of
  powersets, and the subsets of 1..k+1 are those of 1..k without and with k+1.
* **Cluster.** Every step of the whole is a step or a stutter of AgentServer and
  of Agent (lemma `PartSteps`, again by construction), so what is proved of them
  holds here, `ClusterImplementsMembership` included. The sessions need
  `ClusterInv`: an agent has a stream exactly where its program counter says so,
  the link of that stream is its own, every live link of an agent is the one it
  holds, and the handler serving a held link captured the latest registration
  unless a given-up call overtook it. `OneLiveStream` is not inductive without
  the third, `SessionOwnsRegistration` not without the fourth.
  `HandshakeNeverEnds` is the general form of the run `cluster_handshake`: with
  headers that wait for the first message no agent ever has a session, because
  no beat is ever sent on a link whose headers did not arrive, and no headers
  are sent before a beat (`Silent`).
* **Messages.** `RoundTrip`: decoding what was encoded gives back every message
  the Go types can hold. It rests on the field numbers of each of the message
  types being distinct (`FieldsNumbered`) and goes level by level.
* **Calls.** `ValidIsLegal`: the chains of validators accept exactly what the
  limits allow, the length of a command over all its words included, which is
  shown by a least counterexample among the natural numbers: the induction itself
  is out of the prover's reach. `RpcInv` says per call where it is, what it has
  been given and which code it deserves there (`CallInv`), that what it holds and
  has handed over comes from its own client's last message (`ContentInv`) and that
  its client has what the server replied (`AnswerInv`); the counters are
  cardinalities of sets of calls (`CountInv`). From it follow the right code for
  every call (`CodesTellWhy`), `OwnMessages`, exact counters, and that a process
  that died was sent a legal Register without resources.
* **REST API.** `RestImplementsLocked`: with the HTTP connections the registry
  under its lock behaves as before, so what is proved about it carries over.
  `RestInv` says that a connection which is listing is inside GetAll, and got
  there with the key, and otherwise inside nothing; with copies that are current
  until the lock is released, `ListingsExact` says that each listing is the
  registry at one moment.
* **Process.** `NoPlaintextIfRequired` needs that past the flag check TLS is on
  wherever it is required. The gauge and the counters are cardinalities of sets
  of calls; each step of a call moves it between these sets by one element.

Type invariants are proved for every module that has a proof module; those of
`NodeRegistry`, `LockedRegistry`, `CertReloader`, `ControlPlane` and `Cluster`
(`RegistryTypeOK`, `LockedTypeOK`, `ReloaderTypeOK`, `ControlPlaneTypeOK`,
`ClusterTypeOK`) are left to the proofs
and are in no run.

Model-checked only: everything under fairness (`NoZombieNodes`,
`DiskIsServedInTheEnd`, `EndedAgentLeaves`, `UnlistedComesBack`, `InterruptsEndIt`,
`CallsReturn`, `HupIsServed`, `TermEndsProcess`), which is beyond the prover.

## 5. Not modelled

* What the two regular expressions of the validators match, JSON, HTTP headers
  and the format of times: text, which the models take as given.
* Latency histograms and the counters of events, which only grow.
* The messages and services for jobs, storage, memory and control: they are
  declared and generated, no code sends, serves or receives them.
* Resource and GPU discovery: reads the operating system.
* Instructions from control plane to agent: never sent, and only logged.
* Any promise about a SIGTERM that finds the channel full: it is dropped, in the
  model as in the code, and nothing says otherwise.
* network, storage, sdk, cli, dashboard, deploy: placeholders, clients and
  configuration.

## 6. Plan

Done: all components with state or control of their own, checked; their safety
properties and refinements, proved. Left: the safety properties of `ControlPlane`
and `Rpc` brought together, the calls of the first as an abstraction of those of
the second.
