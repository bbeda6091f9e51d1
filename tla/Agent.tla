------------------------------- MODULE Agent --------------------------------
(***************************************************************************)
(* The compute agent: the connection loop of agent/src/main.rs around      *)
(* HeartbeatManager::connect of agent/src/heartbeat.rs.  One record per    *)
(* agent process, named by its node id:                                    *)
(*                                                                         *)
(*   "dial"      opening the channel                                       *)
(*   "register"  the Register RPC is under way                             *)
(*   "open"      about to open the heartbeat stream                        *)
(*   "await"     waiting for the response headers of the stream            *)
(*   "run"       in the event loop, waiting in select!                     *)
(*   "busy"      in the event loop, collecting or sending a heartbeat: the *)
(*               other branches of select! are not polled                  *)
(*   "sleep"     backing off                                               *)
(*   "gaveUp"    ended with an error: too many attempts                    *)
(*   "stopped"   ended by a signal                                         *)
(*                                                                         *)
(* What the network and the control plane answer is a choice here; Cluster *)
(* joins these steps to the control plane's.                               *)
(***************************************************************************)
EXTENDS Naturals

CONSTANTS
    Agents,         \* node ids, one agent process each
    InitialBackoff, \* --reconnect-backoff-secs
    MaxBackoff,     \* 60 s in main.rs
    MaxAttempts     \* --max-reconnect-attempts; 0 is unlimited

ASSUME BackoffAssumption ==
    InitialBackoff \in Nat /\ MaxBackoff \in Nat /\ MaxAttempts \in Nat

VARIABLES
    agent,      \* agent -> [pc, attempt, backoff]
    failed,     \* history: connects that failed since one last succeeded
    slept       \* history: sleeps begun since a connect last succeeded

agentVars == <<agent, failed, slept>>

-----------------------------------------------------------------------------
AgentPCs == {"dial", "register", "open", "await", "run", "busy", "sleep",
             "gaveUp", "stopped"}

Connecting(a) == agent[a].pc \in {"dial", "register", "open", "await"}

InSession(a) == agent[a].pc \in {"run", "busy"}

\* attempt is only ever compared with a limit; without one it is not kept.
Incremented(k) == IF MaxAttempts = 0 THEN 0 ELSE k + 1

\* Mutant: the backoff grows without a cap.
DoubledUncapped(b) == 2 * b

Doubled(b) == IF 2 * b < MaxBackoff THEN 2 * b ELSE MaxBackoff

AgentInit ==
    /\ agent = [a \in Agents |->
         [pc |-> "dial", attempt |-> Incremented(0), backoff |-> InitialBackoff]]
    /\ failed = [a \in Agents |-> 0]
    /\ slept = [a \in Agents |-> 0]

AgentAt(a, from, to) ==
    /\ agent[a].pc = from
    /\ agent' = [agent EXCEPT ![a].pc = to]
    /\ UNCHANGED <<failed, slept>>

\* Mutant: one attempt more than the limit is made.
OutOfAttemptsLate(attempt) == MaxAttempts > 0 /\ attempt > MaxAttempts

OutOfAttempts(attempt) == MaxAttempts > 0 /\ attempt >= MaxAttempts

\* The end of an attempt or of a session: give up or go to sleep.
AfterAttempt(a) ==
    IF OutOfAttempts(agent[a].attempt)
    THEN /\ agent' = [agent EXCEPT ![a].pc = "gaveUp"]
         /\ UNCHANGED slept
    ELSE /\ agent' = [agent EXCEPT ![a].pc = "sleep"]
         /\ slept' = [slept EXCEPT ![a] = @ + 1]

-----------------------------------------------------------------------------
Dialled(a) == AgentAt(a, "dial", "register")

RegisterAccepted(a) == AgentAt(a, "register", "open")

StreamRequested(a) == AgentAt(a, "open", "await")

\* Any step of connect() returns an error: refused, lost, timed out.
ConnectFails(a) ==
    /\ Connecting(a)
    /\ failed' = [failed EXCEPT ![a] = @ + 1]
    /\ AfterAttempt(a)

\* Mutant: a connection does not make the earlier failures forgotten.
ConnectedKeepsCount(a) ==
    /\ agent[a].pc = "await"
    /\ agent' = [agent EXCEPT ![a].pc = "run", ![a].backoff = InitialBackoff]
    /\ failed' = [failed EXCEPT ![a] = 0]
    /\ slept' = [slept EXCEPT ![a] = 0]

\* The headers have arrived: the first heartbeat is queued, connect()
\* returns, and the counter and the backoff start again.
Connected(a) ==
    /\ agent[a].pc = "await"
    /\ agent' = [agent EXCEPT ![a] =
                   [pc |-> "run", attempt |-> 0, backoff |-> InitialBackoff]]
    /\ failed' = [failed EXCEPT ![a] = 0]
    /\ slept' = [slept EXCEPT ![a] = 0]

\* The heartbeat interval has passed: utilization is collected ...
BeatDue(a) == AgentAt(a, "run", "busy")

\* ... and the heartbeat is put on the request channel.
BeatQueued(a) == AgentAt(a, "busy", "run")

\* The stream has ended: select! sees it, or the request channel is closed.
SessionEnds(a) ==
    /\ InSession(a)
    /\ AfterAttempt(a)
    /\ UNCHANGED failed

\* Mutant: SIGINT only breaks the event loop.
CtrlCReconnects(a) ==
    /\ agent[a].pc = "run"
    /\ AfterAttempt(a)
    /\ UNCHANGED failed

\* SIGINT while select! is waiting for it.
CtrlC(a) == AgentAt(a, "run", "stopped")

\* The process is killed: no other signal is handled, and SIGINT kills until
\* select! has first asked for it.  From then on a SIGINT that comes while
\* select! is not waiting changes nothing: it is lost.
Killed(a) ==
    /\ agent[a].pc \notin {"gaveUp", "stopped"}
    /\ AgentAt(a, agent[a].pc, "stopped")

\* Mutant: after a backoff only the stream is opened again.
WakeReopens(a) ==
    /\ agent[a].pc = "sleep"
    /\ agent' = [agent EXCEPT ![a] =
                   [pc |-> "open", attempt |-> Incremented(@.attempt),
                    backoff |-> Doubled(@.backoff)]]
    /\ UNCHANGED <<failed, slept>>

\* The backoff has passed: the next attempt.
Wake(a) ==
    /\ agent[a].pc = "sleep"
    /\ agent' = [agent EXCEPT ![a] =
                   [pc |-> "dial", attempt |-> Incremented(@.attempt),
                    backoff |-> Doubled(@.backoff)]]
    /\ UNCHANGED <<failed, slept>>

\* The process has ended.
Ended(a) ==
    /\ agent[a].pc \in {"gaveUp", "stopped"}
    /\ UNCHANGED agentVars

AgentStep(a) ==
    \/ Dialled(a)
    \/ RegisterAccepted(a)
    \/ StreamRequested(a)
    \/ ConnectFails(a)
    \/ Connected(a)
    \/ BeatDue(a)
    \/ BeatQueued(a)
    \/ SessionEnds(a)
    \/ CtrlC(a)
    \/ Killed(a)
    \/ Wake(a)

AgentNext == \E a \in Agents : AgentStep(a) \/ Ended(a)

AgentSpec == AgentInit /\ [][AgentNext]_agentVars

\* What the agent does by itself: its timers fire and every call returns or
\* times out.
AgentProgress(a) ==
    \/ Dialled(a) \/ RegisterAccepted(a) \/ StreamRequested(a)
    \/ ConnectFails(a) \/ Connected(a)
    \/ BeatDue(a) \/ BeatQueued(a) \/ SessionEnds(a) \/ Wake(a)

AgentFairSpec == AgentSpec /\ \A a \in Agents : WF_agentVars(AgentProgress(a))

-----------------------------------------------------------------------------
(* Properties.                                                             *)

\* Type invariant of the agents: attempt never passes the limit.
AgentTypeOK ==
    /\ agent \in [Agents -> [pc : AgentPCs, attempt : 0..MaxAttempts, backoff : Nat]]
    /\ failed \in [Agents -> Nat]
    /\ slept \in [Agents -> Nat]

\* The agent gives up after exactly the configured number of connects that
\* failed in a row: not one early, not one late, and a session in between
\* starts the count again however it ends.
GivesUpAtTheLimit ==
    \A a \in Agents :
        /\ agent[a].pc = "gaveUp" => MaxAttempts > 0 /\ failed[a] = MaxAttempts
        /\ MaxAttempts > 0 /\ failed[a] >= MaxAttempts => agent[a].pc = "gaveUp"

\* The k-th sleep since the last session lasts the initial backoff doubled
\* k - 1 times, but never more than the cap once it has been doubled.
BackoffIsExponential ==
    \A a \in Agents : agent[a].pc = "sleep" =>
        agent[a].backoff =
            IF slept[a] = 1 THEN InitialBackoff
            ELSE LET full == InitialBackoff * 2 ^ (slept[a] - 1)
                 IN  IF full < MaxBackoff THEN full ELSE MaxBackoff

\* With a limit on the attempts, whoever keeps pressing Ctrl-C stops the agent,
\* although every SIGINT that comes while it connects, sleeps or collects a
\* beat is lost: either it gets back into select! or it gives up.
InterruptsEndIt ==
    \A a \in Agents :
        MaxAttempts > 0 /\ SF_agentVars(CtrlC(a))
            => <>(agent[a].pc \in {"gaveUp", "stopped"})
=============================================================================
