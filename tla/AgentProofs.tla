---------------------------- MODULE AgentProofs -----------------------------
(***************************************************************************)
(* Proofs about the agent's connection loop for every limit and backoff.   *)
(***************************************************************************)
EXTENDS Agent, FunctionTheorems, FiniteSetTheorems, TLAPS

\* What attempt counts, of one agent.  With a limit, attempt is the number of
\* the connect under way, counted from the last session: one more than the
\* connects that failed since, and equal to them while the agent sleeps.
\* Without a limit the agent never gives up.
Counts(r, f) ==
    /\ r.pc \in {"dial", "register", "open", "await"} /\ MaxAttempts > 0 =>
         r.attempt = f + 1 /\ f < MaxAttempts
    /\ r.pc \in {"run", "busy"} => r.attempt = 0 /\ f = 0
    /\ r.pc = "stopped" /\ MaxAttempts > 0 => f < MaxAttempts
    /\ r.pc = "sleep" /\ MaxAttempts > 0 => r.attempt = f /\ f < MaxAttempts
    /\ r.pc = "gaveUp" => MaxAttempts > 0 /\ f = MaxAttempts

AttemptCounts == \A a \in Agents : Counts(agent[a], failed[a])

AgentInv == AgentTypeOK /\ AttemptCounts

LEMMA AgentInvInit == AgentInit => AgentInv
  BY BackoffAssumption
     DEF AgentInit, AgentInv, AgentTypeOK, AgentPCs, AttemptCounts,
         Counts, Incremented

\* What a step of agent a has to show: the new values of a are well typed and
\* count right, and the others keep theirs.
LEMMA OneAgentMoves ==
    ASSUME AgentInv, NEW a \in Agents,
           NEW r \in [pc : AgentPCs, attempt : 0..MaxAttempts, backoff : Nat],
           NEW f \in Nat, NEW k \in Nat,
           agent' = [agent EXCEPT ![a] = r],
           failed' = [failed EXCEPT ![a] = f],
           slept' = [slept EXCEPT ![a] = k],
           Counts(r, f)
    PROVE  AgentInv'
  <1>1. AgentTypeOK'
    BY DEF AgentInv, AgentTypeOK
  <1>2. ASSUME NEW b \in Agents PROVE Counts(agent[b], failed[b])'
    <2>1. CASE b = a
      <3>1. agent'[b] = r /\ failed'[b] = f
        BY <2>1 DEF AgentInv, AgentTypeOK
      <3> QED
        BY <3>1 DEF Counts
    <2>2. CASE b # a
      <3>1. agent'[b] = agent[b] /\ failed'[b] = failed[b]
        BY <2>2 DEF AgentInv, AgentTypeOK
      <3> QED
        BY <3>1 DEF AgentInv, AttemptCounts, Counts
    <2> QED
      BY <2>1, <2>2
  <1> QED
    BY <1>1, <1>2 DEF AgentInv, AttemptCounts

\* The step that only moves the program counter, between places that count
\* alike.
LEMMA MovePC ==
    ASSUME AgentInv, NEW a \in Agents, NEW from \in AgentPCs, NEW to \in AgentPCs,
           AgentAt(a, from, to),
           \A r \in [pc : AgentPCs, attempt : 0..MaxAttempts, backoff : Nat] :
             \A f \in Nat : r.pc = from /\ Counts(r, f)
                => Counts([r EXCEPT !.pc = to], f)
    PROVE  AgentInv'
  <1> DEFINE r == [agent[a] EXCEPT !.pc = to]
  <1>1. /\ agent[a] \in [pc : AgentPCs, attempt : 0..MaxAttempts, backoff : Nat]
        /\ failed[a] \in Nat /\ slept[a] \in Nat
    BY DEF AgentInv, AgentTypeOK
  <1>2. r \in [pc : AgentPCs, attempt : 0..MaxAttempts, backoff : Nat]
    BY <1>1
  <1>3. /\ agent' = [agent EXCEPT ![a] = r]
        /\ failed' = [failed EXCEPT ![a] = failed[a]]
        /\ slept' = [slept EXCEPT ![a] = slept[a]]
    BY DEF AgentAt, AgentInv, AgentTypeOK
  <1>4. Counts(r, failed[a])
    <2>1. agent[a].pc = from /\ Counts(agent[a], failed[a])
      BY DEF AgentAt, AgentInv, AttemptCounts
    <2> QED
      BY <1>1, <2>1
  <1> HIDE DEF r
  <1> QED
    BY <1>1, <1>2, <1>3, <1>4, OneAgentMoves

\* The end of an attempt or of a session, whatever it adds to the failures.
LEMMA AfterAttemptInv ==
    ASSUME AgentInv, NEW a \in Agents, NEW f \in Nat,
           failed' = [failed EXCEPT ![a] = f],
           AfterAttempt(a),
           MaxAttempts > 0 => agent[a].attempt = f /\ f <= MaxAttempts
    PROVE  AgentInv'
  <1> USE BackoffAssumption
  <1> DEFINE r(pc) == [agent[a] EXCEPT !.pc = pc]
             Rec == [pc : AgentPCs, attempt : 0..MaxAttempts, backoff : Nat]
  <1>1. agent[a] \in Rec /\ slept[a] \in Nat
    BY DEF AgentInv, AgentTypeOK
  <1>2. CASE OutOfAttempts(agent[a].attempt)
    <2>1. /\ agent' = [agent EXCEPT ![a] = r("gaveUp")]
          /\ slept' = [slept EXCEPT ![a] = slept[a]]
      BY <1>2 DEF AfterAttempt, AgentInv, AgentTypeOK
    <2>2. r("gaveUp") \in Rec
      BY <1>1 DEF AgentPCs
    <2>3. Counts(r("gaveUp"), f)
      BY <1>1, <1>2 DEF Counts, OutOfAttempts
    <2> HIDE DEF r
    <2> QED
      BY <1>1, <2>1, <2>2, <2>3, OneAgentMoves
  <1>3. CASE ~OutOfAttempts(agent[a].attempt)
    <2>1. /\ agent' = [agent EXCEPT ![a] = r("sleep")]
          /\ slept' = [slept EXCEPT ![a] = slept[a] + 1]
      BY <1>3 DEF AfterAttempt, AgentInv, AgentTypeOK
    <2>2. r("sleep") \in Rec
      BY <1>1 DEF AgentPCs
    <2>3. Counts(r("sleep"), f)
      BY <1>1, <1>3 DEF Counts, OutOfAttempts
    <2>4. slept[a] + 1 \in Nat
      BY <1>1
    <2> HIDE DEF r
    <2> QED
      BY <2>1, <2>2, <2>3, <2>4, OneAgentMoves
  <1> QED
    BY <1>2, <1>3

LEMMA AgentStepInv ==
    ASSUME AgentInv, NEW a \in Agents, AgentStep(a)
    PROVE  AgentInv'
  <1> DEFINE Rec == [pc : AgentPCs, attempt : 0..MaxAttempts, backoff : Nat]
  <1>0. /\ agent[a] \in Rec /\ failed[a] \in Nat /\ slept[a] \in Nat
        /\ Counts(agent[a], failed[a])
    BY DEF AgentInv, AgentTypeOK, AttemptCounts
  <1>1. CASE Dialled(a)
    BY <1>1, MovePC DEF Dialled, AgentPCs, Counts
  <1>2. CASE RegisterAccepted(a)
    BY <1>2, MovePC DEF RegisterAccepted, AgentPCs, Counts
  <1>3. CASE StreamRequested(a)
    BY <1>3, MovePC DEF StreamRequested, AgentPCs, Counts
  <1>4. CASE ConnectFails(a)
    <2>1. failed' = [failed EXCEPT ![a] = failed[a] + 1] /\ AfterAttempt(a)
      BY <1>4, <1>0 DEF ConnectFails, AgentInv, AgentTypeOK
    <2>2. MaxAttempts > 0 => /\ agent[a].attempt = failed[a] + 1
                             /\ failed[a] + 1 <= MaxAttempts
      BY <1>4, <1>0, BackoffAssumption DEF ConnectFails, Connecting, Counts
    <2>3. failed[a] + 1 \in Nat
      BY <1>0
    <2> QED
      BY <2>1, <2>2, <2>3, AfterAttemptInv
  <1>5. CASE Connected(a)
    <2> DEFINE r == [pc |-> "run", attempt |-> 0, backoff |-> InitialBackoff]
    <2>1. r \in Rec /\ Counts(r, 0)
      BY BackoffAssumption DEF AgentPCs, Counts
    <2>2. /\ agent' = [agent EXCEPT ![a] = r]
          /\ failed' = [failed EXCEPT ![a] = 0]
          /\ slept' = [slept EXCEPT ![a] = 0]
      BY <1>5 DEF Connected
    <2> QED
      BY <2>1, <2>2, OneAgentMoves
  <1>6. CASE BeatDue(a)
    BY <1>6, MovePC DEF BeatDue, AgentPCs, Counts
  <1>7. CASE BeatQueued(a)
    BY <1>7, MovePC DEF BeatQueued, AgentPCs, Counts
  <1>8. CASE SessionEnds(a)
    <2>1. failed' = [failed EXCEPT ![a] = failed[a]] /\ AfterAttempt(a)
      BY <1>8, <1>0 DEF SessionEnds, AgentInv, AgentTypeOK
    <2>2. MaxAttempts > 0 => /\ agent[a].attempt = failed[a]
                             /\ failed[a] <= MaxAttempts
      BY <1>8, <1>0, BackoffAssumption DEF SessionEnds, InSession, Counts
    <2> QED
      BY <1>0, <2>1, <2>2, AfterAttemptInv
  <1>9. CASE CtrlC(a)
    BY <1>9, MovePC, BackoffAssumption DEF CtrlC, AgentPCs, Counts
  <1>11. CASE Killed(a)
    <2> DEFINE from == agent[a].pc
    <2>1. from \in AgentPCs /\ from \notin {"gaveUp", "stopped"}
      BY <1>0, <1>11 DEF Killed
    <2>2. AgentAt(a, from, "stopped") /\ "stopped" \in AgentPCs
      BY <1>11 DEF Killed, AgentPCs
    <2> HIDE DEF from
    <2>3. ASSUME NEW r \in Rec, NEW f \in Nat, r.pc = from, Counts(r, f)
          PROVE  Counts([r EXCEPT !.pc = "stopped"], f)
      BY <2>1, <2>3, BackoffAssumption DEF AgentPCs, Counts
    <2> QED
      BY <2>1, <2>2, <2>3, MovePC
  <1>10. CASE Wake(a)
    <2> DEFINE r == [pc |-> "dial", attempt |-> Incremented(agent[a].attempt),
                     backoff |-> Doubled(agent[a].backoff)]
    <2>1. agent[a].pc = "sleep"
      BY <1>10 DEF Wake
    <2>2. r \in Rec
      BY <1>0, <2>1, BackoffAssumption
         DEF AgentPCs, Counts, Incremented, Doubled
    <2>3. Counts(r, failed[a])
      BY <1>0, <2>1, BackoffAssumption DEF Counts, Incremented
    <2>4. /\ agent' = [agent EXCEPT ![a] = r]
          /\ failed' = [failed EXCEPT ![a] = failed[a]]
          /\ slept' = [slept EXCEPT ![a] = slept[a]]
      BY <1>10 DEF Wake, AgentInv, AgentTypeOK
    <2> HIDE DEF r
    <2> QED
      BY <1>0, <2>2, <2>3, <2>4, OneAgentMoves
  <1> QED
    BY <1>1, <1>2, <1>3, <1>4, <1>5, <1>6, <1>7, <1>8, <1>9, <1>10,
       <1>11 DEF AgentStep

LEMMA AgentInvariant == AgentSpec => []AgentInv
  <1>1. AgentInv /\ [AgentNext]_agentVars => AgentInv'
    <2> SUFFICES ASSUME AgentInv, [AgentNext]_agentVars PROVE AgentInv'
      OBVIOUS
    <2>1. ASSUME UNCHANGED agentVars PROVE AgentInv'
      BY <2>1 DEF agentVars, AgentInv, AgentTypeOK, AttemptCounts, Counts
    <2>2. ASSUME NEW a \in Agents, Ended(a) PROVE AgentInv'
      BY <2>1, <2>2 DEF Ended
    <2> QED
      BY <2>1, <2>2, AgentStepInv DEF AgentNext
  <1> QED
    BY <1>1, AgentInvInit, PTL DEF AgentSpec

\* The agents stay within their types: in particular main.rs never counts an
\* attempt beyond the limit.
THEOREM AgentTypeCorrect == AgentSpec => []AgentTypeOK
  BY AgentInvariant, PTL DEF AgentInv

\* The agent gives up exactly when the configured number of connects have
\* failed in a row.
THEOREM GivesUpExactly == AgentSpec => []GivesUpAtTheLimit
  <1>1. AgentInv => GivesUpAtTheLimit
    <2> SUFFICES ASSUME AgentInv, NEW a \in Agents
                 PROVE  /\ agent[a].pc = "gaveUp" =>
                             MaxAttempts > 0 /\ failed[a] = MaxAttempts
                        /\ MaxAttempts > 0 /\ failed[a] >= MaxAttempts =>
                             agent[a].pc = "gaveUp"
      BY DEF GivesUpAtTheLimit
    <2>1. agent[a].pc \in AgentPCs /\ failed[a] \in Nat
      BY DEF AgentInv, AgentTypeOK
    <2>2. Counts(agent[a], failed[a])
      BY DEF AgentInv, AttemptCounts
    <2> QED
      BY <2>1, <2>2, BackoffAssumption DEF AgentPCs, Counts
  <1> QED
    BY <1>1, AgentInvariant, PTL

-----------------------------------------------------------------------------
(* Powers of two.  The library knows them as the sizes of powersets.       *)

LEMMA PowerSize ==
    ASSUME NEW k \in Nat
    PROVE  2^k = Cardinality(SUBSET (1..k)) /\ IsFiniteSet(SUBSET (1..k))
  <1>1. IsFiniteSet(1..k) /\ Cardinality(1..k) = k
    BY FS_Interval
  <1> QED
    BY <1>1, FS_SUBSET

\* The subsets of 1..k+1 are those of 1..k, without and with k+1.
LEMMA PowerDoubles ==
    ASSUME NEW k \in Nat
    PROVE  2^k \in Nat /\ 2^(k + 1) = 2 * 2^k
  <1> DEFINE A == SUBSET (1..k)
             With(x) == x \cup {k + 1}
             B == {With(x) : x \in A}
             f == [x \in A |-> With(x)]
  <1>1. k + 1 \notin 1..k /\ 1..(k + 1) = (1..k) \cup {k + 1}
    OBVIOUS
  <1>2. SUBSET (1..(k + 1)) = A \cup B
    <2>1. ASSUME NEW x \in SUBSET (1..(k + 1)), k + 1 \in x PROVE x \in B
      <3>1. x \ {k + 1} \in A /\ With(x \ {k + 1}) = x
        BY <1>1, <2>1
      <3> QED
        BY <3>1
    <2>2. ASSUME NEW x \in SUBSET (1..(k + 1)), k + 1 \notin x PROVE x \in A
      BY <1>1, <2>2
    <2>3. A \cup B \subseteq SUBSET (1..(k + 1))
      BY <1>1
    <2> QED
      BY <2>1, <2>2, <2>3
  <1>3. A \cap B = {}
    BY <1>1
  <1>4. f \in Bijection(A, B)
    <2>1. f \in [A -> B]
      OBVIOUS
    <2>2. ASSUME NEW x \in A, NEW y \in A, With(x) = With(y) PROVE x = y
      <3>1. x = With(x) \ {k + 1} /\ y = With(y) \ {k + 1}
        BY <1>1
      <3> QED
        BY <2>2, <3>1
    <2>3. \A z \in B : \E x \in A : f[x] = z
      OBVIOUS
    <2> QED
      BY <2>1, <2>2, <2>3 DEF Bijection, Injection, Surjection, IsInjective
  <1>5. IsFiniteSet(A) /\ Cardinality(A) = 2^k
    BY PowerSize
  <1>6. ExistsBijection(A, B)
    BY <1>4 DEF ExistsBijection
  <1>7. IsFiniteSet(B) /\ Cardinality(B) = Cardinality(A)
    BY <1>5, <1>6, FS_Bijection
  <1>8. Cardinality(A) \in Nat
    BY <1>5, FS_CardinalityType
  <1> HIDE DEF A, B
  <1>9. Cardinality(A \cup B) = Cardinality(A) + Cardinality(B)
    <2>1. Cardinality(A \cup B) =
            Cardinality(A) + Cardinality(B) - Cardinality(A \cap B)
      BY <1>5, <1>7, FS_Union
    <2>2. Cardinality(A \cap B) = 0
      BY <1>3, FS_EmptySet
    <2> QED
      BY <1>7, <1>8, <2>1, <2>2
  <1>10. 2^(k + 1) = Cardinality(A \cup B)
    BY <1>2, PowerSize, k + 1 \in Nat
  <1> QED
    BY <1>5, <1>7, <1>8, <1>9, <1>10

-----------------------------------------------------------------------------
(* The backoff.                                                            *)

Uncapped(k) == InitialBackoff * 2^(k - 1)

\* How long the k-th sleep since the last session lasts.
KthBackoff(k) ==
    IF k = 1 THEN InitialBackoff
    ELSE IF Uncapped(k) < MaxBackoff THEN Uncapped(k) ELSE MaxBackoff

LEMMA UncappedDoubles ==
    ASSUME NEW k \in Nat \ {0}
    PROVE  /\ Uncapped(k) \in Nat
           /\ Uncapped(k + 1) = 2 * Uncapped(k)
           /\ Uncapped(1) = InitialBackoff
  <1>1. 2^(k - 1) \in Nat /\ 2^k = 2 * 2^(k - 1)
    <2>1. k - 1 \in Nat /\ (k - 1) + 1 = k
      OBVIOUS
    <2> QED
      BY <2>1, PowerDoubles
  <1>2. ASSUME NEW p \in Nat
        PROVE  /\ InitialBackoff * p \in Nat
               /\ InitialBackoff * (2 * p) = 2 * (InitialBackoff * p)
    BY BackoffAssumption
  <1>3. 2^0 = 1
    OBVIOUS
  <1> QED
    BY <1>1, <1>2, <1>3, BackoffAssumption DEF Uncapped

\* Doubling with the cap leads from each backoff to the next: once the cap is
\* reached it stays.
LEMMA BackoffDoubles ==
    ASSUME NEW k \in Nat \ {0}
    PROVE  Doubled(KthBackoff(k)) = KthBackoff(k + 1)
  <1> DEFINE u == Uncapped(k)
  <1>1. u \in Nat /\ Uncapped(k + 1) = 2 * u /\ (k = 1 => u = InitialBackoff)
    BY UncappedDoubles
  <1>2. k + 1 # 1
    OBVIOUS
  <1> HIDE DEF u
  <1>3. KthBackoff(k) = IF k = 1 \/ u < MaxBackoff THEN u ELSE MaxBackoff
    BY <1>1 DEF KthBackoff, u
  <1>4. KthBackoff(k + 1) = IF 2 * u < MaxBackoff THEN 2 * u ELSE MaxBackoff
    BY <1>1, <1>2 DEF KthBackoff
  <1> QED
    BY <1>1, <1>3, <1>4, BackoffAssumption DEF Doubled

\* The backoff of one agent is the one of the sleep it is in, or of the next.
Paced(r, k) ==
    /\ r.pc \in {"dial", "register", "open", "await"} => r.backoff = KthBackoff(k + 1)
    /\ r.pc \in {"run", "busy"} => k = 0 /\ r.backoff = KthBackoff(1)
    /\ r.pc = "sleep" => k > 0 /\ r.backoff = KthBackoff(k)

BackoffPaced == \A a \in Agents : Paced(agent[a], slept[a])

LEMMA PacedStep ==
    ASSUME AgentTypeOK, BackoffPaced, NEW a \in Agents, AgentStep(a)
    PROVE  BackoffPaced'
  <1> SUFFICES /\ Paced(agent'[a], slept'[a])
               /\ \A b \in Agents \ {a} : agent'[b] = agent[b] /\ slept'[b] = slept[b]
    BY DEF BackoffPaced, Paced
  <1> DEFINE r == agent[a]
             k == slept[a]
  <1>0. /\ r \in [pc : AgentPCs, attempt : 0..MaxAttempts, backoff : Nat]
        /\ k \in Nat /\ Paced(r, k)
    BY DEF AgentTypeOK, BackoffPaced
  <1>a. ASSUME NEW pc, agent' = [agent EXCEPT ![a].pc = pc]
        PROVE  /\ agent'[a].pc = pc /\ agent'[a].backoff = r.backoff
               /\ \A b \in Agents \ {a} : agent'[b] = agent[b]
    BY <1>a DEF AgentTypeOK
  <1>1. CASE Dialled(a) \/ RegisterAccepted(a) \/ StreamRequested(a)
    BY <1>0, <1>1, <1>a
       DEF Dialled, RegisterAccepted, StreamRequested, AgentAt, Paced
  <1>2. CASE BeatDue(a) \/ BeatQueued(a)
    <2>1. PICK to \in {"run", "busy"} :
            agent' = [agent EXCEPT ![a].pc = to] /\ UNCHANGED slept
      BY <1>2 DEF BeatDue, BeatQueued, AgentAt
    <2>2. r.pc \in {"run", "busy"}
      BY <1>2 DEF BeatDue, BeatQueued, AgentAt
    <2>3. agent'[a].pc = to /\ agent'[a].backoff = r.backoff
      BY <1>a, <2>1
    <2>4. k = 0 /\ r.backoff = KthBackoff(1)
      BY <1>0, <2>2 DEF Paced
    <2> QED
      BY <1>a, <2>1, <2>3, <2>4 DEF Paced
  <1>6. CASE CtrlC(a) \/ Killed(a)
    <2>1. agent' = [agent EXCEPT ![a].pc = "stopped"] /\ UNCHANGED slept
      BY <1>6 DEF CtrlC, Killed, AgentAt
    <2> QED
      BY <1>a, <2>1, ZenonT(60) DEF Paced
  <1>3. CASE ConnectFails(a) \/ SessionEnds(a)
    <2>1. AfterAttempt(a) /\ r.backoff = KthBackoff(k + 1)
      BY <1>0, <1>3 DEF ConnectFails, Connecting, SessionEnds, InSession, Paced
    <2>2. CASE OutOfAttempts(r.attempt)
      <3>1. agent' = [agent EXCEPT ![a].pc = "gaveUp"] /\ UNCHANGED slept
        BY <2>1, <2>2 DEF AfterAttempt
      <3> QED
        BY <1>a, <3>1, ZenonT(60) DEF Paced
    <2>3. CASE ~OutOfAttempts(r.attempt)
      <3>1. /\ agent' = [agent EXCEPT ![a].pc = "sleep"]
            /\ slept' = [slept EXCEPT ![a] = k + 1]
        BY <2>1, <2>3 DEF AfterAttempt
      <3>2. slept'[a] = k + 1 /\ \A b \in Agents \ {a} : slept'[b] = slept[b]
        BY <3>1 DEF AgentTypeOK
      <3>3. agent'[a].pc = "sleep" /\ agent'[a].backoff = KthBackoff(k + 1)
        BY <1>a, <2>1, <3>1
      <3>4. k + 1 > 0
        BY <1>0
      <3> QED
        BY <1>a, <3>1, <3>2, <3>3, <3>4 DEF Paced
    <2> QED
      BY <2>2, <2>3
  <1>4. CASE Connected(a)
    <2>1. /\ agent'[a].pc = "run" /\ agent'[a].backoff = InitialBackoff
          /\ slept'[a] = 0
          /\ \A b \in Agents \ {a} : agent'[b] = agent[b] /\ slept'[b] = slept[b]
      BY <1>4 DEF Connected, AgentTypeOK
    <2> QED
      BY <2>1 DEF Paced, KthBackoff
  <1>5. CASE Wake(a)
    <2>1. /\ r.pc = "sleep" /\ agent'[a].pc = "dial"
          /\ agent'[a].backoff = Doubled(r.backoff)
          /\ \A b \in Agents \ {a} : agent'[b] = agent[b]
          /\ UNCHANGED slept
      BY <1>5 DEF Wake, AgentTypeOK
    <2>2. k \in Nat \ {0} /\ r.backoff = KthBackoff(k)
      BY <1>0, <2>1 DEF Paced
    <2>3. agent'[a].backoff = KthBackoff(k + 1)
      BY <2>1, <2>2, BackoffDoubles
    <2> QED
      BY <2>1, <2>3 DEF Paced
  <1> QED
    BY <1>1, <1>2, <1>3, <1>4, <1>5, <1>6 DEF AgentStep

\* Every sleep of the connection loop lasts the initial backoff doubled as many
\* times as it slept before since the last session, within the cap.
THEOREM BackoffDoublesUpToCap == AgentSpec => []BackoffIsExponential
  <1>1. AgentInit => BackoffPaced
    <2> SUFFICES ASSUME AgentInit, NEW a \in Agents
                 PROVE  Paced(agent[a], slept[a])
      BY DEF BackoffPaced
    <2>1. agent[a].pc = "dial" /\ agent[a].backoff = InitialBackoff /\ slept[a] = 0
      BY DEF AgentInit
    <2>2. KthBackoff(0 + 1) = InitialBackoff
      BY DEF KthBackoff
    <2> QED
      BY <2>1, <2>2 DEF Paced
  <1>2. ASSUME AgentTypeOK, BackoffPaced, [AgentNext]_agentVars
        PROVE  BackoffPaced'
    <2>1. CASE UNCHANGED agentVars
      BY <1>2, <2>1 DEF agentVars, BackoffPaced, Paced
    <2> QED
      BY <1>2, <2>1, PacedStep DEF AgentNext, Ended
  <1>3. ASSUME BackoffPaced PROVE BackoffIsExponential
    BY <1>3 DEF BackoffPaced, Paced, KthBackoff, Uncapped, BackoffIsExponential
  <1> QED
    BY <1>1, <1>2, <1>3, AgentTypeCorrect, PTL DEF AgentSpec
=============================================================================
