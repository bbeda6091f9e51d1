----------------------------- MODULE Membership -----------------------------
(***************************************************************************)
(* What the control plane promises about the nodes it lists, without the   *)
(* connection numbers, the task maps, the gauges and the cleanup ticker:   *)
(*                                                                         *)
(*   - a node is listed from the moment it registers;                      *)
(*   - hearing from a listed node resets its silence, and hearing from a   *)
(*     node that is not listed does nothing;                               *)
(*   - an expiry takes every node silent for more than Threshold and no    *)
(*     other;                                                              *)
(*   - no listed node is ever silent for more than Grace.                  *)
(*                                                                         *)
(* NodeRegistry is shown to implement this specification.                  *)
(***************************************************************************)
EXTENDS Naturals

CONSTANTS
    Nodes,      \* the node ids agents register under
    Threshold,  \* a node silent for longer than this may be expired
    Grace       \* no listed node is ever silent for longer than this

VARIABLE silence    \* listed node -> time since it was last heard

Listed == DOMAIN silence

Nobody == [n \in {} |-> 0]

Init == silence = Nobody

Join(n) ==
    silence' = [m \in Listed \cup {n} |-> IF m = n THEN 0 ELSE silence[m]]

Hear(n) ==
    /\ n \in Listed
    /\ silence' = [silence EXCEPT ![n] = 0]

Leave(n) ==
    /\ n \in Listed
    /\ silence' = [m \in Listed \ {n} |-> silence[m]]

Expire ==
    silence' = [m \in {l \in Listed : silence[l] <= Threshold} |-> silence[m]]

\* Time may pass only while no listed node would overstay its grace.
Pass ==
    /\ \A n \in Listed : silence[n] < Grace
    /\ silence' = [m \in Listed |-> silence[m] + 1]

\* The process dies and a new one starts with an empty list.
Crash == silence' = Nobody

Next ==
    \/ \E n \in Nodes : Join(n) \/ Hear(n) \/ Leave(n)
    \/ Expire
    \/ Pass
    \/ Crash

Spec == Init /\ [][Next]_silence
=============================================================================
