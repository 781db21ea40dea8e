--------------------------- MODULE MCPendingSends ---------------------------
(* Model checking of PendingSends: tabs, and the calls within one, are     *)
(* interchangeable.                                                        *)
EXTENDS PendingSends, TLC

Symmetry == Permutations(Devices) \cup Permutations(Resumes)

\* The chat is opened on every device after its first send died before the main
\* request: a state that Spec reaches by UserSends, Save, Call, Age and a TabDies
\* per device.
Interrupted ==
    /\ tomb = 1
    /\ aged = {1}
    /\ fate = [g \in Sends |-> IF g = 1 THEN "interrupted" ELSE "unused"]
    /\ job = [g \in Sends |-> "none"]
    /\ rerunOf = [g \in Sends |-> None]
    /\ took = [g \in Sends |-> None]
    /\ saved = [last |-> "user", replies |-> {}]
    /\ copy = [d \in Devices |-> saved]
    /\ live = [d \in Devices |-> None]
    /\ stuck = [d \in Devices |-> None]
    /\ open = [d \in Devices |-> TRUE]
    /\ chain = [d \in Devices |-> <<>>]
    /\ flag = [d \in Devices |-> None]
    /\ listed = [d \in Devices |-> None]
    /\ faults = 0
    /\ resume = [d \in Devices |-> [r \in Resumes |-> Idle]]

SpecInterrupted == Interrupted /\ [][Next]_vars
=============================================================================
