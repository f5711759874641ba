------------------------ MODULE MCAgentOperations ------------------------
(***************************************************************************)
(* Bounds for AgentOperations.                                             *)
(***************************************************************************)
EXTENDS AgentOperations, TLC

Symmetry ==
    Permutations(Operation) \cup Permutations(Key) \cup Permutations(Call)
        \cup Permutations(Approver) \cup Permutations(Notice)

Started(processes) == {p \in DOMAIN processes : processes[p].pc # "idle"}

\* Any four requests, in any interleaving.
FourRequests ==
    Cardinality(Started(call)) + Cardinality(Started(approver))
        + Cardinality(Started(notice)) <= 4
=============================================================================
