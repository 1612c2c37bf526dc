---- MODULE MCAgentJobs ----
(* AgentJobs for TLC: jobs of one kind are interchangeable. *)
EXTENDS AgentJobs, TLC

Symmetry == Permutations(RefreshJobs) \cup Permutations(ClientJobs) \cup Permutations(DefaultJobs)
====
