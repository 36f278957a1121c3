------------------------------- MODULE MCJobs -------------------------------
(* Instances of Jobs for TLC. *)
EXTENDS Jobs, TLC

Sym == Permutations(Workers) \cup Permutations(Users) \cup Permutations(JobIds)
=============================================================================
