----------------------------- MODULE MCDeployer -----------------------------
(* Small instances of ABDeployer for TLC.                                  *)
EXTENDS ABDeployer, TLC

CONSTANTS v1, v2, v3

ReleaseSeqOf == [v \in Version |-> CASE v = v1 -> 0 [] v = v2 -> 1 [] OTHER -> 2]

(* The agents of a shared root are interchangeable.                        *)
AgentSymmetry == Permutations(Proc)
=============================================================================
