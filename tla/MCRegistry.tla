---------------------------- MODULE MCRegistry ----------------------------
(* Instance for TLC: two packages compete for a version, two for a         *)
(* sequence, and one of them is signed by a second key.                    *)
EXTENDS Registry, TLC
CONSTANTS k1, k2, k3, ka, kb
PkgVersion == (k1 :> "1.0") @@ (k2 :> "1.0") @@ (k3 :> "1.1")
PkgSeq == (k1 :> 1) @@ (k2 :> 2) @@ (k3 :> 1)
PkgKey == (k1 :> ka) @@ (k2 :> kb) @@ (k3 :> ka)
ProcSymmetry == Permutations(Proc)
===========================================================================
