---------------------------- MODULE ReleaseStore ----------------------------
(***************************************************************************)
(* What the deployment manager promises to the inference engine: one       *)
(* release is served at a time, it changes only by activating a release    *)
(* the anti-rollback policy admits or by swapping back to the previous     *)
(* one, each in a single step, and the floor only rises.  Crashes, failed  *)
(* candidates and recovery are invisible.                                  *)
(***************************************************************************)
EXTENDS Integers

CONSTANTS Version, ReleaseSeq, DowngradeAllowed, None

VARIABLES
    served,   \* bytes found in the active slot
    fallback, \* release an operator rollback would return to
    floor     \* highest release sequence ever activated

storeVars == <<served, fallback, floor>>

StoreInit ==
    /\ served = None
    /\ fallback = None
    /\ floor = -1

Activate(v) ==
    /\ ReleaseSeq[v] > floor \/ DowngradeAllowed
    /\ served' = v
    /\ fallback' = served
    /\ floor' = IF ReleaseSeq[v] > floor THEN ReleaseSeq[v] ELSE floor

SwapBack ==
    /\ fallback # None
    /\ served' = fallback
    /\ fallback' = served
    /\ UNCHANGED floor

StoreNext == SwapBack \/ \E v \in Version : Activate(v)

StoreSpec == StoreInit /\ [][StoreNext]_storeVars
=============================================================================
