---------------------------- MODULE MCExecutor ----------------------------
\* Instances of the executor for TLC.
EXTENDS InferenceExecutor, TLC

CONSTANTS t1, t2, t3, w1, w2

\* The worker threads are alike.
WorkerSymmetry == Permutations(Worker)
===========================================================================
