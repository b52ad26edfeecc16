----------------------------- MODULE MCRunner -----------------------------
\* Instances of the process runner for TLC; the constants are in the cfgs.
EXTENDS ProcessRunner
===========================================================================
