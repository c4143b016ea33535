-------------------------- MODULE MCBuilderSession --------------------------
(* Model checking of BuilderSession on small instances.                    *)
EXTENDS BuilderSession, TLC

Symmetric == Permutations(Procs)
=============================================================================
