------------------------ MODULE MCManifestLifecycle ------------------------
(* Model checking of ManifestLifecycle on small instances.                 *)
EXTENDS ManifestLifecycle, TLC

Symmetric == Permutations(Procs)
=============================================================================
