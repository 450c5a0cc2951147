--------------------------- MODULE MCSimpleMalloc ---------------------------
(* Model checking of SimpleMalloc on a memory of a few short pages.         *)
EXTENDS SimpleMalloc
=============================================================================
