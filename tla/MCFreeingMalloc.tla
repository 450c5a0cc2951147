--------------------------- MODULE MCFreeingMalloc ---------------------------
(* FreeingMalloc on heaps of a few blocks.                                  *)
EXTENDS FreeingMalloc
=============================================================================
