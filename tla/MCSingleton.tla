---------------------------- MODULE MCSingleton ----------------------------
(* The singleton objects a and b of one action, with the values v, w and x.  *)
EXTENDS Singleton

CONSTANTS a, b, v, w, x
=============================================================================
