------------------------- MODULE MCSynchronisation -------------------------
(* Three runs of the worker, two databases, six coroutines.                *)
EXTENDS Synchronisation
=============================================================================
