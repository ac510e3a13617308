------------------------- MODULE MCCloudConnection -------------------------
(* One caller that uses every function of the client, and two structs: one *)
(* can be lost or closed while a VM still points to it.                    *)
EXTENDS CloudConnection
=============================================================================
