------------------------------ MODULE MCCloudVM ------------------------------
(* One statement, rowsets of no, one and two rows.                         *)
EXTENDS CloudVM
=============================================================================
