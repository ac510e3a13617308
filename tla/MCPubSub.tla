------------------------------ MODULE MCPubSub ------------------------------
(* Two callers, a channel and a table, the name of all tables and a second *)
(* connect().  Callers are interchangeable, and so are the two names.      *)
EXTENDS PubSub, TLC

Interchangeable == Permutations(Callers) \cup Permutations(Channels)
=============================================================================
