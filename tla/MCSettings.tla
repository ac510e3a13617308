----------------------------- MODULE MCSettings ----------------------------
(* Model-checking wrapper of Settings: two users' accounts, one of them    *)
(* with the connection string that also is the default.                    *)
EXTENDS Settings

MCUsers == {"ann", "bob"}
MCConnections == {"remote", DefaultConnection}
MCNewCategories == {"", "Taxi"}
=============================================================================
