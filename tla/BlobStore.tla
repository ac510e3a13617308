----------------------------- MODULE BlobStore -----------------------------
(***************************************************************************)
(* What readBlob and updateBlob of SQLiteCloud promise, without handles,   *)
(* sizes and chunks: a call works on its rows in order.  It looks at a row *)
(* at some moment of its own, then takes what it saw, or replaces what is  *)
(* there by its data.  It may give up at any time, and an update may have  *)
(* cleared the row it was about to write.  Other clients write rows.       *)
(***************************************************************************)
EXTENDS Integers, Sequences

CONSTANTS
  Rows,      \* the rows of the table
  Plain,     \* the calls that may be made
  Foreign,   \* what other clients may write into each row
  Zero,      \* the byte zeroblob() fills a field with
  NoCall     \* stands for no call

VARIABLES
  store,     \* the blob field of each row
  work,      \* the call under way, or NoCall
  seen,      \* the field as the call has looked at it: <<field>>, or <<>>
  results,   \* what the call has to return for the rows it is done with
  outcome    \* how the last call ended, until it is forgotten

vars == <<store, work, seen, results, outcome>>

NoOutcome == [kind |-> "none", results |-> <<>>]
Of(b)     == [size |-> Len(b), bytes |-> b]
SizeOf(b) == [size |-> Len(b), bytes |-> <<>>]

Zeros(n) == [k \in 1..n |-> Zero]

Row   == work.rows[Len(results) + 1]
Data  == work.data[Len(results) + 1]
Busy  == work # NoCall
Ready == Busy /\ Len(results) < Len(work.rows)

Begin ==
  /\ ~Busy
  /\ work' \in Plain
  /\ outcome' = NoOutcome
  /\ UNCHANGED <<store, seen, results>>

Forget ==
  /\ ~Busy
  /\ outcome' = NoOutcome
  /\ UNCHANGED <<store, work, seen, results>>

Look ==
  /\ Ready
  /\ seen' = <<store[Row]>>
  /\ UNCHANGED <<store, work, results, outcome>>

Take ==
  /\ Ready
  /\ work.op = "read" /\ seen # <<>>
  /\ results' = Append(results, Of(seen[1]))
  /\ seen' = <<>>
  /\ UNCHANGED <<store, work, outcome>>

Clear ==
  /\ Ready
  /\ work.op = "update"
  /\ store' = [store EXCEPT ![Row] = Zeros(Len(Data))]
  /\ UNCHANGED <<work, seen, results, outcome>>

Put ==
  /\ Ready
  /\ work.op = "update"
  /\ store' = [store EXCEPT ![Row] = Data]
  /\ results' = Append(results, SizeOf(Data))
  /\ seen' = <<>>
  /\ UNCHANGED <<work, outcome>>

Ended(kind, list) ==
  /\ work' = NoCall /\ seen' = <<>> /\ results' = <<>>
  /\ outcome' = [kind |-> kind, results |-> list]
  /\ UNCHANGED store

(* A call returns only when it is done with all its rows.                  *)
Return == Busy /\ ~Ready /\ Ended("returned", results)

Throw == Ended("thrown", <<>>)

Other ==
  /\ \E r \in Rows : \E f \in Foreign[r] : store' = [store EXCEPT ![r] = f]
  /\ UNCHANGED <<work, seen, results, outcome>>

Init ==
  /\ store \in {s \in [Rows -> UNION {Foreign[r] : r \in Rows}] : \A r \in Rows : s[r] \in Foreign[r]}
  /\ work = NoCall
  /\ seen = <<>>
  /\ results = <<>>
  /\ outcome = NoOutcome

Next ==
  Begin \/ Forget \/ Look \/ Take \/ Clear \/ Put \/ Return \/ Throw \/ Other

Spec == Init /\ [][Next]_vars
=============================================================================
