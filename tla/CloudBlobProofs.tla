-------------------------- MODULE CloudBlobProofs --------------------------
(***************************************************************************)
(* The blob functions, for any table, any calls and any bytes: types, the  *)
(* handles left on the server, the progress of the loops, and that the     *)
(* calls which cut no field into chunks implement the table of BlobStore.  *)
(***************************************************************************)
EXTENDS CloudBlob, SequenceTheorems, TLAPS

Working == {"open", "reopen", "bytes", "expand", "again", "io", "closeThrow"}
Holding == {"bytes", "expand", "again", "io"}

(* Where a call is: it has rows to do, or is done with all of them.        *)
Progress ==
  /\ pc \in Working => Len(results) < Len(call.rows)
  /\ pc = "close" => Len(results) = Len(call.rows)
  /\ pc = "none" => results = <<>> /\ call.rows = <<>>
  /\ pc \in {"expand", "again", "closeThrow"} => call.op = "update"
  /\ pc \in {"expand", "again"} => pos = 0 /\ buffer = <<>>
  /\ pc = "io" => call.op \in {"read", "update"}

(* The handle is on the row that is being done, and shows its field unless *)
(* somebody has written it.                                                *)
OnRow ==
  /\ pc \in Holding =>
       cursor.row = Row /\ (~cursor.expired => store[Row] = cursor.field)
  /\ pc = "io" /\ call.op = "read" => total = Len(cursor.field)

(* The calls whose handles may have been left open without an error.       *)
Leak == {c \in Calls : Fragile(c) \/ (odd /\ c.op = "read")}

(* Which handles the server may hold, and that a handle which could not be *)
(* opened again has left an error.                                         *)
HandlesHeld ==
  /\ pc \in {"open", "none"} => handles \subseteq Leak
  /\ pc \in Holding \cup {"reopen", "close", "closeThrow"} => handles \subseteq Leak \cup {call}
  /\ pc \in {"bytes", "expand", "again", "reopen", "close"} => ~rc
  /\ pc = "io" /\ rc => err /\ call.op = "update"

IInv == TypeOK /\ Progress /\ OnRow /\ HandlesHeld /\ HandlesAreClosed

(* Fields never exceed their row's width, and updates fill it without      *)
(* being cut into chunks.                                                  *)
Fills ==
  /\ \A r \in Rows : \A f \in Foreign[r] : Len(f) <= Width[r]
  /\ \A c \in Calls : c.op = "update" =>
       c \in Plain /\ \A k \in 1..Len(c.rows) : Len(c.data[k]) = Width[c.rows[k]]

(* Then the loops of a plain call make one round.                          *)
OneRound ==
  /\ \A r \in Rows : Len(store[r]) <= Width[r]
  /\ pc \in {"bytes", "expand", "again", "io"} => Len(cursor.field) <= Width[Row]
  /\ pc = "io" /\ call \in Plain => pos = 0 /\ buffer = <<>>

-----------------------------------------------------------------------------
(* Facts about sequences, calls and sizes.                                 *)
LEMMA CallTypes ==
  ASSUME TypeOK
  PROVE  /\ call \in Calls
         /\ call.op \in {"sizes", "read", "update"}
         /\ call.threshold \in Nat /\ Len(call.io) = Len(call.rows)
         /\ call.rows \in Seq(Rows) /\ call.data \in Seq(Fields)
         /\ Len(call.data) = Len(call.rows) /\ Len(call.rows) \in Nat
         /\ results \in Results /\ Len(results) \in Nat
BY BlobAssumption DEF TypeOK, Fields, Results

(* How calls end.                                                          *)
Outcomes == [kind : {"none", "returned", "thrown"}, results : Results]

LEMMA OutcomeTypes ==
  /\ <<>> \in Results /\ <<>> \in Fields /\ Len(<<>>) = 0
  /\ \A k \in {"none", "returned", "thrown"}, r \in Results :
       [kind |-> k, results |-> r] \in Outcomes
BY DEF Results, Fields, Outcomes

LEMMA RowTypes ==
  ASSUME TypeOK, Len(results) < Len(call.rows)
  PROVE  Row \in Rows /\ Data \in Fields /\ Len(Data) \in Nat /\ store[Row] \in Fields
<1>1. Len(results) + 1 \in 1..Len(call.rows) /\ Len(results) + 1 \in 1..Len(call.data)
  BY CallTypes
<1>2. Row \in Rows /\ Data \in Fields
  BY <1>1, CallTypes DEF Row, Data
<1> QED
  BY <1>2 DEF TypeOK, Fields

(* Part of a field, and data put over it, are fields.                      *)
LEMMA Slice ==
  ASSUME NEW f \in Fields, NEW i \in Nat, NEW n \in Nat, i + n <= Len(f)
  PROVE  SubSeq(f, i + 1, i + n) \in Fields /\ Len(SubSeq(f, i + 1, i + n)) = n
BY DEF Fields

LEMMA OverTypes ==
  ASSUME NEW d \in Fields, NEW f \in Fields, Len(d) <= Len(f)
  PROVE  Over(d, f) \in Fields /\ Len(Over(d, f)) = Len(f)
BY DEF Fields, Over

LEMMA OverNothing ==
  ASSUME NEW f \in Fields
  PROVE  Over(<<>>, f) = f
BY DEF Fields, Over

LEMMA ZerosTypes ==
  ASSUME NEW n \in Nat
  PROVE  Abs!Zeros(n) \in Fields /\ Len(Abs!Zeros(n)) = n
BY BlobAssumption DEF Abs!Zeros, Fields

LEMMA DivNat ==
  ASSUME NEW a \in Nat, NEW b \in Nat \ {0}
  PROVE  a \div b \in Nat
OBVIOUS

(* A chunk is no longer than what is left.                                 *)
LEMMA ChunkFits ==
  ASSUME TypeOK, Size \in Nat, pos \in Nat, pos <= Size
  PROVE  NextChunkSize \in Nat /\ pos + NextChunkSize <= Size
<1>1. call.threshold \in Nat
  BY CallTypes
<1>2. Size \div Parts \in Nat /\ call.threshold \div Parts \in Nat
  BY <1>1, BlobAssumption, DivNat
<1>3. ChunkSize \in Nat
  BY <1>2 DEF ChunkSize
<1> QED
  BY <1>3 DEF NextChunkSize

LEMMA DivPositive ==
  ASSUME NEW a \in Nat, NEW b \in Nat \ {0}, b <= a
  PROVE  a \div b > 0
OBVIOUS

(* A call may have been left open in a later state if it may be in this.   *)
LEMMA LeakGrows ==
  ASSUME odd => odd'
  PROVE  Leak \subseteq Leak'
BY DEF Leak, Fragile

LEMMA MayLeak ==
  ASSUME TypeOK, Len(results) < Len(call.rows), Len(results) \in Nat, Len(call.rows) \in Nat,
         \/ call.op = "read" /\ Io # "buffer"
         \/ call.op = "update" /\ Io = "nofile"
  PROVE  call \in Leak /\ call \in Leak'
<1>1. Len(results) + 1 \in 1..Len(call.rows)
  OBVIOUS
<1>2. Io \in {"buffer", "file", "nofile"}
  BY <1>1, BlobAssumption DEF TypeOK, Io
<1>3. Fragile(call)
  BY <1>1, <1>2 DEF Fragile, Io
<1> QED
  BY <1>3 DEF Leak, TypeOK, Fragile

-----------------------------------------------------------------------------
LEMMA InitIInv == Init => IInv
<1> SUFFICES ASSUME Init PROVE IInv
  OBVIOUS
<1>1. store \in [Rows -> Fields]
  <2>1. store \in [Rows -> UNION {Foreign[r] : r \in Rows}]
    BY DEF Init
  <2>2. UNION {Foreign[r] : r \in Rows} \subseteq Fields
    BY BlobAssumption DEF Fields
  <2> QED
    BY <2>1, <2>2
<1>2. results \in Results /\ buffer \in Fields /\ Len(results) = 0
  BY OutcomeTypes DEF Init
<1>3. call \in Calls /\ Len(call.rows) = 0
  BY DEF Init
<1>4. outcome \in Outcomes
  BY OutcomeTypes DEF Init, Abs!NoOutcome
<1>5. cursor \in [row : Rows, field : Fields, expired : BOOLEAN]
  BY OutcomeTypes DEF Init
<1>6. pc = "idle" /\ handles = {} /\ rc \in BOOLEAN /\ err \in BOOLEAN /\ odd \in BOOLEAN
  BY Zenon DEF Init
<1>7. total \in Nat \cup {-1} /\ pos \in Nat
  BY DEF Init
<1>8. TypeOK
  BY <1>1, <1>2, <1>3, <1>4, <1>5, <1>6, <1>7 DEF TypeOK, Outcomes
<1> QED
  BY <1>8 DEF Init, IInv, Progress, OnRow, HandlesHeld, HandlesAreClosed, Working, Holding

LEMMA BeginIInv ==
  ASSUME IInv, NEW c \in Calls, Begin(c)
  PROVE  IInv'
<1>1. /\ results' = <<>> /\ <<>> \in Results /\ Len(results') = 0 /\ c.rows \in Seq(Rows)
      /\ Len(c.rows) \in Nat /\ (c.rows # <<>> => Len(c.rows) > 0)
  BY BlobAssumption DEF Begin, Results
<1>2. TypeOK'
  BY <1>1 DEF IInv, TypeOK, Begin
<1>3. Progress' /\ OnRow'
  BY <1>1 DEF IInv, TypeOK, Begin, Progress, OnRow, Working, Holding
<1>4. HandlesHeld' /\ HandlesAreClosed'
  BY DEF IInv, TypeOK, Begin, HandlesHeld, HandlesAreClosed, Holding, Leak
<1> QED
  BY <1>2, <1>3, <1>4 DEF IInv

LEMMA NoRowsIInv ==
  ASSUME IInv, Refused \/ NoRows \/ Reconnect
  PROVE  IInv'
<1>1. outcome' \in Outcomes
  BY OutcomeTypes DEF IInv, TypeOK, Outcomes, Refused, NoRows, Reconnect, Throw
<1>2. TypeOK'
  BY <1>1 DEF IInv, TypeOK, Outcomes, Refused, NoRows, Reconnect, Throw
<1>3. Progress' /\ OnRow'
  BY DEF IInv, TypeOK, Refused, NoRows, Reconnect, Throw, Progress, OnRow, Working, Holding
<1>4. HandlesHeld' /\ HandlesAreClosed'
  BY DEF IInv, TypeOK, Refused, NoRows, Reconnect, Throw, HandlesHeld, HandlesAreClosed, Holding, Leak
<1> QED
  BY <1>2, <1>3, <1>4 DEF IInv

LEMMA OtherIInv ==
  ASSUME IInv, NEW r \in Rows, NEW f \in Foreign[r], Other(r, f)
  PROVE  IInv'
<1>1. f \in Fields
  BY BlobAssumption DEF Fields
<1>2. TypeOK'
  BY <1>1 DEF IInv, TypeOK, Other, Size, Data
<1>3. Progress' /\ HandlesHeld' /\ HandlesAreClosed'
  BY DEF IInv, Other, Progress, HandlesHeld, HandlesAreClosed, Leak
<1>4. OnRow'
  BY DEF IInv, TypeOK, Other, OnRow, Row
<1> QED
  BY <1>2, <1>3, <1>4 DEF IInv

-----------------------------------------------------------------------------
(* A row is done.                                                          *)
LEMMA AdvanceTypes ==
  ASSUME TypeOK, Len(results) < Len(call.rows), call' = call,
         NEW r \in [size : Nat \cup {-1}, bytes : Fields], Advance(r)
  PROVE  /\ results' \in Results /\ Len(results') = Len(results) + 1
         /\ pc' \in {"reopen", "close"} /\ outcome' = outcome
         /\ pc' = "reopen" => Len(results') < Len(call.rows)
         /\ pc' = "close" => Len(results') = Len(call.rows)
BY CallTypes DEF Advance, Results

(* The types of what an action changes before it goes on.                  *)
Changes ==
  /\ store' \in [Rows -> Fields] /\ call' = call
  /\ cursor' \in [row : Rows, field : Fields, expired : BOOLEAN]
  /\ rc' \in BOOLEAN /\ err' \in BOOLEAN /\ odd' \in BOOLEAN /\ (odd => odd')
  /\ total' \in Nat \cup {-1} /\ buffer' \in Fields /\ pos' \in Nat

LEMMA RowDone ==
  ASSUME TypeOK, Len(results) < Len(call.rows), Changes,
         NEW r \in [size : Nat \cup {-1}, bytes : Fields], Advance(r),
         handles' = handles, handles \subseteq Leak \cup {call}, ~rc'
  PROVE  IInv'
<1>1. /\ results' \in Results /\ Len(results') = Len(results) + 1
      /\ pc' \in {"reopen", "close"} /\ outcome' = outcome
      /\ pc' = "reopen" => Len(results') < Len(call.rows)
      /\ pc' = "close" => Len(results') = Len(call.rows)
  BY AdvanceTypes DEF Changes
<1>2. TypeOK'
  BY <1>1 DEF TypeOK, Changes
<1>3. Progress' /\ OnRow'
  BY <1>1 DEF Progress, OnRow, Working, Holding, Changes
<1>4. Leak \subseteq Leak' /\ call' = call
  BY LeakGrows DEF Changes
<1>5. HandlesHeld' /\ HandlesAreClosed'
  BY <1>1, <1>4 DEF HandlesHeld, HandlesAreClosed, Holding
<1> QED
  BY <1>2, <1>3, <1>5 DEF IInv

(* An exception after a command that has failed.                           *)
LEMMA Thrown ==
  ASSUME IInv, Len(results) < Len(call.rows), Changes, Throw,
         handles' = handles, err' \/ handles \subseteq Leak'
  PROVE  IInv'
<1>1. TypeOK'
  BY OutcomeTypes DEF IInv, TypeOK, Throw, Outcomes, Changes
<1>2. Progress' /\ OnRow' /\ HandlesHeld'
  BY DEF Throw, Progress, OnRow, HandlesHeld, Working, Holding
<1>3. HandlesAreClosed'
  BY DEF HandlesAreClosed, Leak
<1> QED
  BY <1>1, <1>2, <1>3 DEF IInv

LEMMA OpenIInv ==
  ASSUME IInv, NEW a, Open(a)
  PROVE  IInv'
<1>1. pc = "open" /\ Len(results) < Len(call.rows) /\ TypeOK /\ handles \subseteq Leak
  BY DEF IInv, Progress, Working, Open, HandlesHeld
<1>2. Row \in Rows /\ store[Row] \in Fields
  BY <1>1, RowTypes
<1>3. Opened(Row) \in [row : Rows, field : Fields, expired : BOOLEAN]
  BY <1>2 DEF Opened
<1>4. err' \in BOOLEAN /\ rc' = FALSE /\ UNCHANGED <<store, call, odd, total, buffer, pos>>
  BY Zenon DEF Open, Answer
<1>5. CASE a = "ok"
  <2>1. /\ GoTo("bytes") /\ cursor' = Opened(Row) /\ handles' = handles \cup {call}
    BY <1>5 DEF Open
  <2>2. TypeOK'
    BY <1>1, <1>3, <1>4, <2>1 DEF TypeOK, GoTo
  <2>3. Progress' /\ OnRow' /\ HandlesHeld' /\ HandlesAreClosed'
    BY <1>1, <1>4, <2>1 DEF GoTo, Progress, Working, OnRow, Holding, Opened, Row,
       HandlesHeld, HandlesAreClosed, Leak
  <2> QED
    BY <2>2, <2>3 DEF IInv
<1>6. CASE a # "ok"
  <2>1. Throw /\ cursor' = cursor /\ handles' = handles
    BY <1>6 DEF Open
  <2>2. Changes /\ Leak \subseteq Leak'
    BY <1>1, <1>4, <2>1, LeakGrows DEF TypeOK, Changes
  <2> QED
    BY <1>1, <2>1, <2>2, Thrown
<1> QED
  BY <1>5, <1>6

LEMMA ReopenIInv ==
  ASSUME IInv, NEW ok \in BOOLEAN, Reopen(ok)
  PROVE  IInv'
<1>1. pc = "reopen" /\ Len(results) < Len(call.rows) /\ TypeOK /\ handles \subseteq Leak \cup {call}
  BY DEF IInv, Progress, Working, Reopen, HandlesHeld
<1>2. Row \in Rows /\ store[Row] \in Fields
  BY <1>1, RowTypes
<1>3. Opened(Row) \in [row : Rows, field : Fields, expired : BOOLEAN]
  BY <1>2 DEF Opened
<1>4. /\ err' = ~ok /\ rc' = ~ok /\ UNCHANGED <<store, call, handles, odd, total, buffer, pos>>
  BY Zenon DEF Reopen, Reply
<1>5. CASE ok
  <2>1. GoTo("bytes") /\ cursor' = Opened(Row)
    BY Zenon, <1>5 DEF Reopen
  <2>2. TypeOK'
    BY <1>1, <1>3, <1>4, <1>5, <2>1 DEF TypeOK, GoTo
  <2>3. Progress' /\ OnRow' /\ HandlesHeld' /\ HandlesAreClosed'
    BY <1>1, <1>4, <1>5, <2>1 DEF GoTo, Progress, Working, OnRow, Holding, Opened, Row,
       HandlesHeld, HandlesAreClosed, Leak
  <2> QED
    BY <2>2, <2>3 DEF IInv
<1>6. CASE ~ok
  <2>1. Throw /\ cursor' = cursor
    BY Zenon, <1>6 DEF Reopen
  <2>2. Changes /\ err'
    BY <1>1, <1>4, <1>6, <2>1 DEF TypeOK, Changes
  <2> QED
    BY <1>1, <1>4, <2>1, <2>2, Thrown
<1> QED
  BY <1>5, <1>6

(* How an update goes on once there is room, or none is asked for.         *)
LEMMA ToWriteCases ==
  ASSUME TypeOK, Len(results) < Len(call.rows), ToWrite
  PROVE  \/ GoTo("io") /\ Len(Data) > 0
         \/ GoTo("closeThrow")
         \/ Advance(Abs!SizeOf(<<>>)) /\ Data = <<>> /\ ~err'
<1>1. Data \in Fields /\ Len(Data) \in Nat
  BY RowTypes
<1>2. Len(Data) = 0 => Data = <<>>
  BY <1>1 DEF Fields
<1> QED
  BY <1>1, <1>2 DEF ToWrite

(* What the three functions make of the size they are told.                *)
Told ==
  \/ Throw /\ (err' \/ call \in Leak')
  \/ call.op = "sizes" /\ \E n \in Nat \cup {-1} : Advance([size |-> n, bytes |-> <<>>])
  \/ call.op = "read" /\ cursor.field = <<>> /\ Advance(Abs!Of(<<>>))
  \/ call.op = "read" /\ GoTo("io") /\ total' = Len(cursor.field) /\ total' > 0
  \/ /\ call.op = "update"
     /\ \/ GoTo("io") /\ Len(Data) > 0
        \/ GoTo("closeThrow")
        \/ GoTo("expand")
        \/ Advance(Abs!SizeOf(<<>>)) /\ Data = <<>>

LEMMA BytesTold ==
  ASSUME IInv, NEW a, Bytes(a)
  PROVE  Told
<1>1. TypeOK /\ pc = "bytes" /\ Len(results) < Len(call.rows)
  BY DEF IInv, Progress, Working, Bytes
<1>2. cursor.field \in Fields /\ Len(cursor.field) \in Nat /\ (Len(cursor.field) = 0 => cursor.field = <<>>)
  BY <1>1 DEF TypeOK, Fields
<1>3. call.op \in {"sizes", "read", "update"} /\ Len(results) \in Nat /\ Len(call.rows) \in Nat
  BY <1>1, CallTypes
<1> DEFINE n == IF a = "ok" THEN Len(cursor.field) ELSE -1
<1>4. total' = n /\ (a = "ok" \/ err' \/ odd')
  BY Zenon DEF Bytes, Answer
<1>5. CASE call.op = "sizes"
  <2>1. Advance([size |-> n, bytes |-> <<>>])
    BY <1>5 DEF Bytes, WithSizes
  <2>2. n \in Nat \cup {-1}
    BY <1>2
  <2> QED
    BY <1>5, <2>1, <2>2 DEF Told
<1>6. CASE call.op = "read"
  <2>1. ToRead(n) /\ call' = call
    BY <1>6 DEF Bytes
  <2>2. CASE Io # "buffer"
    <3>1. Throw
      BY <2>1, <2>2 DEF ToRead
    <3>2. call \in Leak'
      BY <1>1, <1>3, <1>6, <2>2, MayLeak
    <3> QED
      BY <3>1, <3>2 DEF Told
  <2>3. CASE n = -1
    <3>1. Throw /\ (err' \/ odd')
      BY <1>2, <1>4, <2>1, <2>3 DEF ToRead
    <3>2. odd' => call \in Leak'
      BY <1>1, <1>6 DEF Leak, TypeOK
    <3> QED
      BY <3>1, <3>2 DEF Told
  <2>4. CASE Io = "buffer" /\ n # -1
    <3>1. IF n = 0 THEN Advance(Abs!Of(<<>>)) ELSE GoTo("io")
      BY <2>1, <2>4 DEF ToRead
    <3>2. n = Len(cursor.field)
      BY <2>4
    <3> QED
      BY <1>2, <1>4, <1>6, <3>1, <3>2 DEF Told
  <2> QED
    BY <2>2, <2>3, <2>4
<1>7. CASE call.op = "update"
  <2>1. ToUpdate(n)
    BY <1>7 DEF Bytes
  <2>2. CASE Io = "nofile"
    <3>1. Throw
      BY <2>1, <2>2 DEF ToUpdate
    <3>2. call \in Leak'
      BY <1>1, <1>3, <1>7, <2>2, MayLeak
    <3> QED
      BY <3>1, <3>2 DEF Told
  <2>3. CASE Io # "nofile"
    <3>1. GoTo("expand") \/ ToWrite
      BY <2>1, <2>3 DEF ToUpdate
    <3> QED
      BY <1>1, <1>7, <3>1, ToWriteCases DEF Told
  <2> QED
    BY <2>2, <2>3
<1> QED
  BY <1>3, <1>5, <1>6, <1>7

(* The results of rows are well typed.                                     *)
LEMMA ResultTypes ==
  ASSUME NEW f \in Fields
  PROVE  /\ Abs!Of(f) \in [size : Nat \cup {-1}, bytes : Fields]
         /\ Abs!SizeOf(f) \in [size : Nat \cup {-1}, bytes : Fields]
BY OutcomeTypes DEF Abs!Of, Abs!SizeOf, Fields

LEMMA BytesIInv ==
  ASSUME IInv, NEW a, Bytes(a)
  PROVE  IInv'
<1>1. TypeOK /\ pc = "bytes" /\ Len(results) < Len(call.rows)
  BY DEF IInv, Progress, Working, Bytes
<1>2. cursor.field \in Fields /\ Len(cursor.field) \in Nat
  BY <1>1 DEF TypeOK, Fields
<1>3. /\ total' \in Nat \cup {-1} /\ buffer' = <<>> /\ <<>> \in Fields /\ pos' = 0
      /\ UNCHANGED <<store, call, cursor, handles, rc>>
  BY <1>2, OutcomeTypes DEF Bytes
<1>4. err' \in BOOLEAN /\ odd' \in BOOLEAN /\ (odd => odd')
  BY Zenon, <1>1 DEF Bytes, Answer, TypeOK
<1>5. Told
  BY BytesTold
<1>6. Changes /\ handles' = handles /\ handles \subseteq Leak \cup {call} /\ ~rc'
  BY <1>1, <1>3, <1>4 DEF IInv, TypeOK, Changes, HandlesHeld, Holding
<1>7. Leak \subseteq Leak'
  BY <1>4, LeakGrows
<1>8. CASE Throw /\ (err' \/ call \in Leak')
  BY <1>1, <1>6, <1>7, <1>8, Thrown
<1>9. CASE \E r \in [size : Nat \cup {-1}, bytes : Fields] : Advance(r)
  BY <1>1, <1>6, <1>9, RowDone
<1>10. CASE call.op = "read" /\ GoTo("io") /\ total' = Len(cursor.field) /\ total' > 0
  <2>1. TypeOK'
    BY <1>1, <1>3, <1>4, <1>10 DEF TypeOK, GoTo, Size
  <2>2. Progress' /\ OnRow'
    BY <1>1, <1>3, <1>10 DEF IInv, GoTo, Progress, OnRow, Working, Holding, Row
  <2>3. HandlesHeld' /\ HandlesAreClosed'
    BY <1>3, <1>6, <1>7, <1>10 DEF GoTo, HandlesHeld, HandlesAreClosed, Holding
  <2> QED
    BY <2>1, <2>2, <2>3 DEF IInv
<1>11. CASE call.op = "update" /\ (\/ GoTo("io") /\ Len(Data) > 0
                                   \/ GoTo("closeThrow")
                                   \/ GoTo("expand"))
  <2>1. TypeOK'
    BY <1>1, <1>3, <1>4, <1>11 DEF TypeOK, GoTo, Size, Data
  <2>2. Progress' /\ OnRow'
    BY <1>1, <1>3, <1>11 DEF IInv, GoTo, Progress, OnRow, Working, Holding, Row
  <2>3. HandlesHeld' /\ HandlesAreClosed'
    BY <1>3, <1>6, <1>7, <1>11 DEF GoTo, HandlesHeld, HandlesAreClosed, Holding
  <2> QED
    BY <2>1, <2>2, <2>3 DEF IInv
<1>12. \A n \in Nat \cup {-1} : [size |-> n, bytes |-> <<>>] \in [size : Nat \cup {-1}, bytes : Fields]
  BY <1>3
<1> QED
  BY <1>2, <1>5, <1>8, <1>9, <1>10, <1>11, <1>12, ResultTypes, OutcomeTypes DEF Told

LEMMA ExpandIInv ==
  ASSUME IInv, NEW ok \in BOOLEAN, Expand(ok)
  PROVE  IInv'
<1>1. TypeOK /\ pc = "expand" /\ Len(results) < Len(call.rows) /\ call.op = "update"
  BY DEF IInv, Progress, Working, Expand
<1>2. Row \in Rows /\ Abs!Zeros(Len(Data)) \in Fields
  BY <1>1, RowTypes, ZerosTypes
<1>3. outcome' \in Outcomes /\ results' = results /\ err' \in BOOLEAN /\ odd' = odd
  BY <1>1, OutcomeTypes DEF TypeOK, Outcomes, Expand, GoTo, Throw, Reply
<1>4. cursor' \in [row : Rows, field : Fields, expired : BOOLEAN]
  BY <1>1 DEF TypeOK, Expand
<1>5. TypeOK'
  BY <1>1, <1>2, <1>3, <1>4 DEF TypeOK, Outcomes, Expand, GoTo, Throw
<1>6. Leak \subseteq Leak' /\ UNCHANGED <<call, handles, rc>> /\ (ok \/ err')
  BY LeakGrows, Zenon DEF Expand, Reply
<1>7. Progress' /\ HandlesHeld' /\ HandlesAreClosed'
  BY <1>1, <1>6 DEF IInv, Expand, GoTo, Throw, Progress, HandlesHeld, HandlesAreClosed,
     Working, Holding
<1>8. OnRow'
  BY <1>1 DEF IInv, TypeOK, Expand, GoTo, Throw, OnRow, Holding, Row
<1> QED
  BY <1>5, <1>7, <1>8 DEF IInv

LEMMA AgainIInv ==
  ASSUME IInv, NEW ok \in BOOLEAN, Again(ok)
  PROVE  IInv'
<1>1. /\ TypeOK /\ pc = "again" /\ Len(results) < Len(call.rows) /\ call.op = "update"
      /\ handles \subseteq Leak \cup {call}
  BY DEF IInv, Progress, Working, Again, HandlesHeld, Holding
<1>2. Row \in Rows /\ store[Row] \in Fields
  BY <1>1, RowTypes
<1>3. cursor' \in [row : Rows, field : Fields, expired : BOOLEAN] /\ rc' \in BOOLEAN /\ err' \in BOOLEAN
  BY <1>1, <1>2 DEF TypeOK, Again, Opened, Reply
<1>4. rc' => err'
  BY Zenon DEF Again, Reply
<1>5. UNCHANGED <<store, call, handles, odd, total, buffer, pos>>
  BY DEF Again, Reply
<1>6. Changes
  BY <1>1, <1>3, <1>5 DEF TypeOK, Changes
<1>7. cursor'.row = Row /\ (~cursor'.expired => store[Row] = cursor'.field)
  BY <1>1 DEF IInv, OnRow, Holding, Again, Opened
<1>8. CASE Advance(Abs!SizeOf(<<>>)) /\ Data = <<>> /\ ~err'
  BY <1>1, <1>4, <1>5, <1>6, <1>8, RowDone, ResultTypes, OutcomeTypes
<1>9. CASE (GoTo("io") /\ Len(Data) > 0) \/ GoTo("closeThrow")
  <2>1. pos = 0
    BY <1>1 DEF IInv, Progress
  <2>2. TypeOK'
    BY <1>1, <1>3, <1>5, <1>9, <2>1 DEF TypeOK, GoTo, Size, Data
  <2>3. Progress' /\ OnRow'
    BY <1>1, <1>5, <1>7, <1>9 DEF GoTo, Progress, OnRow, Working, Holding, Row
  <2>4. HandlesHeld' /\ HandlesAreClosed'
    BY <1>1, <1>4, <1>5, <1>9 DEF GoTo, HandlesHeld, HandlesAreClosed, Holding, Leak
  <2> QED
    BY <2>2, <2>3, <2>4 DEF IInv
<1> QED
  BY <1>1, <1>8, <1>9, ToWriteCases DEF Again

LEMMA ReadChunkIInv ==
  ASSUME IInv, NEW a, ReadChunk(a)
  PROVE  IInv'
<1>1. /\ TypeOK /\ pc = "io" /\ Len(results) < Len(call.rows) /\ call.op = "read"
      /\ handles \subseteq Leak \cup {call} /\ total = Len(cursor.field)
  BY DEF IInv, Progress, OnRow, Working, ReadChunk, HandlesHeld, Holding
<1>2. cursor.field \in Fields /\ Size = total /\ Size \in Nat /\ pos \in Nat /\ pos < Size
  BY <1>1 DEF TypeOK, Fields, Size
<1>3. NextChunkSize \in Nat /\ pos + NextChunkSize <= total
  BY <1>1, <1>2, ChunkFits
<1> DEFINE chunk == SubSeq(cursor.field, Offset + 1, Offset + NextChunkSize)
<1>4. chunk \in Fields
  <2>1. 0 + NextChunkSize <= Len(cursor.field)
    BY <1>1, <1>2, <1>3
  <2>2. SubSeq(cursor.field, 0 + 1, 0 + NextChunkSize) \in Fields
    BY <1>2, <1>3, <2>1, Slice
  <2> QED
    BY <2>2 DEF Offset
<1> HIDE DEF chunk
<1>5. buffer \o chunk \in Fields
  BY <1>1, <1>4 DEF TypeOK, Fields
<1>6. /\ UNCHANGED <<store, call, cursor, handles, rc, total>> /\ err' \in BOOLEAN
      /\ odd' \in BOOLEAN /\ (odd => odd') /\ (a = "ok" \/ err' \/ odd')
  BY Zenon, <1>1 DEF ReadChunk, Answer, TypeOK
<1> USE DEF chunk
<1>7. /\ a # "ok" => Throw /\ UNCHANGED <<buffer, pos>>
      /\ a = "ok" => /\ buffer' = buffer \o chunk
                     /\ pos' = pos + NextChunkSize
                     /\ IF pos' = total THEN Advance(Abs!Of(buffer')) ELSE GoTo("io")
  BY DEF ReadChunk
<1> HIDE DEF chunk
<1>8. Changes /\ ~rc' /\ Leak \subseteq Leak'
  <2>1. buffer' \in Fields /\ pos' \in Nat
    <3>1. CASE a = "ok"
      <4>1. pos' = pos + NextChunkSize /\ buffer' = buffer \o chunk
        BY Zenon, <1>7, <3>1
      <4> QED
        BY <1>2, <1>3, <1>5, <4>1
    <3>2. CASE a # "ok"
      BY <1>1, <1>7, <3>2 DEF TypeOK
    <3> QED
      BY <3>1, <3>2
  <2>2. ~rc
    BY <1>1 DEF IInv, HandlesHeld
  <2> QED
    BY <1>1, <1>6, <2>1, <2>2, LeakGrows DEF TypeOK, Changes
<1>9. CASE a # "ok"
  <2>1. odd' => call \in Leak'
    BY <1>1 DEF Leak, TypeOK
  <2> QED
    BY <1>1, <1>6, <1>7, <1>8, <1>9, <2>1, Thrown
<1>10. CASE a = "ok" /\ pos' = total
  BY <1>1, <1>6, <1>7, <1>8, <1>10, RowDone, ResultTypes DEF Changes
<1>11. CASE a = "ok" /\ pos' # total
  <2>1. GoTo("io") /\ pos' < total /\ pos' \in Nat
    BY <1>2, <1>3, <1>7, <1>11
  <2>2. TypeOK'
    BY <1>1, <1>6, <1>8, <2>1 DEF TypeOK, Changes, GoTo, Size
  <2>3. Progress' /\ OnRow' /\ HandlesHeld' /\ HandlesAreClosed'
    BY <1>1, <1>6, <1>8, <2>1 DEF IInv, GoTo, Progress, OnRow, HandlesHeld, HandlesAreClosed,
       Working, Holding, Row
  <2> QED
    BY <2>2, <2>3 DEF IInv
<1> QED
  BY <1>9, <1>10, <1>11

LEMMA WriteChunkIInv ==
  ASSUME IInv, NEW ok \in BOOLEAN, WriteChunk(ok)
  PROVE  IInv'
<1>1. /\ TypeOK /\ pc = "io" /\ Len(results) < Len(call.rows) /\ call.op = "update"
      /\ handles \subseteq Leak \cup {call}
      /\ rc => err
  BY DEF IInv, Progress, OnRow, Working, WriteChunk, HandlesHeld, Holding
<1>2. /\ Row \in Rows /\ Data \in Fields /\ cursor.field \in Fields
      /\ Size = Len(Data) /\ Size \in Nat /\ pos \in Nat /\ pos < Size
  BY <1>1, RowTypes DEF TypeOK, Size
<1>3. NextChunkSize \in Nat /\ pos + NextChunkSize <= Len(Data)
  BY <1>1, <1>2, ChunkFits
<1> DEFINE chunk == SubSeq(Data, pos + 1, pos + NextChunkSize)
           field == Over(chunk, cursor.field)
<1>4. chunk \in Fields
  BY <1>2, <1>3, Slice
<1>5. Len(chunk) <= Len(cursor.field) => field \in Fields
  BY <1>2, <1>4, OverTypes
<1>6. /\ UNCHANGED <<call, handles, rc, total, buffer>>
      /\ ok => ~cursor.expired /\ Len(chunk) <= Len(cursor.field)
      /\ ~ok => Throw /\ UNCHANGED <<store, cursor, pos>>
      /\ ok => /\ store' = [store EXCEPT ![Row] = field]
               /\ cursor' = [cursor EXCEPT !.field = field]
               /\ pos' = pos + NextChunkSize
               /\ IF pos' = Len(Data) THEN Advance(Abs!SizeOf(Data)) ELSE GoTo("io")
  BY DEF WriteChunk
<1> HIDE DEF chunk, field
<1>7. err' \in BOOLEAN /\ (ok \/ err') /\ odd' = odd /\ odd \in BOOLEAN
  <2>1. CASE rc
    BY <1>1, <2>1 DEF WriteChunk, TypeOK
  <2>2. CASE ~rc
    <3>1. err' = ~ok /\ odd' = odd
      BY <2>2, Zenon DEF WriteChunk, Reply
    <3> QED
      BY <1>1, <3>1 DEF TypeOK
  <2> QED
    BY <2>1, <2>2
<1>8. ok => ~rc
  BY DEF WriteChunk
<1>9. Changes
  BY <1>1, <1>2, <1>3, <1>5, <1>6, <1>7 DEF TypeOK, Changes
<1>10. CASE ~ok
  BY <1>1, <1>6, <1>7, <1>9, <1>10, Thrown
<1>11. CASE ok /\ pos' = Len(Data)
  BY <1>1, <1>2, <1>6, <1>8, <1>9, <1>11, RowDone, ResultTypes
<1>12. CASE ok /\ pos' # Len(Data)
  <2>1. GoTo("io") /\ pos' < Len(Data) /\ pos' \in Nat
    BY <1>2, <1>3, <1>6, <1>12
  <2>2. TypeOK'
    BY <1>1, <1>6, <1>7, <1>9, <2>1 DEF TypeOK, Changes, GoTo, Size, Data
  <2>3. Progress' /\ HandlesHeld' /\ HandlesAreClosed'
    BY <1>1, <1>6, <1>7, <1>8, <1>12, <2>1 DEF IInv, GoTo, Progress, HandlesHeld, HandlesAreClosed,
       Working, Holding, Leak
  <2>4. OnRow'
    BY <1>1, <1>2, <1>6, <1>12, <2>1 DEF IInv, TypeOK, GoTo, OnRow, Holding, Row
  <2> QED
    BY <2>2, <2>3, <2>4 DEF IInv
<1> QED
  BY <1>10, <1>11, <1>12

LEMMA CloseIInv ==
  ASSUME IInv, NEW ok \in BOOLEAN, Close(ok) \/ CloseThrow(ok)
  PROVE  IInv'
<1>1. TypeOK /\ handles \subseteq Leak \cup {call} /\ pc \in {"close", "closeThrow"}
  BY DEF IInv, HandlesHeld, Close, CloseThrow
<1>2. /\ outcome' \in Outcomes /\ results' = results
      /\ UNCHANGED <<store, call, cursor, rc, total, buffer, pos>> /\ pc' = "idle"
  BY <1>1, OutcomeTypes DEF TypeOK, Outcomes, Close, CloseThrow, Throw
<1>3. err' = ~ok /\ odd' = odd
  BY Zenon DEF Close, CloseThrow, Reply
<1>4. handles' = IF ok THEN handles \ {call} ELSE handles
  BY DEF Close, CloseThrow
<1>5. TypeOK'
  BY <1>1, <1>2, <1>3, <1>4 DEF TypeOK, Outcomes
<1>6. err' \/ handles' \subseteq Leak
  BY <1>1, <1>3, <1>4
<1>7. Leak \subseteq Leak'
  BY <1>3, LeakGrows
<1>8. HandlesAreClosed'
  BY <1>6, <1>7 DEF HandlesAreClosed, Leak
<1> QED
  BY <1>2, <1>5, <1>8 DEF IInv, Progress, OnRow, HandlesHeld, Working, Holding

LEMMA StutterIInv ==
  ASSUME IInv, UNCHANGED vars
  PROVE  IInv'
<1>1. TypeOK'
  BY DEF IInv, TypeOK, vars, Size, Data
<1> QED
  BY <1>1 DEF IInv, vars, Progress, OnRow, HandlesHeld, HandlesAreClosed, Leak, Row

(* The inductive invariant, whatever the sizes of the blobs.               *)
THEOREM Inductive == Spec => []IInv
<1>1. ASSUME IInv, [Next]_vars
      PROVE  IInv'
  <2>1. ASSUME Continue
        PROVE  IInv'
    BY <1>1, <2>1, OpenIInv, ReopenIInv, BytesIInv, ExpandIInv, AgainIInv, ReadChunkIInv,
       WriteChunkIInv, CloseIInv DEF Continue
  <2> QED
    BY <1>1, <2>1, BeginIInv, NoRowsIInv, OtherIInv, StutterIInv DEF Next
<1> QED
  BY <1>1, InitIInv, PTL DEF Spec

(* The fields, the handle and the progress of a call are well typed, and   *)
(* the loops of readRow and readFromBuffer stay within their buffers, for  *)
(* blobs of any size.                                                      *)
THEOREM TypeCorrect == Spec => []TypeOK
<1>1. IInv => TypeOK
  BY DEF IInv
<1> QED
  BY <1>1, Inductive, PTL

(* On a connection that can be used, the only handles left open belong to  *)
(* reads into files, to updates from missing files, and to reads once an   *)
(* answer was of another type: every other exception that skips closeBlob  *)
(* has left an error that bars the connection.                             *)
THEOREM UsableHandlesAreClosed == Spec => []HandlesAreClosed
<1>1. IInv => HandlesAreClosed
  BY DEF IInv
<1> QED
  BY <1>1, Inductive, PTL

(* Whatever the size of a blob and however it is cut: if the threshold is  *)
(* at least the number of parts, each round of the loops moves bytes.      *)
THEOREM LoopsAdvance == Spec => []ChunksAdvance
<1>1. IInv => ChunksAdvance
  <2> SUFFICES ASSUME IInv, pc = "io", Parts <= call.threshold
               PROVE  NextChunkSize > 0
    BY DEF ChunksAdvance
  <2>1. TypeOK /\ Len(results) < Len(call.rows) /\ call.op \in {"read", "update"} /\ pos < Size
    BY DEF IInv, TypeOK, Progress, Working
  <2>2. Len(Data) \in Nat /\ call.threshold \in Nat
    BY <2>1, RowTypes, CallTypes
  <2>3. Size \in Nat /\ pos \in Nat /\ pos < Size
    <3>1. call.op = "read" => total \in Nat
      BY <2>1 DEF IInv, OnRow, TypeOK, Fields
    <3> QED
      BY <2>1, <2>2, <3>1 DEF Size, TypeOK
  <2>4. Size > call.threshold => Size \div Parts > 0 /\ call.threshold \div Parts > 0
    <3>1. Parts \in Nat \ {0} /\ Parts <= call.threshold
      BY BlobAssumption
    <3>2. call.threshold \div Parts > 0
      BY <2>2, <3>1, DivPositive
    <3>3. Size > call.threshold => Parts <= Size
      BY <2>2, <2>3, <3>1
    <3>4. Size > call.threshold => Size \div Parts > 0
      BY <2>3, <3>1, <3>3, DivPositive
    <3> QED
      BY <3>2, <3>4
  <2>5. ChunkSize > 0 /\ ChunkSize \in Nat
    <3>1. Size \div Parts \in Nat /\ call.threshold \div Parts \in Nat
      BY <2>2, <2>3, BlobAssumption, DivNat
    <3> QED
      BY <2>2, <2>3, <2>4, <3>1 DEF ChunkSize
  <2> QED
    BY <2>3, <2>5 DEF NextChunkSize
<1> QED
  BY <1>1, Inductive, PTL

-----------------------------------------------------------------------------
(* Calls that are not cut into chunks.  Every loop then makes one round,   *)
(* which moves the whole field or all the data.                            *)
LEMMA PlainCall ==
  ASSUME TypeOK, call \in Plain
  PROVE  call.op \in {"read", "update"} /\ call # NoCall
BY BlobAssumption DEF TypeOK, Plain, NoCall

LEMMA DataFills ==
  ASSUME Fills, TypeOK, Len(results) < Len(call.rows), call.op = "update"
  PROVE  call \in Plain /\ Len(Data) = Width[Row]
<1>1. Len(results) + 1 \in 1..Len(call.rows) /\ call \in Calls
  BY CallTypes
<1> QED
  BY <1>1 DEF Fills, Data, Row

LEMMA OneChunk ==
  ASSUME Fills, IInv, OneRound, pc = "io", call \in Plain
  PROVE  NextChunkSize = Size /\ Size \in Nat /\ Size # 0 /\ pos = 0
<1>1. /\ TypeOK /\ Len(results) < Len(call.rows) /\ call.op \in {"read", "update"}
      /\ pos < Size /\ pos = 0
  BY DEF IInv, TypeOK, Progress, Working, OneRound
<1>2. Len(Data) \in Nat /\ (call.op = "update" => Len(Data) = Width[Row])
  BY <1>1, RowTypes, DataFills
<1>3. call.op = "read" => total = Len(cursor.field) /\ Len(cursor.field) \in Nat /\ Len(cursor.field) <= Width[Row]
  BY <1>1 DEF IInv, TypeOK, OnRow, OneRound, Fields
<1>4. Width[Row] <= call.threshold /\ Width[Row] \in Nat /\ call.threshold \in Nat
  <2>1. Len(results) + 1 \in 1..Len(call.rows) /\ Row \in Rows /\ call.threshold \in Nat
    BY <1>1, CallTypes, RowTypes
  <2> QED
    BY <2>1, BlobAssumption DEF Plain, Row
<1>5. Size \in Nat /\ Size <= call.threshold
  BY <1>1, <1>2, <1>3, <1>4 DEF Size
<1> QED
  BY <1>1, <1>5 DEF NextChunkSize, ChunkSize

LEMMA ReadsWhole ==
  ASSUME Fills, IInv, OneRound, call \in Plain, ReadChunk("ok")
  PROVE  Advance(Abs!Of(cursor.field))
<1>1. pc = "io" /\ call.op = "read" /\ TypeOK /\ total = Len(cursor.field) /\ Size = total
  BY DEF ReadChunk, IInv, OnRow, Size
<1>2. NextChunkSize = Len(cursor.field) /\ pos = 0 /\ buffer = <<>> /\ Len(cursor.field) \in Nat
  BY <1>1, OneChunk DEF OneRound
<1>3. cursor.field \in Fields
  BY <1>1 DEF TypeOK
<1>4. SubSeq(cursor.field, Offset + 1, Offset + NextChunkSize) = cursor.field
  BY <1>2, <1>3 DEF Offset, Fields
<1>5. /\ buffer' = buffer \o SubSeq(cursor.field, Offset + 1, Offset + NextChunkSize)
      /\ pos' = pos + NextChunkSize
      /\ IF pos' = total THEN Advance(Abs!Of(buffer')) ELSE GoTo("io")
  BY DEF ReadChunk
<1>6. buffer' = cursor.field /\ pos' = total
  BY <1>1, <1>2, <1>3, <1>4, <1>5 DEF Fields
<1> QED
  BY <1>5, <1>6

(* Data that fill the field replace it.                                    *)
LEMMA OverAll ==
  ASSUME NEW d \in Fields, NEW f \in Fields, Len(d) = Len(f)
  PROVE  Over(d, f) = d
BY DEF Fields, Over

LEMMA WritesWhole ==
  ASSUME Fills, IInv, OneRound, WriteChunk(TRUE)
  PROVE  /\ Row \in Rows /\ Data \in Fields /\ Len(Data) = Width[Row]
         /\ store' = [store EXCEPT ![Row] = Data]
         /\ Advance(Abs!SizeOf(Data))
<1>1. pc = "io" /\ call.op = "update" /\ TypeOK /\ Len(results) < Len(call.rows)
  BY DEF WriteChunk, IInv, Progress, Working
<1>2. Row \in Rows /\ Data \in Fields /\ Size = Len(Data) /\ call \in Plain /\ Len(Data) = Width[Row]
  BY <1>1, RowTypes, DataFills DEF Size
<1>3. NextChunkSize = Len(Data) /\ pos = 0 /\ Len(Data) \in Nat
  BY <1>1, <1>2, OneChunk
<1>4. SubSeq(Data, pos + 1, pos + NextChunkSize) = Data
  BY <1>2, <1>3 DEF Fields
<1>5. Len(Data) <= Len(cursor.field)
  BY <1>4 DEF WriteChunk
<1>6. cursor.field \in Fields /\ Len(cursor.field) \in Nat /\ Len(cursor.field) <= Width[Row] /\ Width[Row] \in Nat
  BY <1>1, <1>2, BlobAssumption DEF OneRound, TypeOK, Fields
<1>7. Over(Data, cursor.field) = Data
  BY <1>2, <1>3, <1>5, <1>6, OverAll
<1>8. /\ store' = [store EXCEPT ![Row] = Over(Data, cursor.field)]
      /\ pos' = pos + NextChunkSize
      /\ IF pos' = Len(Data) THEN Advance(Abs!SizeOf(Data)) ELSE GoTo("io")
  BY <1>4 DEF WriteChunk
<1> QED
  BY <1>2, <1>3, <1>7, <1>8

LEMMA InitOneRound == Fills /\ Init => OneRound
BY BlobAssumption DEF Fills, Init, OneRound

LEMMA OneRoundStep ==
  ASSUME Fills, IInv, OneRound, [Next]_vars
  PROVE  OneRound'
<1> USE DEF OneRound
<1>1. TypeOK
  BY DEF IInv
<1>2. pc \in Working => Row \in Rows /\ store[Row] \in Fields
  BY <1>1, RowTypes DEF IInv, Progress
<1>3. ASSUME NEW a, Open(a)
      PROVE  OneRound'
  BY <1>2, <1>3 DEF Open, GoTo, Throw, Opened, Working, Row
<1>4. ASSUME NEW ok \in BOOLEAN, Reopen(ok)
      PROVE  OneRound'
  BY <1>2, <1>4 DEF Reopen, GoTo, Throw, Opened, Working, Row
<1>5. ASSUME NEW a, Bytes(a)
      PROVE  OneRound'
  <2>1. pc = "bytes" /\ UNCHANGED <<store, call, cursor>> /\ pos' = 0 /\ buffer' = <<>>
    BY <1>5 DEF Bytes
  <2>2. pc' \in {"bytes", "expand", "again", "io"} => results' = results
    BY <1>5, BytesTold DEF Told, GoTo, Throw, Advance
  <2> QED
    BY <2>1, <2>2 DEF Row
<1>6. ASSUME NEW ok \in BOOLEAN, Expand(ok)
      PROVE  OneRound'
  <2>1. Row \in Rows /\ Len(Abs!Zeros(Len(Data))) <= Width[Row]
    <3>1. pc = "expand" /\ Len(results) < Len(call.rows) /\ call.op = "update"
      BY <1>6 DEF Expand, IInv, Progress, Working
    <3>2. Row \in Rows /\ Len(Data) \in Nat /\ Len(Data) = Width[Row]
      BY <1>1, <3>1, RowTypes, DataFills
    <3> QED
      BY <3>2, ZerosTypes
  <2>2. store' = store \/ store' = [store EXCEPT ![Row] = Abs!Zeros(Len(Data))]
    BY <1>6 DEF Expand
  <2>3. \A r \in Rows : Len(store'[r]) <= Width[r]
    BY <1>1, <2>1, <2>2 DEF TypeOK
  <2>4. /\ pc = "expand" /\ pc' \in {"again", "idle"} /\ cursor'.field = cursor.field
        /\ UNCHANGED <<call, results>>
    BY <1>1, <1>6 DEF Expand, GoTo, Throw, TypeOK
  <2> QED
    BY <2>3, <2>4 DEF Row
<1>7. ASSUME NEW ok \in BOOLEAN, Again(ok)
      PROVE  OneRound'
  <2>1. pc = "again" /\ pos = 0 /\ buffer = <<>> /\ UNCHANGED <<store, call, pos, buffer>> /\ Row \in Rows
    BY <1>2, <1>7 DEF IInv, Progress, Again, Working
  <2>2. Len(cursor'.field) <= Width[Row]
    BY <1>7, <2>1 DEF Again, Opened
  <2>3. pc' \in {"bytes", "expand", "again", "io"} => results' = results
    BY <1>7 DEF Again, ToWrite, GoTo, Advance
  <2> QED
    BY <2>1, <2>2, <2>3 DEF Row
<1>8. ASSUME NEW a, ReadChunk(a)
      PROVE  OneRound'
  <2>1. UNCHANGED <<store, call, cursor>> /\ pc = "io"
    BY <1>8 DEF ReadChunk
  <2>2. call \in Plain => pc' # "io"
    <3>1. CASE a = "ok"
      BY <1>8, <3>1, ReadsWhole DEF Advance
    <3>2. CASE a # "ok"
      BY <1>8, <3>2 DEF ReadChunk, Throw
    <3> QED
      BY <3>1, <3>2
  <2>3. pc' \in {"reopen", "close", "idle"} \/ (pc' = "io" /\ results' = results)
    BY <1>8 DEF ReadChunk, Throw, Advance, GoTo
  <2> QED
    BY <2>1, <2>2, <2>3 DEF Row, Plain
<1>9. ASSUME NEW ok \in BOOLEAN, WriteChunk(ok)
      PROVE  OneRound'
  <2>1. CASE ok
    <3>1. ok = TRUE
      BY <2>1
    <3>2. /\ Row \in Rows /\ Data \in Fields /\ Len(Data) = Width[Row]
          /\ store' = [store EXCEPT ![Row] = Data]
          /\ Advance(Abs!SizeOf(Data))
      BY <1>9, <3>1, WritesWhole
    <3>3. \A r \in Rows : Len(store'[r]) <= Width[r]
      BY <1>1, <3>2, BlobAssumption DEF TypeOK
    <3>4. pc' \in {"reopen", "close"}
      BY <3>2 DEF Advance
    <3> QED
      BY <3>3, <3>4
  <2>2. CASE ~ok
    BY <1>9, <2>2 DEF WriteChunk, Throw
  <2> QED
    BY <2>1, <2>2
<1>10. ASSUME NEW ok \in BOOLEAN, Close(ok) \/ CloseThrow(ok)
       PROVE  OneRound'
  BY <1>10 DEF Close, CloseThrow, Throw
<1>11. ASSUME NEW r \in Rows, NEW f \in Foreign[r], Other(r, f)
       PROVE  OneRound'
  <2>1. \A q \in Rows : Len(store'[q]) <= Width[q]
    BY <1>1, <1>11 DEF Other, Fills, TypeOK
  <2>2. cursor'.field = cursor.field /\ UNCHANGED <<pc, call, results, pos, buffer>>
    BY <1>1, <1>11 DEF Other, TypeOK
  <2> QED
    BY <2>1, <2>2 DEF Row, Plain
<1>12. ASSUME NEW c \in Calls, Begin(c)
       PROVE  OneRound'
  BY <1>12 DEF Begin
<1>13. ASSUME Refused \/ NoRows \/ Reconnect
       PROVE  OneRound'
  BY <1>13 DEF Refused, NoRows, Reconnect, Throw
<1>14. CASE UNCHANGED vars
  BY <1>14 DEF vars, Row, Plain
<1> QED
  BY <1>3, <1>4, <1>5, <1>6, <1>7, <1>8, <1>9, <1>10, <1>11, <1>12, <1>13, <1>14 DEF Next, Continue

-----------------------------------------------------------------------------
(* Each step is one of the abstract table, or none that it shows.          *)
AbsStep == Abs!Next \/ UNCHANGED Abs!vars

(* The steps at which the abstract table has seen the field.               *)
Seen == {"bytes", "expand", "again", "io", "closeThrow"}

(* What the abstract table sees of a call under way.                       *)
LEMMA Shown ==
  ASSUME TypeOK, pc # "idle", call \in Plain
  PROVE  /\ Busy /\ Abs!Busy
         /\ Abs!Row = Row /\ Abs!Data = Data
         /\ Len(results) < Len(call.rows) => Abs!Ready
BY PlainCall DEF Busy, Abs!Busy, Abs!Row, Abs!Data, Abs!Ready, Row, Data

(* Of calls for sizes and calls in chunks it sees nothing.                 *)
LEMMA HiddenStep ==
  ASSUME call \notin Plain, UNCHANGED <<store, call>>
  PROVE  AbsStep
BY DEF AbsStep, Abs!vars, Busy, Plain

LEMMA ThrowStep ==
  ASSUME Throw, UNCHANGED <<store, call>>
  PROVE  AbsStep
<1>1. CASE call \notin Plain
  BY <1>1, HiddenStep
<1>2. CASE call \in Plain
  <2>1. pc' = "idle" /\ outcome' = [kind |-> "thrown", results |-> <<>>] /\ call' \in Plain
    BY <1>2 DEF Throw, Plain
  <2>2. ~Busy' /\ store' = store
    BY <2>1 DEF Busy
  <2>3. Abs!Throw
    BY <2>1, <2>2 DEF Abs!Throw, Abs!Ended, Plain
  <2> QED
    BY <2>3 DEF AbsStep, Abs!Next
<1> QED
  BY <1>1, <1>2

(* The call goes on, and may have seen the field.                          *)
LEMMA LookStep ==
  ASSUME TypeOK, Len(results) < Len(call.rows), NEW where \in Seen, GoTo(where),
         pc # "idle", UNCHANGED <<store, call>>,
         \/ cursor'.field = store[Row]
         \/ cursor'.field = cursor.field /\ pc \in Seen
  PROVE  AbsStep
<1>1. CASE call \notin Plain
  BY <1>1, HiddenStep
<1>2. CASE call \in Plain
  <2>1. /\ pc' = where /\ UNCHANGED <<store, call, results, outcome>>
        /\ pc' \notin {"idle", "none", "open", "reopen", "close"} /\ call' \in Plain
    BY <1>2 DEF GoTo, Seen, Plain
  <2>2. Busy /\ Busy' /\ Abs!Ready /\ Abs!Row = Row
    BY <1>2, <2>1, Shown DEF Busy
  <2>3. CASE cursor'.field = store[Row]
    <3>1. Abs!Look
      BY <2>1, <2>2, <2>3 DEF Abs!Look
    <3> QED
      BY <3>1 DEF AbsStep, Abs!Next
  <2>4. CASE cursor'.field = cursor.field /\ pc \in Seen
    <3>1. pc \notin {"idle", "none", "open", "reopen", "close"}
      BY <2>4 DEF Seen
    <3> QED
      BY <2>1, <2>2, <2>4, <3>1 DEF AbsStep, Abs!vars
  <2> QED
    BY <2>3, <2>4
<1> QED
  BY <1>1, <1>2

(* The results that the abstract call may add to those it has.             *)
LEMMA TakeStep ==
  ASSUME TypeOK, Len(results) < Len(call.rows), pc \in Seen, UNCHANGED <<store, call, cursor>>,
         call.op = "read", Advance(Abs!Of(cursor.field))
  PROVE  AbsStep
<1>1. CASE call \notin Plain
  BY <1>1, HiddenStep
<1>2. CASE call \in Plain
  <2>1. /\ results' = Append(results, Abs!Of(cursor.field)) /\ pc' \in {"reopen", "close"}
        /\ call' \in Plain /\ UNCHANGED <<store, call, outcome>>
    BY <1>2 DEF Advance, Plain
  <2>2. pc \notin {"idle", "none", "open", "reopen", "close"}
    BY DEF Seen
  <2>3. Busy /\ Busy' /\ Abs!Ready
    BY <1>2, <2>1, <2>2, Shown DEF Busy
  <2>4. Abs!Take
    BY <2>1, <2>2, <2>3 DEF Abs!Take
  <2> QED
    BY <2>4 DEF AbsStep, Abs!Next
<1> QED
  BY <1>1, <1>2

LEMMA PutStep ==
  ASSUME TypeOK, Len(results) < Len(call.rows), pc # "idle", call' = call, call.op = "update",
         call \in Plain, store' = [store EXCEPT ![Row] = Data], Advance(Abs!SizeOf(Data))
  PROVE  AbsStep
<1>1. /\ results' = Append(results, Abs!SizeOf(Data)) /\ pc' \in {"reopen", "close"}
      /\ call' \in Plain /\ outcome' = outcome
  BY DEF Advance, Plain
<1>2. Busy /\ Busy' /\ Abs!Ready /\ Abs!Row = Row /\ Abs!Data = Data
  BY <1>1, Shown DEF Busy
<1>3. Abs!Put
  BY <1>1, <1>2 DEF Abs!Put
<1> QED
  BY <1>3 DEF AbsStep, Abs!Next

(* A field for which there are no data is empty already.                   *)
LEMMA EmptyPutStep ==
  ASSUME Fills, TypeOK, OneRound, Len(results) < Len(call.rows), pc # "idle",
         UNCHANGED <<store, call>>, call.op = "update", Data = <<>>,
         Advance(Abs!SizeOf(<<>>))
  PROVE  AbsStep
<1>1. Row \in Rows /\ store[Row] \in Fields /\ call \in Plain /\ Width[Row] = 0
  BY RowTypes, DataFills, OutcomeTypes
<1>2. store[Row] = <<>>
  <2>1. Len(store[Row]) <= 0
    BY <1>1 DEF OneRound
  <2> QED
    BY <1>1, <2>1 DEF Fields
<1>3. store' = [store EXCEPT ![Row] = Data]
  BY <1>1, <1>2 DEF TypeOK
<1>4. Advance(Abs!SizeOf(Data)) /\ call' = call
  BY Zenon
<1> QED
  BY Zenon, <1>1, <1>3, <1>4, PutStep

LEMMA BytesStep ==
  ASSUME Fills, IInv, OneRound, NEW a, Bytes(a)
  PROVE  AbsStep
<1>1. TypeOK /\ pc = "bytes" /\ pc \in Seen /\ Len(results) < Len(call.rows)
  BY DEF IInv, Progress, Working, Bytes, Seen
<1>2. UNCHANGED <<store, call, cursor>>
  BY DEF Bytes
<1>3. Told
  BY BytesTold
<1>4. CASE Throw
  BY <1>2, <1>4, ThrowStep
<1>5. CASE \E where \in Seen : GoTo(where)
  BY <1>1, <1>2, <1>5, LookStep
<1>6. CASE call.op = "sizes"
  <2>1. call \notin Plain
    BY <1>6 DEF Plain
  <2> QED
    BY <1>2, <2>1, HiddenStep
<1>7. CASE call.op = "read" /\ cursor.field = <<>> /\ Advance(Abs!Of(<<>>))
  BY <1>1, <1>2, <1>7, TakeStep
<1>8. CASE call.op = "update" /\ Advance(Abs!SizeOf(<<>>)) /\ Data = <<>>
  BY <1>1, <1>2, <1>8, EmptyPutStep
<1>9. "io" \in Seen /\ "closeThrow" \in Seen /\ "expand" \in Seen
  BY DEF Seen
<1> QED
  BY <1>3, <1>4, <1>5, <1>6, <1>7, <1>8, <1>9 DEF Told

LEMMA OpenStep ==
  ASSUME IInv, \/ \E a : Open(a)
               \/ \E ok \in BOOLEAN : Reopen(ok)
  PROVE  AbsStep
<1>1. TypeOK /\ pc \in {"open", "reopen"} /\ Len(results) < Len(call.rows) /\ UNCHANGED <<store, call>>
  BY DEF IInv, Progress, Open, Reopen, Working
<1>2. Throw \/ (GoTo("bytes") /\ cursor' = Opened(Row))
  BY DEF Open, Reopen
<1>3. CASE Throw
  BY <1>1, <1>3, ThrowStep
<1>4. CASE GoTo("bytes") /\ cursor' = Opened(Row)
  <2>1. cursor'.field = store[Row] /\ "bytes" \in Seen
    BY <1>4 DEF Opened, Seen
  <2> QED
    BY <1>1, <1>4, <2>1, LookStep
<1> QED
  BY <1>2, <1>3, <1>4

LEMMA ExpandStep ==
  ASSUME Fills, IInv, NEW ok \in BOOLEAN, Expand(ok)
  PROVE  AbsStep
<1>1. /\ TypeOK /\ pc = "expand" /\ pc \in Seen /\ Len(results) < Len(call.rows)
      /\ call.op = "update" /\ cursor'.field = cursor.field /\ call' = call
  BY DEF Expand, Working, IInv, Progress, TypeOK, Seen
<1>2. CASE ok
  <2>1. /\ pc' = "again" /\ UNCHANGED <<results, outcome>>
        /\ store' = [store EXCEPT ![Row] = Abs!Zeros(Len(Data))]
    BY <1>2 DEF Expand, GoTo
  <2>2. call \in Plain /\ call' \in Plain
    BY <1>1, DataFills DEF Plain
  <2>3. Busy /\ Busy' /\ Abs!Ready /\ Abs!Row = Row /\ Abs!Data = Data
    BY <1>1, <2>1, <2>2, Shown DEF Busy
  <2>4. Abs!Clear
    BY <1>1, <2>1, <2>3 DEF Abs!Clear
  <2> QED
    BY <2>4 DEF AbsStep, Abs!Next
<1>3. CASE ~ok
  BY <1>1, <1>3, ThrowStep DEF Expand
<1> QED
  BY <1>2, <1>3

LEMMA AgainStep ==
  ASSUME Fills, IInv, OneRound, NEW ok \in BOOLEAN, Again(ok)
  PROVE  AbsStep
<1>1. /\ TypeOK /\ pc = "again" /\ pc \in Seen /\ Len(results) < Len(call.rows)
      /\ call.op = "update" /\ UNCHANGED <<store, call>>
  BY DEF Again, Working, IInv, Progress, Seen
<1>2. cursor'.field = cursor.field \/ cursor'.field = store[Row]
  BY DEF Again, Opened
<1>3. GoTo("io") \/ GoTo("closeThrow") \/ (Advance(Abs!SizeOf(<<>>)) /\ Data = <<>>)
  BY <1>1, ToWriteCases DEF Again
<1>4. "io" \in Seen /\ "closeThrow" \in Seen
  BY DEF Seen
<1>5. CASE GoTo("io") \/ GoTo("closeThrow")
  BY <1>1, <1>2, <1>4, <1>5, LookStep
<1>6. CASE Advance(Abs!SizeOf(<<>>)) /\ Data = <<>>
  BY <1>1, <1>6, EmptyPutStep
<1> QED
  BY <1>3, <1>5, <1>6

LEMMA ChunkStep ==
  ASSUME Fills, IInv, OneRound, \/ \E a : ReadChunk(a)
                                \/ \E ok \in BOOLEAN : WriteChunk(ok)
  PROVE  AbsStep
<1>1. TypeOK /\ pc = "io" /\ pc \in Seen /\ Len(results) < Len(call.rows) /\ call' = call
  BY DEF ReadChunk, WriteChunk, IInv, Progress, Working, Seen
<1>2. ASSUME NEW a, ReadChunk(a)
      PROVE  AbsStep
  <2>1. call.op = "read" /\ UNCHANGED <<store, call, cursor>>
    BY <1>2 DEF ReadChunk
  <2>2. CASE call \notin Plain
    BY <2>1, <2>2, HiddenStep
  <2>3. CASE a = "ok" /\ call \in Plain
    <3>1. Advance(Abs!Of(cursor.field))
      BY <1>2, <2>3, ReadsWhole
    <3> QED
      BY <1>1, <2>1, <3>1, TakeStep
  <2>4. CASE a # "ok"
    BY <1>2, <2>1, <2>4, ThrowStep DEF ReadChunk
  <2> QED
    BY <2>2, <2>3, <2>4
<1>3. ASSUME NEW ok \in BOOLEAN, WriteChunk(ok)
      PROVE  AbsStep
  <2>1. call.op = "update" /\ call \in Plain
    BY <1>1, <1>3, DataFills DEF WriteChunk
  <2>2. CASE ok
    <3>1. ok = TRUE
      BY <2>2
    <3>2. store' = [store EXCEPT ![Row] = Data] /\ Advance(Abs!SizeOf(Data))
      BY <1>3, <3>1, WritesWhole
    <3> QED
      BY <1>1, <2>1, <3>2, PutStep
  <2>3. CASE ~ok
    <3>1. Throw /\ store' = store
      BY <1>3, <2>3 DEF WriteChunk
    <3> QED
      BY <1>1, <3>1, ThrowStep
  <2> QED
    BY <2>2, <2>3
<1> QED
  BY <1>2, <1>3

(* A call that is done with its rows.                                      *)
LEMMA ReturnStep ==
  ASSUME TypeOK, pc # "idle", call.op # "sizes" \/ call \notin Plain, Len(results) = Len(call.rows),
         pc' = "idle", outcome' = [kind |-> "returned", results |-> results],
         UNCHANGED <<store, call>>
  PROVE  AbsStep
<1>1. CASE call \notin Plain
  BY <1>1, HiddenStep
<1>2. CASE call \in Plain
  <2>1. Busy /\ ~Busy' /\ Abs!Busy /\ call' \in Plain /\ Len(call.rows) \in Nat
    BY <1>2, Shown, CallTypes DEF Busy, Plain
  <2>2. ~Abs!Ready
    BY <2>1 DEF Abs!Ready
  <2>3. Abs!Return
    BY <2>1, <2>2 DEF Abs!Return, Abs!Ended
  <2> QED
    BY <2>3 DEF AbsStep, Abs!Next
<1> QED
  BY <1>1, <1>2

LEMMA BeginStep ==
  ASSUME NEW c \in Calls, Begin(c)
  PROVE  AbsStep
<1>1. pc = "idle" /\ ~Busy /\ call' = c /\ results' = <<>> /\ pc' \in {"none", "open"} /\ store' = store
  BY DEF Begin, Busy
<1>2. CASE c \in Plain
  <2>1. Busy' /\ call' \in Plain
    BY <1>1, <1>2 DEF Busy, Plain
  <2>2. Abs!Begin
    BY <1>1, <1>2, <2>1 DEF Abs!Begin, Abs!Busy, Abs!NoOutcome, Plain
  <2> QED
    BY <2>2 DEF AbsStep, Abs!Next
<1>3. CASE c \notin Plain
  <2>1. ~Busy' /\ call' \notin Plain'
    BY <1>1, <1>3 DEF Busy, Plain
  <2>2. Abs!Forget
    BY <1>1, <2>1 DEF Abs!Forget, Abs!Busy, Abs!NoOutcome
  <2> QED
    BY <2>2 DEF AbsStep, Abs!Next
<1> QED
  BY <1>2, <1>3

LEMMA OtherStep ==
  ASSUME TypeOK, NEW r \in Rows, NEW f \in Foreign[r], Other(r, f)
  PROVE  AbsStep
<1>1. /\ cursor'.field = cursor.field /\ UNCHANGED <<pc, call, results, outcome>>
      /\ store' = [store EXCEPT ![r] = f]
  BY DEF Other, TypeOK
<1>2. Busy' = Busy
  BY <1>1 DEF Busy, Plain
<1>3. Abs!Other
  BY <1>1, <1>2 DEF Abs!Other, Plain
<1> QED
  BY <1>3 DEF AbsStep, Abs!Next

LEMMA NextStep ==
  ASSUME Fills, IInv, OneRound, [Next]_vars
  PROVE  AbsStep
<1>1. TypeOK
  BY DEF IInv
<1>2. ASSUME NEW ok \in BOOLEAN, Close(ok)
      PROVE  AbsStep
  BY <1>1, <1>2, ReturnStep, PlainCall DEF Close, IInv, Progress
<1>3. ASSUME NEW ok \in BOOLEAN, CloseThrow(ok)
      PROVE  AbsStep
  BY <1>3, ThrowStep DEF CloseThrow
<1>4. CASE Refused
  BY <1>4, ThrowStep DEF Refused
<1>5. CASE NoRows
  <2>1. CASE Throw
    BY <1>5, <2>1, ThrowStep DEF NoRows
  <2>2. CASE ~Throw
    BY <1>1, <1>5, <2>2, ReturnStep, OutcomeTypes DEF NoRows, IInv, Progress
  <2> QED
    BY <2>1, <2>2
<1>6. CASE Reconnect \/ UNCHANGED vars
  <2>1. UNCHANGED <<store, pc, call, cursor, results, outcome>>
    BY <1>6 DEF Reconnect, vars
  <2> QED
    BY <2>1 DEF AbsStep, Abs!vars, Busy, Plain
<1> QED
  BY <1>1, <1>2, <1>3, <1>4, <1>5, <1>6, BytesStep, OpenStep, ExpandStep, AgainStep, ChunkStep,
     BeginStep, OtherStep DEF Next, Continue

(* readBlob and updateBlob, of blobs that are not cut into chunks and with *)
(* updates as wide as their rows: operations on a table of byte strings,   *)
(* whichever commands fail, whatever other clients write in between, and   *)
(* whatever calls for sizes, or reads in chunks, come between them.        *)
THEOREM WholeBlobsImplementStore ==
  ASSUME Fills
  PROVE  Spec => ImplementsStore
<1>1. Init => Abs!Init
  BY DEF Init, Abs!Init, Busy, Abs!NoOutcome
<1>2. IInv /\ OneRound /\ [Next]_vars => [Abs!Next]_(Abs!vars)
  BY NextStep DEF AbsStep
<1>3. Init => OneRound
  BY InitOneRound
<1>4. IInv /\ OneRound /\ [Next]_vars => OneRound'
  BY OneRoundStep
<1> QED
  BY <1>1, <1>2, <1>3, <1>4, Inductive, PTL DEF Spec, ImplementsStore, Abs!Spec
=============================================================================
