----------------------------- MODULE CloudBlob -----------------------------
(***************************************************************************)
(* The blob functions: blobFieldSizes, readBlob and updateBlob of          *)
(* SQLiteCloudBridge.kt, the chunks of SQLiteCloudBlobReadWrite.kt, the    *)
(* native functions of sqlitecloud.cpp and SQCloudBlob... of sqcloud.c.    *)
(*                                                                         *)
(* Every action is one command to the server, which may fail, with the     *)
(* code up to the next one.  Between two commands another client may write *)
(* a row; the server then refuses reads and writes through a blob handle   *)
(* that was opened before (external: incremental I/O of SQLite).           *)
(*                                                                         *)
(* The server answers "ok", "error", or "other": with a type the function  *)
(* does not look for.  Where the code only asks whether the answer is an   *)
(* error, "other" is as good as "ok" and is left out.                      *)
(***************************************************************************)
EXTENDS Integers, Sequences, FiniteSets

CONSTANTS
  Rows,         \* the rows of the table
  Octets,       \* the values of a byte
  Calls,        \* the calls the program makes
  Foreign,      \* what other clients write into each row
  Width,        \* the bytes of each row, for the abstract table
  Zero,         \* the byte zeroblob() fills a field with
  Parts         \* defaultBlobNumOfParts

(* rows, data and io have an element for each row of a call; "nofile" is a *)
(* path at which there is no file.  one: built for a single row.           *)
ASSUME BlobAssumption ==
  /\ \A c \in Calls : /\ c.op \in {"sizes", "read", "update"}
                      /\ c.rows \in Seq(Rows)
                      /\ c.data \in Seq(Seq(Octets)) /\ Len(c.data) = Len(c.rows)
                      /\ c.io \in Seq({"buffer", "file", "nofile"}) /\ Len(c.io) = Len(c.rows)
                      /\ c.threshold \in Nat /\ c.one \in BOOLEAN /\ c.auto \in BOOLEAN
  /\ Foreign \in [Rows -> SUBSET Seq(Octets)]
  /\ Width \in [Rows -> Nat]
  /\ Zero \in Octets
  /\ Parts \in Nat \ {0}

VARIABLES
  store,    \* the blob field of each row
  pc,       \* the next command of the call, "idle" between calls
  call,     \* the call that is, or was last, under way
  cursor,   \* the blob handle of the server: row, field when opened, expired
  handles,  \* the calls whose handles the server still holds open
  rc,       \* SQCloudBlob.rc # 0
  err,      \* isError(): the last command failed
  odd,      \* whether a size or bytes were answered by another type so far
  total,    \* what blobFieldSize returned
  buffer,   \* the buffer of readRow up to its position
  pos,      \* buffer.position() or channel.position()
  results,  \* what is to be returned for the rows done
  outcome   \* how the last call ended

vars == <<store, pc, call, cursor, handles, rc, err, odd, total, buffer, pos, results, outcome>>

-----------------------------------------------------------------------------
(* The abstract table knows the reads and updates that never cut a field   *)
(* into chunks.  Calls for sizes, and reads in chunks, are not its.        *)
Plain ==
  {c \in Calls : c.op # "sizes" /\ \A k \in 1..Len(c.rows) : Width[c.rows[k]] <= c.threshold}

NoCall == [op |-> "none", rows |-> <<>>, data |-> <<>>]

Busy == pc # "idle" /\ call \in Plain

Abs == INSTANCE BlobStore WITH
  work    <- IF Busy THEN call ELSE NoCall,
  seen    <- IF Busy /\ pc \notin {"none", "open", "reopen", "close"} THEN <<cursor.field>> ELSE <<>>,
  results <- IF Busy THEN results ELSE <<>>,
  outcome <- IF pc = "idle" /\ call \in Plain THEN outcome ELSE [kind |-> "none", results |-> <<>>]

-----------------------------------------------------------------------------
Row  == call.rows[Len(results) + 1]
Data == call.data[Len(results) + 1]
Io   == call.io[Len(results) + 1]

Size == IF call.op = "read" THEN total ELSE Len(Data)

(* Seeded fault: the chunk is a part of what is left, not of the whole.    *)
ChunkSizeOfRest ==
  IF Size <= call.threshold THEN Size
  ELSE (IF call.one THEN call.threshold ELSE Size - pos) \div Parts

(* SQLiteCloudBlobStructure.chunkSize with defaultBlobChunkCount, which is *)
(* asked for the threshold by the constructors for a single row.           *)
ChunkSize ==
  IF Size <= call.threshold THEN Size
  ELSE (IF call.one THEN call.threshold ELSE Size) \div Parts

NextChunkSize == IF ChunkSize < Size - pos THEN ChunkSize ELSE Size - pos

-----------------------------------------------------------------------------
(* Seeded fault: the last row is not waited for.                           *)
AdvanceSkipsLast(result) ==
  /\ results' = Append(results, result)
  /\ pc' = IF Len(results') + 1 < Len(call.rows) THEN "reopen" ELSE "close"
  /\ UNCHANGED outcome

(* A row is done: on to the next one, or to the end.                       *)
Advance(result) ==
  /\ results' = Append(results, result)
  /\ pc' = IF Len(results') < Len(call.rows) THEN "reopen" ELSE "close"
  /\ UNCHANGED outcome

(* Any exception leaves the function; nothing closes the handle.           *)
Throw ==
  /\ pc' = "idle"
  /\ outcome' = [kind |-> "thrown", results |-> <<>>]
  /\ UNCHANGED results

GoTo(where) == pc' = where /\ UNCHANGED <<results, outcome>>

(* The command that is sent fails or not, and clears or sets the error.    *)
Reply(ok) == ok \in BOOLEAN /\ err' = ~ok /\ UNCHANGED odd

(* A command whose answer has to be of a certain type.                     *)
Answer(a) == a \in {"ok", "error", "other"} /\ err' = (a = "error")

(* Bytes put over the beginning of a field.                                *)
Over(d, f) == d \o SubSeq(f, Len(d) + 1, Len(f))

Opened(r) == [row |-> r, field |-> store[r], expired |-> FALSE]

-----------------------------------------------------------------------------
Begin(c) ==
  /\ pc = "idle" /\ ~err
  /\ call' = c
  /\ results' = <<>>
  /\ pc' = IF c.rows = <<>> THEN "none" ELSE "open"
  /\ UNCHANGED <<store, cursor, handles, rc, err, odd, total, buffer, pos, outcome>>

(* ensureConnectedOrThrow: a recorded error makes every call throw.        *)
Refused ==
  /\ pc = "idle" /\ err
  /\ Throw
  /\ UNCHANGED <<store, call, cursor, handles, rc, err, odd, total, buffer, pos>>

(* No rows: blobFieldSizes throws, the others return at once.              *)
NoRows ==
  /\ pc = "none"
  /\ IF call.op = "sizes" THEN Throw
     ELSE /\ pc' = "idle"
          /\ outcome' = [kind |-> "returned", results |-> <<>>]
          /\ UNCHANGED results
  /\ UNCHANGED <<store, call, cursor, handles, rc, err, odd, total, buffer, pos>>

(* An answer that is no integer gives no handle, and error() is thrown.    *)
Open(a) ==
  /\ pc = "open"
  /\ Answer(a)
  /\ IF a = "ok" THEN GoTo("bytes") ELSE Throw
  /\ cursor' = IF a = "ok" THEN Opened(Row) ELSE cursor
  /\ handles' = IF a = "ok" THEN handles \cup {call} ELSE handles
  /\ rc' = FALSE
  /\ UNCHANGED <<store, call, odd, total, buffer, pos>>

(* reopenBlobIfNeeded, for every row but the first.                        *)
Reopen(ok) ==
  /\ pc = "reopen"
  /\ Reply(ok)
  /\ IF ok THEN GoTo("bytes") ELSE Throw
  /\ cursor' = IF ok THEN Opened(Row) ELSE cursor
  /\ rc' = ~ok
  /\ UNCHANGED <<store, call, handles, total, buffer, pos>>

-----------------------------------------------------------------------------
(* What each function does with the size n it was told, -1 if the command  *)
(* failed or was answered by another type.                                 *)
WithSizes(n) == Advance([size |-> n, bytes |-> <<>>])

(* Seeded fault: a size of -1 is taken for a size.                         *)
ToReadUnchecked(n) ==
  IF Io # "buffer" THEN Throw
  ELSE IF n = 0 THEN Advance(Abs!Of(<<>>)) ELSE GoTo("io")

(* readRow: allocateDirect(-1) throws, and a file that was opened for      *)
(* reading only cannot be mapped READ_WRITE.                               *)
ToRead(n) ==
  IF Io # "buffer" \/ n = -1 THEN Throw
  ELSE IF n = 0 THEN Advance(Abs!Of(<<>>)) ELSE GoTo("io")

(* writeRow writes nothing when there are no data; isError() follows.      *)
ToWrite ==
  IF Len(Data) > 0 THEN GoTo("io")
  ELSE IF err' THEN GoTo("closeThrow") ELSE Advance(Abs!SizeOf(<<>>))

(* row.dataIO.size opens the file, and throws if there is none.            *)
ToUpdate(n) ==
  IF Io = "nofile" THEN Throw
  ELSE IF n < Len(Data) /\ call.auto THEN GoTo("expand") ELSE ToWrite

(* Seeded fault: blobFieldSizes returns the sizes and forgets the handle.  *)
BytesLeaves(a) ==
  LET n == IF a = "ok" THEN Len(cursor.field) ELSE -1 IN
  /\ pc = "bytes"
  /\ Answer(a)
  /\ odd' = (odd \/ a = "other")
  /\ total' = n /\ buffer' = <<>> /\ pos' = 0
  /\ CASE call.op = "sizes"  ->
            /\ results' = Append(results, [size |-> n, bytes |-> <<>>])
            /\ pc' = IF Len(results') < Len(call.rows) THEN "reopen" ELSE "idle"
            /\ outcome' = [kind |-> "returned", results |-> results']
       [] call.op = "read"   -> ToRead(n)
       [] call.op = "update" -> ToUpdate(n)
  /\ UNCHANGED <<store, call, cursor, handles, rc>>

(* SQCloudBlobBytes: the server tells the size the field had when opened.  *)
Bytes(a) ==
  LET n == IF a = "ok" THEN Len(cursor.field) ELSE -1 IN
  /\ pc = "bytes"
  /\ Answer(a)
  /\ odd' = (odd \/ a = "other")
  /\ total' = n /\ buffer' = <<>> /\ pos' = 0
  /\ CASE call.op = "sizes"  -> WithSizes(n)
       [] call.op = "read"   -> ToRead(n)
       [] call.op = "update" -> ToUpdate(n)
  /\ UNCHANGED <<store, call, cursor, handles, rc>>

(* UPDATE ... SET column = zeroblob(size): the old bytes are gone, and the *)
(* handle has expired.                                                     *)
Expand(ok) ==
  /\ pc = "expand"
  /\ Reply(ok)
  /\ IF ok THEN GoTo("again") ELSE Throw
  /\ store' = IF ok THEN [store EXCEPT ![Row] = Abs!Zeros(Len(Data))] ELSE store
  /\ cursor' = [cursor EXCEPT !.expired = @ \/ ok]
  /\ UNCHANGED <<call, handles, rc, total, buffer, pos>>

(* The handle is opened again on the larger field; the answer is ignored.  *)
Again(ok) ==
  /\ pc = "again"
  /\ Reply(ok)
  /\ cursor' = IF ok THEN Opened(Row) ELSE cursor
  /\ rc' = ~ok
  /\ ToWrite
  /\ UNCHANGED <<store, call, handles, total, buffer, pos>>

-----------------------------------------------------------------------------
(* The chunks.  The JNI functions pass the offset 0 for each of them.      *)

Offset == 0

ReadChunk(a) ==
  LET chunk == SubSeq(cursor.field, Offset + 1, Offset + NextChunkSize) IN
  /\ pc = "io" /\ call.op = "read"
  /\ Answer(a)
  /\ odd' = (odd \/ a = "other")
  /\ a = "ok" => ~cursor.expired
  /\ IF a # "ok" THEN Throw /\ UNCHANGED <<buffer, pos>>
     ELSE /\ buffer' = buffer \o chunk
          /\ pos' = pos + NextChunkSize
          /\ IF pos' = total THEN Advance(Abs!Of(buffer')) ELSE GoTo("io")
  /\ UNCHANGED <<store, call, cursor, handles, rc, total>>

(* A write beyond the end of the field is refused; a handle whose reopen   *)
(* failed sends nothing.                                                   *)
WriteChunk(ok) ==
  LET chunk == SubSeq(Data, pos + 1, pos + NextChunkSize)
      field == Over(chunk, cursor.field)
  IN
  /\ pc = "io" /\ call.op = "update"
  /\ IF rc THEN ~ok /\ UNCHANGED <<err, odd>> ELSE Reply(ok)
  /\ ok => ~cursor.expired /\ Len(chunk) <= Len(cursor.field)
  /\ IF ~ok THEN Throw /\ UNCHANGED <<store, cursor, pos>>
     ELSE /\ store' = [store EXCEPT ![Row] = field]
          /\ cursor' = [cursor EXCEPT !.field = field]
          /\ pos' = pos + NextChunkSize
          /\ IF pos' = Len(Data) THEN Advance(Abs!SizeOf(Data)) ELSE GoTo("io")
  /\ UNCHANGED <<call, handles, rc, total, buffer>>

-----------------------------------------------------------------------------
(* Nobody looks at the result of closeBlob.                                *)
Close(ok) ==
  /\ pc = "close"
  /\ Reply(ok)
  /\ handles' = IF ok THEN handles \ {call} ELSE handles
  /\ pc' = "idle"
  /\ outcome' = [kind |-> "returned", results |-> results]
  /\ UNCHANGED <<store, call, cursor, rc, total, buffer, pos, results>>

(* The one error path that closes the handle: its BLOB CLOSE also clears   *)
(* the error.                                                              *)
CloseThrow(ok) ==
  /\ pc = "closeThrow"
  /\ Reply(ok)
  /\ handles' = IF ok THEN handles \ {call} ELSE handles
  /\ Throw
  /\ UNCHANGED <<store, call, cursor, rc, total, buffer, pos>>

(* connect() again, after an error.                                        *)
Reconnect ==
  /\ pc = "idle" /\ err
  /\ err' = FALSE /\ odd' = FALSE
  /\ handles' = {}
  /\ UNCHANGED <<store, pc, call, cursor, rc, total, buffer, pos, results, outcome>>

(* Another client writes a row while a call is under way (external).       *)
Other(r, f) ==
  /\ pc # "idle"
  /\ store' = [store EXCEPT ![r] = f]
  /\ cursor' = [cursor EXCEPT !.expired = @ \/ cursor.row = r]
  /\ UNCHANGED <<pc, call, handles, rc, err, odd, total, buffer, pos, results, outcome>>

-----------------------------------------------------------------------------
Init ==
  /\ store \in {s \in [Rows -> UNION {Foreign[r] : r \in Rows}] : \A r \in Rows : s[r] \in Foreign[r]}
  /\ pc = "idle"
  /\ call \in {c \in Calls : c.rows = <<>>}
  /\ cursor \in [row : Rows, field : {<<>>}, expired : {FALSE}]
  /\ handles = {}
  /\ rc = FALSE /\ err = FALSE /\ odd = FALSE
  /\ total = 0 /\ buffer = <<>> /\ pos = 0
  /\ results = <<>>
  /\ outcome = Abs!NoOutcome

Continue ==
  \/ \E a \in {"ok", "error", "other"} : Open(a) \/ Bytes(a) \/ ReadChunk(a)
  \/ \E ok \in BOOLEAN :
       Reopen(ok) \/ Expand(ok) \/ Again(ok) \/ WriteChunk(ok) \/ Close(ok) \/ CloseThrow(ok)

Next ==
  \/ \E c \in Calls : Begin(c)
  \/ Refused \/ NoRows \/ Reconnect
  \/ Continue
  \/ \E r \in Rows : \E f \in Foreign[r] : Other(r, f)

Spec == Init /\ [][Next]_vars

-----------------------------------------------------------------------------
Fields  == Seq(Octets)
Results == Seq([size : Nat \cup {-1}, bytes : Fields])

(* The fields, the handle and the progress of a call are well typed, and a *)
(* chunk never runs past the buffer it is cut from.                        *)
TypeOK ==
  /\ store \in [Rows -> Fields]
  /\ pc \in {"idle", "none", "open", "reopen", "bytes", "expand", "again", "io", "close", "closeThrow"}
  /\ call \in Calls
  /\ cursor \in [row : Rows, field : Fields, expired : BOOLEAN]
  /\ handles \subseteq Calls
  /\ rc \in BOOLEAN /\ err \in BOOLEAN /\ odd \in BOOLEAN
  /\ total \in Nat \cup {-1}
  /\ buffer \in Fields
  /\ pos \in Nat
  /\ results \in Results /\ Len(results) <= Len(call.rows)
  /\ outcome \in [kind : {"none", "returned", "thrown"}, results : Results]
  /\ pc = "io" => pos < Size

(* Reads and updates are those of a table of byte strings: whatever fails  *)
(* or is written by others in between, a read returns bytes that the row   *)
(* held, an update replaces the field by its data or throws, and a call    *)
(* returns only when it is done with every row (readBlob, updateBlob).     *)
ImplementsStore == Abs!Spec

(* The exceptions that leave no error behind: reading into a file, and     *)
(* updating from one that is not there.                                    *)
Fragile(c) ==
  \E k \in 1..Len(c.rows) :
    c.io[k] \in CASE c.op = "read" -> {"file", "nofile"} [] c.op = "update" -> {"nofile"} [] OTHER -> {}

(* Nearly every exception of readBlob and updateBlob skips closeBlob.  Yet *)
(* while the connection can be used, no handle of an earlier call is open  *)
(* on the server, because the error that was thrown also bars the          *)
(* connection; but for calls that end in an exception of their own, and    *)
(* for reads once an answer was of another type.  blobFieldSizes, and an   *)
(* update from buffers, close their handles whatever is answered.          *)
HandlesAreClosed ==
  pc = "idle" /\ ~err => \A c \in handles : Fragile(c) \/ (odd /\ c.op = "read")

(* With a threshold of at least the number of parts, every round of the    *)
(* loops of readRow and readFromBuffer moves bytes, however long the blob  *)
(* and whatever is left of it.                                             *)
ChunksAdvance == pc = "io" /\ Parts <= call.threshold => NextChunkSize > 0

(* SQLiteCloud.kt:730 says of readBlob() that it "reads BLOB data for one  *)
(* or more rows [...] and returns the BLOB data": a row that nobody else   *)
(* has written since it was opened is returned as it is.                   *)
ReadIsWhole ==
  pc = "close" /\ call.op = "read" /\ ~cursor.expired
    => results[Len(results)].bytes = cursor.field
=============================================================================
