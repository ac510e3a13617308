---------------------------- MODULE RowsetChunks ----------------------------
(***************************************************************************)
(* How a rowset that arrives in chunks is put together: internal_parse_    *)
(* rowset_chunck of sqcloud.c, which keeps the unfinished rowset in        *)
(* connection->_chunk, and the internal_parse_buffer calls around it.      *)
(* Each chunk but the last reads the next one before it returns, so the    *)
(* calls nest; when the innermost returns NULL, each of them frees its     *)
(* buffer.                                                                 *)
(*                                                                         *)
(* Commands are made by functions that ensureConnectedOrThrow guards, and  *)
(* by the functions of a SQLiteCloudVM, which are not guarded and go on    *)
(* over an error.  The server answers commands in order and may stop in    *)
(* the middle of an answer (external).                                     *)
(***************************************************************************)
EXTENDS Integers, Sequences

CONSTANTS
  NBuffers,   \* DEFAULT_CHUCK_NBUFFERS
  MinRows,    \* DEFAULT_CHUNK_MINROWS
  ChunkRows,  \* the numbers of rows of a chunk: what the server pleases
  MaxChunks,  \* bound on the chunks of an answer
  MaxCommands \* bound on the commands

ASSUME ChunksAssumption ==
  /\ NBuffers \in Nat /\ NBuffers >= 2
  /\ MinRows \in Nat \ {0}
  /\ ChunkRows \subseteq Nat
  /\ MaxChunks \in Nat /\ MaxCommands \in Nat

VARIABLES
  commands,  \* the commands so far
  sent,      \* the rows the server has for each of them
  wire,      \* the packets of answers that have not been read
  reading,   \* a command waits for its answer
  err,       \* connection->errcode
  chunk,     \* connection->_chunk, a sequence of none or one
  frames,    \* the buffers of the nested internal_parse_buffer calls
  buffers,   \* the number of buffers allocated for chunks
  freed,     \* those that have been freed
  twice,     \* one of this connection was freed a second time
  unfenced,  \* an unguarded command was made in spite of an error
  overrun,   \* the rows of a chunk written beyond the array of values
  answer     \* what the last command got

vars == <<commands, sent, wire, reading, err, chunk, frames, buffers, freed, twice, unfenced,
          overrun, answer>>

None       == [kind |-> "none", rows |-> <<>>, bufs |-> {}]
Failed     == [kind |-> "null", rows |-> <<>>, bufs |-> {}]
Plain      == [kind |-> "other", rows |-> <<>>, bufs |-> {}]
Rowset(c)  == [kind |-> "rowset", rows |-> c.rows, bufs |-> c.bufs]

(* The packets: a chunk of the answer a, the end chunk, and the two        *)
(* answers that are not chunks.  What a timeout leaves of a packet is of   *)
(* type "rest".                                                            *)
Chunk(a, i, from, n) == [type |-> "chunk", of |-> a, idx |-> i, from |-> from, n |-> n]
End(a)   == [type |-> "end", of |-> a, idx |-> 0, from |-> 0, n |-> 0]
Error(a) == [type |-> "error", of |-> a, idx |-> 0, from |-> 0, n |-> 0]
Other(a) == [type |-> "other", of |-> a, idx |-> 0, from |-> 0, n |-> 0]

-----------------------------------------------------------------------------
(* The server's side: the rows go out in chunks numbered from 1; an error  *)
(* may come instead of the next one.                                       *)
Before(sizes) ==
  LET before[i \in 1..Len(sizes)] == IF i = 1 THEN 0 ELSE before[i - 1] + sizes[i - 1] IN
  before

Chunks(a, sizes) == [i \in 1..Len(sizes) |-> Chunk(a, i, Before(sizes)[i], sizes[i])]

Answers(a) ==
  {<<Error(a)>>, <<Other(a)>>} \cup
  UNION {{Chunks(a, s) \o tail : tail \in {<<End(a)>>, <<Error(a)>>}} :
           s \in UNION {[1..k -> ChunkRows] : k \in 1..MaxChunks}}

Total(packets) ==
  LET upTo[k \in 0..Len(packets)] == IF k = 0 THEN 0 ELSE upTo[k - 1] + packets[k].n IN
  upTo[Len(packets)]

(* A command is written; internal_run_command has cleared the error.       *)
Command(guarded) ==
  /\ ~reading /\ commands < MaxCommands
  /\ guarded => ~err
  /\ commands' = commands + 1
  /\ \E packets \in Answers(commands + 1) :
       /\ wire' = wire \o packets
       /\ sent' = Append(sent, Total(packets))
  /\ reading' = TRUE /\ frames' = <<>>
  /\ err' = FALSE
  /\ unfenced' = (unfenced \/ err)
  /\ UNCHANGED <<chunk, buffers, freed, twice, overrun, answer>>

-----------------------------------------------------------------------------
Held(fs) == {fs[k] : k \in 1..Len(fs)}

(* mem_free of each buffer of a set.                                       *)
Free(bufs) ==
  /\ freed' = freed \cup bufs
  /\ twice' = (twice \/ bufs \cap freed # {})

(* The innermost call returns NULL: all the buffers of the nest are freed. *)
Unwind ==
  /\ Free(Held(frames))
  /\ answer' = Failed
  /\ reading' = FALSE /\ frames' = <<>>

Return(a) ==
  /\ answer' = a
  /\ reading' = FALSE /\ frames' = <<>>
  /\ UNCHANGED <<freed, twice>>

(* A chunk that nothing has been begun for.                                *)
Stray ==
  /\ answer' = Failed
  /\ reading' = FALSE /\ frames' = <<>>
  /\ UNCHANGED chunk

Take(type) == reading /\ wire # <<>> /\ Head(wire).type = type /\ wire' = Tail(wire)

(* Seeded fault: the array of buffers does not grow.                       *)
RoomForBuffersFixed(bnum, bcount) == bnum

(* "check if a resize is needed", of the array of buffers ...              *)
RoomForBuffers(bnum, bcount) == IF bnum <= bcount + 1 THEN 2 * bnum ELSE bnum

(* ... and of the array of values, before n rows are added.                *)
RoomForRows(brows, nrows, n) == IF brows <= nrows + n THEN 2 * brows ELSE brows

(* internal_parse_rowset_values.                                           *)
Rows(p) == [k \in 1..p.n |-> <<p.of, p.from + k>>]

(* The rowset of a first chunk p in the buffer b.                          *)
First(p, b) ==
  [bufs |-> {b}, bcount |-> 1, bnum |-> RoomForBuffers(NBuffers, 1),
   nrows |-> p.n, brows |-> RoomForRows(p.n + MinRows, p.n, p.n), rows |-> Rows(p)]

(* The rowset c with the chunk p in the buffer b after it.                 *)
Extended(c, p, b) ==
  [bufs |-> c.bufs \cup {b}, bcount |-> c.bcount + 1, bnum |-> RoomForBuffers(c.bnum, c.bcount),
   nrows |-> c.nrows + p.n, brows |-> RoomForRows(c.brows, c.nrows, p.n), rows |-> c.rows \o Rows(p)]

(* A first chunk: what is left of an earlier rowset is freed.              *)
FirstChunk ==
  /\ Take("chunk") /\ Head(wire).idx = 1
  /\ IF chunk = <<>> THEN UNCHANGED <<freed, twice>> ELSE Free(chunk[1].bufs)
  /\ buffers' = buffers + 1
  /\ chunk' = <<First(Head(wire), buffers')>>
  /\ frames' = Append(frames, buffers')
  /\ UNCHANGED <<commands, sent, reading, err, unfenced, overrun, answer>>

(* Seeded fault: a later chunk is taken for a rowset of its own.           *)
NextChunkAnew ==
  /\ Take("chunk") /\ Head(wire).idx # 1
  /\ buffers' = buffers + 1
  /\ chunk' = Append(chunk, First(Head(wire), buffers'))
  /\ frames' = Append(frames, buffers')
  /\ UNCHANGED <<commands, sent, reading, err, freed, twice, unfenced, overrun, answer>>

(* Seeded fault: a chunk without rows counts as the end chunk, whatever    *)
(* its index.                                                              *)
NextChunkEndsWhenEmpty ==
  /\ Take("chunk") /\ Head(wire).idx # 1
  /\ buffers' = buffers + 1
  /\ chunk # <<>>
  /\ IF Head(wire).n = 0 THEN chunk' = <<>> /\ Return(Rowset(chunk[1]))
     ELSE /\ chunk' = <<Extended(chunk[1], Head(wire), buffers')>>
          /\ frames' = Append(frames, buffers')
          /\ UNCHANGED <<reading, freed, twice, answer>>
  /\ UNCHANGED <<commands, sent, err, unfenced, overrun>>

(* The rows of p have room in the array of values once it is resized.      *)
Fits(c, p) == c.nrows + p.n <= RoomForRows(c.brows, c.nrows, p.n)

(* A later chunk; without a first one the call returns NULL and no error.  *)
NextChunk ==
  /\ Take("chunk") /\ Head(wire).idx # 1
  /\ buffers' = buffers + 1
  /\ \/ chunk = <<>> /\ Free({buffers'}) /\ Stray
     \/ /\ chunk # <<>>
        /\ Fits(chunk[1], Head(wire))
        /\ chunk' = <<Extended(chunk[1], Head(wire), buffers')>>
        /\ frames' = Append(frames, buffers')
        /\ UNCHANGED <<reading, freed, twice, answer>>
  /\ UNCHANGED <<commands, sent, err, unfenced, overrun>>

(* The array is doubled once, whatever the chunk brings: the rest of its   *)
(* values is written beyond the end.  Nothing is said of what follows.     *)
Overrun ==
  /\ Take("chunk") /\ Head(wire).idx # 1
  /\ chunk # <<>>
  /\ ~Fits(chunk[1], Head(wire))
  /\ overrun' = Head(wire).n
  /\ UNCHANGED <<commands, sent, reading, err, chunk, frames, buffers, freed, twice, unfenced, answer>>

(* Seeded fault: _chunk keeps the rowset that is returned.                 *)
EndChunkKeeps ==
  /\ Take("end")
  /\ chunk # <<>>
  /\ Return(Rowset(chunk[1]))
  /\ UNCHANGED <<commands, sent, err, chunk, buffers, unfenced, overrun>>

EndChunk ==
  /\ Take("end")
  /\ IF chunk = <<>> THEN Stray /\ UNCHANGED <<freed, twice>>
     ELSE chunk' = <<>> /\ Return(Rowset(chunk[1]))
  /\ UNCHANGED <<commands, sent, err, buffers, unfenced, overrun>>

ErrorReply ==
  /\ Take("error")
  /\ err' = TRUE
  /\ Unwind
  /\ UNCHANGED <<commands, sent, chunk, buffers, unfenced, overrun>>

OtherReply ==
  /\ Take("other")
  /\ Return(Plain)
  /\ UNCHANGED <<commands, sent, err, chunk, buffers, unfenced, overrun>>

(* What may be left of the packets w when a read stops in the first one:  *)
(* all of it, or a rest without its beginning.  In a rest the program sees *)
(* a length where there is none, and may stop anywhere behind it.          *)
Torn(w) == IF w = <<>> THEN {w} ELSE {w, [w EXCEPT ![1].type = "rest"]}

Leftovers(w) ==
  IF w # <<>> /\ Head(w).type = "rest"
  THEN UNION {Torn(SubSeq(w, k, Len(w))) : k \in 1..Len(w) + 1}
  ELSE Torn(w)

(* Seeded fault: abort_read returns NULL without internal_set_error.       *)
ReadFailsQuietly ==
  /\ reading
  /\ wire' \in Leftovers(wire)
  /\ Unwind
  /\ UNCHANGED <<commands, sent, err, chunk, buffers, unfenced, overrun>>

(* The receive timeout, or the end of the socket: the bytes read are lost. *)
ReadFails ==
  /\ reading
  /\ wire' \in Leftovers(wire)
  /\ err' = TRUE
  /\ Unwind
  /\ UNCHANGED <<commands, sent, chunk, buffers, unfenced, overrun>>

(* A rest is taken for a reply: it has a value, is malformed, or is of an  *)
(* unknown type, which gives NULL and no error.  (Cells that look like the *)
(* header of a chunk are left out.)                                        *)
RestReply ==
  /\ reading /\ wire # <<>> /\ Head(wire).type = "rest"
  /\ wire' \in Leftovers(wire)
  /\ \/ Return(Plain) /\ UNCHANGED err
     \/ Unwind /\ err' \in {err, TRUE}
  /\ UNCHANGED <<commands, sent, chunk, buffers, unfenced, overrun>>

(* connect(): a new struct and a new socket; _chunk of the old one is      *)
(* never freed.                                                            *)
Connect ==
  /\ ~reading /\ commands > 0
  /\ err' = FALSE /\ wire' = <<>> /\ chunk' = <<>>
  /\ unfenced' = FALSE /\ twice' = FALSE
  /\ answer' = None
  /\ UNCHANGED <<commands, sent, reading, frames, buffers, freed, overrun>>

-----------------------------------------------------------------------------
Init ==
  /\ commands = 0 /\ sent = <<>> /\ wire = <<>>
  /\ reading = FALSE /\ err = FALSE
  /\ chunk = <<>> /\ frames = <<>>
  /\ buffers = 0 /\ freed = {} /\ twice = FALSE
  /\ unfenced = FALSE
  /\ overrun = 0
  /\ answer = None

Read ==
  \/ FirstChunk \/ NextChunk \/ Overrun \/ EndChunk
  \/ ErrorReply \/ OtherReply \/ RestReply \/ ReadFails

Next ==
  /\ overrun = 0
  /\ (\E guarded \in BOOLEAN : Command(guarded)) \/ Read \/ Connect

Spec == Init /\ [][Next]_vars

-----------------------------------------------------------------------------
Packets == [type : {"chunk", "end", "error", "other", "rest"}, of : Nat, idx : Nat, from : Nat, n : Nat]
Values  == Seq(Nat \X Nat)

(* The packets, the unfinished rowset and the buffers are well typed.      *)
TypeOK ==
  /\ commands \in Nat /\ sent \in Seq(Nat)
  /\ wire \in Seq(Packets)
  /\ reading \in BOOLEAN /\ err \in BOOLEAN /\ twice \in BOOLEAN /\ unfenced \in BOOLEAN
  /\ Len(chunk) <= 1
  /\ chunk \in Seq([bufs : SUBSET Nat, bcount : Nat, bnum : Nat, nrows : Nat, brows : Nat, rows : Values])
  /\ buffers \in Nat /\ frames \in Seq(1..buffers) /\ freed \subseteq 1..buffers
  /\ overrun \in Nat
  /\ answer \in [kind : {"none", "null", "other", "rowset"}, rows : Values, bufs : SUBSET (1..buffers)]

(* However many chunks come, the arrays of the unfinished rowset have room *)
(* for what is written into them: rowset->buffers for every chunk, rowset  *)
(* ->data for every row counted.  Only a chunk after the first that has    *)
(* more rows than DEFAULT_CHUNK_MINROWS can be written beyond the end      *)
(* (internal_parse_rowset_chunck doubles the array once).                  *)
InBounds ==
  /\ \A k \in 1..Len(chunk) :
       LET c == chunk[k] IN
       /\ c.bcount <= c.bnum
       /\ Len(c.rows) = c.nrows /\ c.nrows <= c.brows
  /\ overrun # 0 => overrun > MinRows

(* A rowset that a call returns has all the rows of the answer to that     *)
(* call's command, in order, and no other, however it was cut into chunks  *)
(* and whatever errors and timeouts came before on other connections; only *)
(* an unguarded command over an error can put another answer in its place. *)
RowsetIsOneAnswer ==
  ~reading /\ ~unfenced /\ answer.kind = "rowset"
    => answer.rows = [k \in 1..sent[commands] |-> <<commands, k>>]

(* A rowset half built when a call fails is never met by a guarded command *)
(* again: the error that cut it off bars the connection (the sanity check  *)
(* of internal_parse_rowset_chunck is for the unguarded commands alone).   *)
PartialIsBarred == chunk # <<>> /\ ~reading => err \/ unfenced

(* The buffers of a rowset cut off are freed while _chunk still points to  *)
(* them.  No buffer is freed twice, and no rowset returned points into     *)
(* freed ones, unless an unguarded command, that is a function of a        *)
(* SQLiteCloudVM, has gone on in spite of the error.                       *)
OnlyVMsReuseBuffers == twice \/ answer.bufs \cap freed # {} => unfenced

(* "this should never happen" (sqcloud.c:1039): a later chunk or an end    *)
(* chunk is read with a rowset begun, as long as no unguarded command has  *)
(* gone on over an error, where it does happen.                            *)
NoStrayChunk ==
  /\ reading /\ ~unfenced /\ wire # <<>>
  /\ Head(wire).type = "end" \/ Head(wire).idx > 1
  => chunk # <<>>
=============================================================================
