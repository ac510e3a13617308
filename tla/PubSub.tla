------------------------------- MODULE PubSub -------------------------------
(***************************************************************************)
(* Notifications: listen() of SQLiteCloud.kt, internal_setup_pubsub and    *)
(* pubsub_thread of sqcloud.c, and the callback that runs on that thread.  *)
(*                                                                         *)
(* Commands use the main socket; as in CloudConnection, callers take turns *)
(* for them.  Their other steps, the reader thread and the server          *)
(* interleave freely.  The reader shares with the callers the error of the *)
(* connection struct and the list of observers.                            *)
(*                                                                         *)
(* Nothing is assumed to be read in the end: under TLS, the default, the   *)
(* rest of a notification longer than the buffer stays in the library      *)
(* while select() waits for the socket.                                    *)
(***************************************************************************)
EXTENDS Integers, Sequences

CONSTANTS
  Callers,      \* coroutines that call listen()
  Channels,     \* names of channels and tables that are written to
  AllTables,    \* SQLiteCloudChannel.AllTables
  MaxSent,      \* bound on the notifications
  MaxObservers, \* bound on the subscriptions
  MaxConnects   \* bound on the calls of connect()

ASSUME PubSubAssumption ==
  /\ AllTables \notin Channels
  /\ MaxSent \in Nat /\ MaxObservers \in Nat /\ MaxConnects \in Nat

VARIABLES
  connects,   \* calls of connect() so far
  conn,       \* there is a connection struct
  err,        \* its errcode: "none", set by a "call" or by the "reader"
  masked,     \* a command cleared an error of the reader nobody has seen
  pubsubfd,   \* the struct has a pub/sub socket
  reader,     \* its thread: "none", "running", "stuck" or "ended"
  orphans,    \* threads run on whose struct has been freed
  pc, want,   \* of each caller: its place in listen(), and the channel
  listened,   \* the channels the server notifies this connection of
  wire,       \* sent on the pub/sub socket and not read
  handled,    \* the notifications handed to the callback
  observers,  \* the subscriptions: channel, len(handled) then, what they got
  loop,       \* forEach of the callback: next observer, number of observers
  fate        \* "running", or what ended the process

vars == <<connects, conn, err, masked, pubsubfd, reader, orphans, pc, want,
          listened, wire, handled, observers, loop, fate>>

connection == <<connects, conn, pubsubfd, orphans, listened>>
calls      == <<pc, want>>
stream     == <<wire, handled>>

NoLoop   == [next |-> 0, size |-> 0]
InLoop   == loop # NoLoop
Alive    == fate = "running"
MyTurn   == \A c \in Callers : pc[c] # "listen"
Readable == reader \in {"running", "stuck"}

-----------------------------------------------------------------------------
(* connect(): a new struct.  After an error it replaces the old one; the   *)
(* case of a reader that still runs on that one is not followed here.      *)
Connect ==
  /\ Alive /\ MyTurn /\ connects < MaxConnects
  /\ ~conn \/ (err # "none" /\ ~Readable)
  /\ connects' = connects + 1
  /\ conn' = TRUE /\ err' = "none" /\ masked' = FALSE
  /\ pubsubfd' = FALSE /\ reader' = "none"
  /\ listened' = {} /\ wire' = <<>>
  /\ UNCHANGED <<orphans, pc, want, handled, observers, loop, fate>>

(* disconnect(): closes both sockets and frees the struct; nobody stops    *)
(* the thread, whose select() on the closed descriptor fails for ever, or  *)
(* a callback that is under way.                                           *)
Disconnect ==
  /\ Alive /\ MyTurn /\ conn /\ err = "none"
  /\ conn' = FALSE
  /\ pubsubfd' = FALSE /\ reader' = "none" /\ wire' = <<>>
  /\ orphans' = (orphans \/ Readable)
  /\ UNCHANGED <<connects, err, masked, pc, want, listened, handled, observers, loop, fate>>

-----------------------------------------------------------------------------
(* listen() calls execute(), which calls ensureConnectedOrThrow ...        *)
Listen(c, ch) ==
  /\ Alive /\ MyTurn /\ pc[c] = "idle"
  /\ conn /\ err = "none"
  /\ Len(observers) < MaxObservers
  /\ pc' = [pc EXCEPT ![c] = "listen"]
  /\ want' = [want EXCEPT ![c] = ch]
  /\ UNCHANGED <<connection, err, masked, reader, stream, observers, loop, fate>>

(* ... and then sends LISTEN.  Every command clears the error of the       *)
(* struct first, whoever has set it since the check.                       *)
ErrorIsCleared == masked' = (masked \/ err = "reader")

Command(c) ==
  /\ Alive /\ pc[c] = "listen"
  /\ ErrorIsCleared
  /\ UNCHANGED <<connects, conn, orphans, want, observers, loop, fate>>

Succeeds(c) ==
  /\ pc' = [pc EXCEPT ![c] = "add"]
  /\ err' = "none"
  /\ listened' = listened \cup {want[c]}

(* execute() throws when the native result is null; a reply of a type the  *)
(* parser does not know gives one without an error.                        *)
Throws(c) ==
  /\ pc' = [pc EXCEPT ![c] = "idle"]
  /\ err' \in {"none", "call"}

(* The server refuses, or its answer is lost.                              *)
ListenFails(c) ==
  /\ Command(c)
  /\ Throws(c)
  /\ listened' \in {listened, listened \cup {want[c]}}
  /\ UNCHANGED <<pubsubfd, reader, stream>>

(* internal_setup_pubsub: "check if pubsub was already setup".             *)
AlreadySetUp(c) ==
  /\ Command(c)
  /\ pubsubfd
  /\ Succeeds(c)
  /\ UNCHANGED <<pubsubfd, reader, stream>>

(* The second socket is opened, PAUTH accepted and the thread started.     *)
Setup(c) ==
  /\ Command(c)
  /\ ~pubsubfd /\ pubsubfd' = TRUE
  /\ reader' = "running"
  /\ wire' = <<>>
  /\ Succeeds(c)
  /\ UNCHANGED handled

(* No thread is started and LISTEN succeeds all the same: PAUTH is         *)
(* answered with something other than OK, which becomes the answer to      *)
(* LISTEN, or pthread_create fails and nobody looks.                       *)
SetupSilent(c) ==
  /\ Command(c)
  /\ ~pubsubfd /\ pubsubfd' = TRUE
  /\ Succeeds(c)
  /\ UNCHANGED <<reader, stream>>

(* The socket cannot be opened, or it is stored and PAUTH gives no result. *)
SetupFails(c) ==
  /\ Command(c)
  /\ ~pubsubfd /\ pubsubfd' \in BOOLEAN
  /\ listened' = listened \cup {want[c]}
  /\ Throws(c)
  /\ UNCHANGED <<reader, stream>>

(* The other commands: those of execute(), which were checked, and those   *)
(* of SQLiteCloudVM, which never are.                                      *)
OtherCommand ==
  /\ Alive /\ MyTurn /\ conn
  /\ ErrorIsCleared
  /\ err' \in {"none", "call"}
  /\ UNCHANGED <<connection, reader, calls, stream, observers, loop, fate>>

(* Back in listen(): the counter of the channel, which nothing reads, and  *)
(* the observer.                                                           *)
AddObserver(c) ==
  /\ Alive /\ pc[c] = "add"
  /\ pc' = [pc EXCEPT ![c] = "idle"]
  /\ observers' = Append(observers, [channel |-> want[c], since |-> Len(handled), got |-> <<>>])
  /\ UNCHANGED <<connection, err, masked, reader, want, stream, loop, fate>>

-----------------------------------------------------------------------------
(* A notification of a channel or of a write to a table (external).        *)
Publish(ch) ==
  /\ Alive /\ Readable
  /\ ch \in listened \/ AllTables \in listened
  /\ Len(handled) + Len(wire) < MaxSent
  /\ wire' = Append(wire, ch)
  /\ UNCHANGED <<connection, err, masked, reader, calls, handled, observers, loop, fate>>

(* pubsub_thread reads exactly one message, in however many pieces, and    *)
(* calls back.                                                             *)
ReadMessage ==
  /\ Alive /\ reader = "running" /\ ~InLoop
  /\ wire # <<>>
  /\ wire' = Tail(wire)
  /\ handled' = Append(handled, Head(wire))
  /\ loop' = [next |-> 1, size |-> Len(observers)]
  /\ UNCHANGED <<connection, err, masked, reader, calls, observers, fate>>

(* A read that brings the beginning of a second message makes the total    *)
(* differ from the length of the first for good.  When little room is left *)
(* what was read is copied to a buffer of the length of the first message  *)
(* alone, which it overruns (undefined).                                   *)
ReadTogether ==
  /\ Alive /\ Readable /\ ~InLoop
  /\ \E k \in 1..Len(wire) :
       /\ k > 1 \/ reader = "stuck"
       /\ wire' = SubSeq(wire, k + 1, Len(wire))
  /\ reader' = "stuck"
  /\ fate' \in {"running", "undefined"}
  /\ UNCHANGED <<connection, err, masked, calls, handled, observers, loop>>

(* Seeded fault: the end of the thread leaves no error.                    *)
ReaderEndsSilently ==
  /\ Alive /\ Readable /\ ~InLoop
  /\ reader' = "ended"
  /\ fate' \in {"running", "undefined"}
  /\ UNCHANGED <<connection, err, masked, calls, stream, observers, loop>>

(* The socket fails or is closed: the error goes into the struct, the      *)
(* socket stays recorded, and the callback is made with a null result, on  *)
(* another thread's JNIEnv.                                                *)
ReaderEnds ==
  /\ Alive /\ Readable /\ ~InLoop
  /\ reader' = "ended"
  /\ err' = "reader"
  /\ fate' \in {"running", "undefined"}
  /\ UNCHANGED <<connection, masked, calls, stream, observers, loop>>

-----------------------------------------------------------------------------
(* Seeded fault: every observer is called.                                 *)
CallObserverOfAny ==
  /\ Alive /\ InLoop
  /\ loop.next <= Len(observers) /\ Len(observers) = loop.size
  /\ observers' = [observers EXCEPT ![loop.next].got = Append(@, handled[Len(handled)])]
  /\ loop' = [loop EXCEPT !.next = @ + 1]
  /\ UNCHANGED <<connection, err, masked, reader, calls, stream, fate>>

(* One round of observers.forEach: names are compared, so an observer of   *)
(* AllTables, whose name is "*", is never called.                          *)
CallObserver ==
  /\ Alive /\ InLoop
  /\ loop.next <= Len(observers) /\ Len(observers) = loop.size
  /\ LET payload == handled[Len(handled)] IN
     observers' = [observers EXCEPT ![loop.next].got =
                     IF observers[loop.next].channel = payload THEN Append(@, payload) ELSE @]
  /\ loop' = [loop EXCEPT !.next = @ + 1]
  /\ UNCHANGED <<connection, err, masked, reader, calls, stream, fate>>

CallbackReturns ==
  /\ Alive /\ InLoop
  /\ loop.next > Len(observers)
  /\ loop' = NoLoop
  /\ UNCHANGED <<connection, err, masked, reader, calls, stream, observers, fate>>

(* The iterator finds that a listen() has added an observer: its           *)
(* ConcurrentModificationException is caught nowhere.                      *)
Modification ==
  /\ Alive /\ InLoop
  /\ loop.next <= Len(observers) /\ Len(observers) # loop.size
  /\ fate' = "modification"
  /\ UNCHANGED <<connection, err, masked, reader, calls, stream, observers, loop>>

(* What else may end the process: the payload cannot be decoded, which     *)
(* throws no Error; the callback is made with the JNIEnv of another thread *)
(* (undefined); an orphan finds its descriptor in use again and goes on in *)
(* freed memory.                                                           *)
Crash ==
  /\ Alive
  /\ \/ InLoop /\ loop.next = 1 /\ fate' \in {"decoding", "undefined"}
     \/ orphans /\ conn /\ fate' = "freed"
  /\ UNCHANGED <<connection, err, masked, reader, calls, stream, observers, loop>>

-----------------------------------------------------------------------------
Init ==
  /\ connects = 0 /\ conn = FALSE /\ err = "none" /\ masked = FALSE
  /\ pubsubfd = FALSE /\ reader = "none" /\ orphans = FALSE
  /\ pc = [c \in Callers |-> "idle"]
  /\ want = [c \in Callers |-> AllTables]
  /\ listened = {}
  /\ wire = <<>> /\ handled = <<>>
  /\ observers = <<>> /\ loop = NoLoop
  /\ fate = "running"

Reader ==
  \/ ReadMessage \/ ReadTogether \/ ReaderEnds
  \/ CallObserver \/ CallbackReturns \/ Modification

Next ==
  \/ Connect \/ Disconnect \/ OtherCommand
  \/ \E c \in Callers :
       \/ \E ch \in Channels \cup {AllTables} : Listen(c, ch)
       \/ ListenFails(c) \/ AlreadySetUp(c) \/ Setup(c) \/ SetupSilent(c)
       \/ SetupFails(c) \/ AddObserver(c)
  \/ \E ch \in Channels : Publish(ch)
  \/ Reader \/ Crash

Spec == Init /\ [][Next]_vars

-----------------------------------------------------------------------------
Names == Channels \cup {AllTables}

(* Connection, reader, subscriptions and callback are well typed; a        *)
(* connection has a reader only with a pub/sub socket.                     *)
TypeOK ==
  /\ connects \in Nat
  /\ conn \in BOOLEAN /\ pubsubfd \in BOOLEAN /\ orphans \in BOOLEAN
  /\ masked \in BOOLEAN
  /\ err \in {"none", "call", "reader"}
  /\ reader \in {"none", "running", "stuck", "ended"}
  /\ pc \in [Callers -> {"idle", "listen", "add"}]
  /\ want \in [Callers -> Names]
  /\ listened \subseteq Names
  /\ wire \in Seq(Channels) /\ handled \in Seq(Channels)
  /\ observers \in Seq([channel : Names, since : Nat, got : Seq(Channels)])
  /\ loop \in [next : Nat, size : Nat]
  /\ fate \in {"running", "modification", "decoding", "undefined", "freed"}
  /\ reader # "none" => pubsubfd

(* The notifications of ch among those after the first from, up to to.     *)
Heard(s, from, to, ch) ==
  LET heard[n \in from..to] ==
        IF n = from THEN <<>>
        ELSE IF s[n] = ch THEN Append(heard[n - 1], ch) ELSE heard[n - 1]
  IN heard[to]

(* Between two callbacks every observer of a channel or a table has got,   *)
(* once and in order, each notification of it that was handled since       *)
(* listen() added it, however listen() calls, errors and reconnections     *)
(* overlap the reader (the callback of setupPubSubCallback, observers of   *)
(* SQLiteCloud).                                                           *)
ObserversHearAll ==
  Alive /\ ~InLoop =>
    \A k \in 1..Len(observers) :
      LET o == observers[k] IN
      o.channel \in Channels => o.got = Heard(handled, o.since, Len(handled), o.channel)

(* So has an observer of "*", which listen() documents as "you'll start    *)
(* receiving notifications from all the tables".                           *)
AllTablesHeard ==
  Alive /\ ~InLoop =>
    \A k \in 1..Len(observers) :
      LET o == observers[k] IN
      o.channel = AllTables => o.got = SubSeq(handled, o.since + 1, Len(handled))

(* When the reader has ended the next checked call is refused, unless a    *)
(* command has wiped the error out: one that was checked before, or one of *)
(* SQLiteCloudVM (pubsub_thread, internal_clear_error).                    *)
EndIsNoticed == reader = "ended" => err # "none" \/ masked
=============================================================================
