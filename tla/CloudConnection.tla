-------------------------- MODULE CloudConnection --------------------------
(***************************************************************************)
(* The request/reply core of the cloud client: SQLiteCloud.kt (the public  *)
(* suspending functions), SQLiteCloudBridge.kt (the `connection` field and *)
(* error()), sqlitecloud.cpp (JNI) and the connection part of sqcloud.c.   *)
(*                                                                         *)
(* A caller is a coroutine inside one suspending function of SQLiteCloud   *)
(* or SQLiteCloudVM; it runs on a thread of Dispatchers.IO, so two callers *)
(* interleave at every step.  A handle is one SQCloudConnection struct with*)
(* its main socket.  Commands carry a ticket, the position at which they   *)
(* were written: the program keeps none, it pairs the next reply it reads  *)
(* with the command it wrote last.                                         *)
(***************************************************************************)
EXTENDS Naturals, Sequences, FiniteSets

CONSTANTS
  Callers,        \* coroutines that use one SQLiteCloud object
  Handles,        \* SQCloudConnection structs that may be allocated (bound)
  NoHandle,       \* null
  Operations,     \* the public functions the callers use
  ReplyKinds,     \* the kinds of reply the server may send
  MaxCommands,    \* bound on the commands written
  ConfigCommands, \* config yields a non-empty command string (AUTH, USE, ...)
  Readonly,       \* config.isReadonlyConnection
  Timeout,        \* config.timeout # 0: SO_RCVTIMEO is set on the socket
  Tls,            \* ~config.insecure
  Serialized      \* the callers start a call only when no other is running

(* The functions of SQLiteCloudVM that send a command: step, bindValue,    *)
(* bindParameterIndex and bindParameterName, and close.                    *)
VmOperations  == {"step", "bind", "parameter", "finalize"}
GatedOperations == {"disconnect", "execute", "uuid", "compile"}
AllOperations == {"connect"} \cup GatedOperations \cup VmOperations
AllReplyKinds == {"ok", "sqlerr", "malformed", "redirect", "reconnect", "unknown"}

ASSUME ConnectionAssumption ==
  /\ NoHandle \notin Handles
  /\ Operations \subseteq AllOperations
  /\ ReplyKinds \subseteq AllReplyKinds
  /\ MaxCommands \in Nat
  /\ {ConfigCommands, Readonly, Timeout, Tls, Serialized} \subseteq BOOLEAN

VARIABLES
  connection,  \* SQLiteCloudBridge.connection
  heap,        \* life of each struct: "unused", "live", "freed"
  err,         \* errcode of each struct and the ticket that caused it
  link,        \* the peer still serves the socket
  wire,        \* commands written and not yet answered
  replies,     \* replies sent and not yet read
  uuid,        \* the cached SQCloudConnection.uuid (its ticket, 0 = NULL)
  written,     \* the number of commands written so far, the last ticket
  uuidAsked,   \* the tickets that were GET CLIENT KEY UUID commands
  pc, op,      \* where each caller is, and in which function
  mine,        \* the struct whose pointer the caller holds
  ticket,      \* the caller's last command
  got,         \* the reply the caller read (its ticket, 0 = NULL result)
  vm,          \* the struct the caller's SQLiteCloudVM points to
  outcome,     \* what the caller's last call returned or threw
  reused,      \* history: structs a VM wrote on over their network error
  unready      \* history: structs whose connection or configuration failed

handleVars == <<heap, err, link, wire, replies, uuid>>
callVars   == <<mine, ticket, got, vm>>
history    == <<reused, unready>>
commands   == <<written, uuidAsked>>
vars == <<connection, handleVars, commands, pc, op, callVars, outcome, history>>

NoError    == [kind |-> "none", cause |-> 0]
SetupPhases == {"config", "pubsubOnly"}
Phases     == SetupPhases \cup GatedOperations \cup VmOperations
Errors     == [kind : {"none", "sqlite", "network"}, cause : Nat]
Replies    == [ticket : Nat, kind : AllReplyKinds]
Locations  == {"idle", "open", "assign", "send", "recv", "return", "close", "clear", "crashed"}
Statuses   == {"value", "invalid", "sqlite", "network", "generic", "unhandled", "invalidUUID",
               "failed", "undefined"}
NoOutcome  == [op |-> "none", status |-> "none", asked |-> 0, got |-> 0]
Outcomes   == [op : AllOperations, status : Statuses, asked : Nat, got : Nat] \cup {NoOutcome}

Api(o) == IF o \in SetupPhases THEN "connect" ELSE o

-----------------------------------------------------------------------------
(* What the bridge can see of the connection.                              *)

(* Seeded fault: a struct that exists counts as a working connection.      *)
IsErrorByPointer == connection = NoHandle

IsError == connection = NoHandle \/ err[connection].kind # "none"

(* Seeded fault: isConnected looks at the pointer only.                    *)
IsConnectedByPointer == connection # NoHandle

IsConnected == connection # NoHandle /\ ~IsError

(* The struct a native call of caller c dereferences: the field of the     *)
(* bridge is read when the call starts, a VM keeps its own pointer and the *)
(* commands of SQCloudConnect use the struct being set up.                 *)
Target(c) ==
  CASE op[c] \in VmOperations -> vm[c]
    [] op[c] = "config"        -> mine[c]
    [] OTHER                   -> connection

Live(h) == h # NoHandle /\ heap[h] = "live"

(* The call of c ends with status s.                                       *)
Finish(c, s) ==
  /\ pc' = [pc EXCEPT ![c] = "idle"]
  /\ outcome' = [outcome EXCEPT ![c] =
        [op |-> Api(op[c]), status |-> s, asked |-> ticket[c], got |-> got[c]]]

-----------------------------------------------------------------------------
(* The beginning of a call.                                                *)

MayBegin(c) ==
  /\ pc[c] = "idle"
  /\ Serialized => \A d \in Callers : pc[d] = "idle"

BeginConnect(c) ==
  /\ MayBegin(c)
  /\ "connect" \in Operations
  /\ written < MaxCommands
  /\ \E h \in Handles : heap[h] = "unused"
  /\ pc' = [pc EXCEPT ![c] = "open"]
  /\ op' = [op EXCEPT ![c] = "config"]
  /\ ticket' = [ticket EXCEPT ![c] = 0]
  /\ got' = [got EXCEPT ![c] = 0]
  /\ UNCHANGED <<connection, handleVars, commands, mine, vm, outcome, history>>

(* ensureConnectedOrThrow lets the call through ...                        *)
BeginGated(c, o) ==
  /\ MayBegin(c)
  /\ o \in Operations \cap GatedOperations
  /\ written < MaxCommands
  /\ IsConnected
  /\ pc' = [pc EXCEPT ![c] = IF o = "disconnect" THEN "close" ELSE "send"]
  /\ op' = [op EXCEPT ![c] = o]
  /\ ticket' = [ticket EXCEPT ![c] = 0]
  /\ got' = [got EXCEPT ![c] = 0]
  /\ UNCHANGED <<connection, handleVars, commands, mine, vm, outcome, history>>

(* ... or throws Connection.invalidConnection at once.                     *)
BeginRefused(c, o) ==
  /\ MayBegin(c)
  /\ o \in Operations \cap GatedOperations
  /\ ~IsConnected
  /\ outcome' = [outcome EXCEPT ![c] =
        [op |-> o, status |-> "invalid", asked |-> 0, got |-> 0]]
  /\ UNCHANGED <<connection, handleVars, commands, pc, op, callVars, history>>

(* The functions of SQLiteCloudVM have no such check: they go straight to  *)
(* the C code with the pointer of the VM.                                  *)
BeginVM(c, o) ==
  /\ MayBegin(c)
  /\ o \in Operations \cap VmOperations
  /\ vm[c] # NoHandle
  /\ written < MaxCommands
  /\ pc' = [pc EXCEPT ![c] = "send"]
  /\ op' = [op EXCEPT ![c] = o]
  /\ ticket' = [ticket EXCEPT ![c] = 0]
  /\ got' = [got EXCEPT ![c] = 0]
  /\ UNCHANGED <<connection, handleVars, commands, mine, vm, outcome, history>>

(* close() of a VM whose statement is finalized frees it without a command.*)
ReleaseVM(c) ==
  /\ MayBegin(c)
  /\ "finalize" \in Operations
  /\ vm[c] # NoHandle
  /\ vm' = [vm EXCEPT ![c] = NoHandle]
  /\ outcome' = [outcome EXCEPT ![c] =
        [op |-> "finalize", status |-> "value", asked |-> 0, got |-> 0]]
  /\ UNCHANGED <<connection, handleVars, commands, pc, op, mine, ticket, got, history>>

-----------------------------------------------------------------------------
(* SQCloudConnect: allocate the struct, connect the socket.  The failure   *)
(* is only recorded in the struct; the struct is returned all the same.    *)

Open(c) ==
  /\ pc[c] = "open"
  /\ \E h \in Handles :
       /\ heap[h] = "unused"
       /\ heap' = [heap EXCEPT ![h] = "live"]
       /\ mine' = [mine EXCEPT ![c] = h]
       /\ \/ /\ link' = [link EXCEPT ![h] = TRUE]
             /\ pc' = [pc EXCEPT ![c] = IF ConfigCommands THEN "send" ELSE "assign"]
             /\ UNCHANGED <<err, unready>>
          \/ /\ err' = [err EXCEPT ![h] = [kind |-> "network", cause |-> 0]]
             /\ pc' = [pc EXCEPT ![c] = "assign"]
             /\ unready' = unready \cup {h}
             /\ UNCHANGED link
  /\ UNCHANGED <<connection, wire, replies, uuid, commands, op, ticket, got, vm, outcome, reused>>

(* Seeded fault: connect() does not look at the error of the new struct.   *)
AssignUnchecked(c) ==
  /\ pc[c] = "assign"
  /\ connection' = mine[c]
  /\ IF Readonly
     THEN /\ pc' = [pc EXCEPT ![c] = "send"]
          /\ op' = [op EXCEPT ![c] = "pubsubOnly"]
          /\ UNCHANGED outcome
     ELSE /\ Finish(c, "value")
          /\ UNCHANGED op
  /\ UNCHANGED <<handleVars, commands, callVars, history>>

(* Back in Kotlin: the field is overwritten, and success is "no error".    *)
Assign(c) ==
  /\ pc[c] = "assign"
  /\ connection' = mine[c]
  /\ \/ /\ err[mine[c]].kind # "none"
        /\ pc' = [pc EXCEPT ![c] = "close"]
        /\ UNCHANGED <<op, outcome>>
     \/ /\ err[mine[c]].kind = "none"
        /\ Readonly
        /\ pc' = [pc EXCEPT ![c] = "send"]
        /\ op' = [op EXCEPT ![c] = "pubsubOnly"]
        /\ UNCHANGED outcome
     \/ /\ err[mine[c]].kind = "none"
        /\ ~Readonly
        /\ Finish(c, "value")
        /\ UNCHANGED op
  /\ UNCHANGED <<handleVars, commands, callVars, history>>

-----------------------------------------------------------------------------
(* internal_run_command: clear the error, write the command, read a reply. *)

(* The command of c on h has failed; it is recorded for those of connect().*)
SetupFailed(c, h) == unready' = IF op[c] \in SetupPhases THEN unready \cup {h} ELSE unready

(* A write on a socket whose peer is gone may still succeed.               *)
Send(c) ==
  LET h == Target(c)  t == written + 1 IN
  /\ pc[c] = "send"
  /\ Live(h)
  /\ op[c] = "uuid" => uuid[h] = 0
  /\ mine' = [mine EXCEPT ![c] = h]
  /\ ticket' = [ticket EXCEPT ![c] = t]
  /\ got' = [got EXCEPT ![c] = 0]
  /\ written' = t
  /\ uuidAsked' = IF op[c] = "uuid" THEN uuidAsked \cup {t} ELSE uuidAsked
  /\ reused' = IF op[c] \in VmOperations /\ err[h].kind = "network" THEN reused \cup {h} ELSE reused
  /\ \/ /\ pc' = [pc EXCEPT ![c] = "recv"]
        /\ err' = [err EXCEPT ![h] = NoError]
        /\ wire' = [wire EXCEPT ![h] = IF link[h] THEN Append(@, t) ELSE @]
        /\ UNCHANGED unready
     \/ /\ ~link[h]
        /\ pc' = [pc EXCEPT ![c] = "return"]
        /\ err' = [err EXCEPT ![h] = [kind |-> "network", cause |-> t]]
        /\ SetupFailed(c, h)
        /\ UNCHANGED wire
  /\ UNCHANGED <<connection, heap, link, replies, uuid, op, vm, outcome>>

(* SQCloudUUID returns the cached string without a command.                *)
CachedUuid(c) ==
  LET h == Target(c) IN
  /\ pc[c] = "send"
  /\ op[c] = "uuid"
  /\ Live(h)
  /\ uuid[h] # 0
  /\ mine' = [mine EXCEPT ![c] = h]
  /\ got' = [got EXCEPT ![c] = uuid[h]]
  /\ pc' = [pc EXCEPT ![c] = "return"]
  /\ UNCHANGED <<connection, handleVars, commands, op, ticket, vm, outcome, history>>

(* The first reply on the socket is taken, whoever's command it answers.   *)
Receive(c) ==
  LET h == mine[c]  r == Head(replies[h]) IN
  /\ pc[c] = "recv"
  /\ Live(h)
  /\ replies[h] # <<>>
  /\ replies' = [replies EXCEPT ![h] = Tail(@)]
  /\ \/ /\ r.kind = "ok"
        /\ got' = [got EXCEPT ![c] = r.ticket]
        /\ pc' = [pc EXCEPT ![c] = "return"]
        /\ UNCHANGED <<err, unready>>
     \/ /\ r.kind = "sqlerr"        \* CMD_ERROR
        /\ err' = [err EXCEPT ![h] = [kind |-> "sqlite", cause |-> r.ticket]]
        /\ pc' = [pc EXCEPT ![c] = "return"]
        /\ SetupFailed(c, h)
        /\ UNCHANGED got
     \/ /\ r.kind = "malformed"     \* "Bad protocol reply from server"
        /\ err' = [err EXCEPT ![h] = [kind |-> "network", cause |-> r.ticket]]
        /\ pc' = [pc EXCEPT ![c] = "return"]
        /\ SetupFailed(c, h)
        /\ UNCHANGED got
     \/ /\ r.kind = "redirect"      \* CMD_COMMAND: run the server's command
        /\ pc' = [pc EXCEPT ![c] = "send"]
        /\ UNCHANGED <<err, got, unready>>
     \/ /\ r.kind \in {"reconnect", "unknown"}  \* CMD_RECONNECT, a type the parser
        /\ pc' = [pc EXCEPT ![c] = "return"]    \* does not know: NULL and no error
        /\ UNCHANGED <<err, got, unready>>
  /\ UNCHANGED <<connection, heap, link, wire, uuid, commands, op, mine, ticket, vm, outcome, reused>>

(* Seeded fault: abort_read returns NULL without internal_set_error.       *)
ReceiveFailsSilently(c) ==
  LET h == mine[c] IN
  /\ pc[c] = "recv"
  /\ Live(h)
  /\ replies[h] = <<>>
  /\ ~link[h] \/ (Timeout /\ ~Tls)
  /\ pc' = [pc EXCEPT ![c] = "return"]
  /\ UNCHANGED <<connection, handleVars, commands, op, callVars, outcome, history>>

(* Seeded fault: SO_RCVTIMEO is never set, only an end of file ends a read.*)
ReceiveFailsAtEofOnly(c) ==
  LET h == mine[c] IN
  /\ pc[c] = "recv"
  /\ Live(h)
  /\ replies[h] = <<>>
  /\ ~link[h]
  /\ err' = [err EXCEPT ![h] = [kind |-> "network", cause |-> ticket[c]]]
  /\ SetupFailed(c, h)
  /\ pc' = [pc EXCEPT ![c] = "return"]
  /\ UNCHANGED <<connection, heap, link, wire, replies, uuid, commands, op, callVars, outcome, reused>>

(* abort_read: end of file, or the receive timeout of a plain socket.  A   *)
(* TLS socket reports the timeout as TLS_WANT_POLLIN and is read again.    *)
ReceiveFails(c) ==
  LET h == mine[c] IN
  /\ pc[c] = "recv"
  /\ Live(h)
  /\ replies[h] = <<>>
  /\ ~link[h] \/ (Timeout /\ ~Tls)
  /\ err' = [err EXCEPT ![h] = [kind |-> "network", cause |-> ticket[c]]]
  /\ SetupFailed(c, h)
  /\ pc' = [pc EXCEPT ![c] = "return"]
  /\ UNCHANGED <<connection, heap, link, wire, replies, uuid, commands, op, callVars, outcome, reused>>

-----------------------------------------------------------------------------
(* What each function does with the result.                                *)

(* SQLiteCloudBridge.error(): the error of the current connection.         *)
BridgeError ==
  CASE connection = NoHandle -> "generic"
    [] connection # NoHandle /\ err[connection].kind = "none" -> "unhandled"
    [] OTHER -> err[connection].kind

(* Where the thrown error came from: its ticket takes the place of a reply.*)
BridgeCause == IF IsError /\ connection # NoHandle THEN err[connection].cause ELSE 0

Throw(c, s, cause) ==
  /\ pc' = [pc EXCEPT ![c] = "idle"]
  /\ outcome' = [outcome EXCEPT ![c] =
        [op |-> Api(op[c]), status |-> s, asked |-> ticket[c], got |-> cause]]

ReturnExecute(c) ==
  /\ pc[c] = "return" /\ op[c] = "execute"
  /\ \/ got[c] # 0 /\ Finish(c, "value")
     \/ /\ got[c] = 0
        /\ connection = NoHandle \/ Live(connection)
        /\ Throw(c, BridgeError, BridgeCause)
  /\ UNCHANGED <<connection, handleVars, commands, op, callVars, history>>

ReturnUuid(c) ==
  /\ pc[c] = "return" /\ op[c] = "uuid"
  /\ Live(mine[c])
  /\ \/ /\ got[c] # 0
        /\ uuid' = [uuid EXCEPT ![mine[c]] = got[c]]
        /\ Finish(c, "value")
     \/ /\ got[c] = 0
        /\ Throw(c, "invalidUUID", 0)
        /\ UNCHANGED uuid
  /\ UNCHANGED <<connection, heap, err, link, wire, replies, commands, op, callVars, history>>

ReturnCompile(c) ==
  /\ pc[c] = "return" /\ op[c] = "compile"
  /\ \/ /\ got[c] # 0
        /\ vm' = [vm EXCEPT ![c] = mine[c]]
        /\ Finish(c, "value")
     \/ /\ got[c] = 0
        /\ connection = NoHandle \/ Live(connection)
        /\ Throw(c, "unhandled", 0)     \* SQLiteCloud.error() drops its error
        /\ UNCHANGED vm
  /\ UNCHANGED <<connection, handleVars, commands, op, mine, ticket, got, history>>

ReturnStep(c) ==
  /\ pc[c] = "return" /\ op[c] = "step"
  /\ \/ got[c] # 0 /\ Finish(c, "value")
     \/ /\ got[c] = 0
        /\ Live(mine[c])
        /\ IF err[mine[c]].kind = "none"
           THEN Throw(c, "unhandled", 0)
           ELSE Throw(c, err[mine[c]].kind, err[mine[c]].cause)
  /\ UNCHANGED <<connection, handleVars, commands, op, callVars, history>>

(* A bind that fails returns false, bindParameterIndex returns 0 and       *)
(* bindParameterName throws invalidParameterIndex, whatever the reason.    *)
ReturnBind(c) ==
  /\ pc[c] = "return" /\ op[c] \in {"bind", "parameter"}
  /\ \/ got[c] # 0 /\ Finish(c, "value")
     \/ /\ got[c] = 0
        /\ Live(mine[c])
        /\ Throw(c, "failed", 0)
  /\ UNCHANGED <<connection, handleVars, commands, op, callVars, history>>

(* SQCloudVMClose frees the VM; a failure is then read from freed memory.  *)
ReturnFinalize(c) ==
  /\ pc[c] = "return" /\ op[c] = "finalize"
  /\ vm' = [vm EXCEPT ![c] = NoHandle]
  /\ Finish(c, IF got[c] # 0 THEN "value" ELSE "undefined")
  /\ UNCHANGED <<connection, handleVars, commands, op, mine, ticket, got, history>>

(* The reply to the configuration commands is not looked at.               *)
ReturnConfig(c) ==
  /\ pc[c] = "return" /\ op[c] = "config"
  /\ pc' = [pc EXCEPT ![c] = "assign"]
  /\ UNCHANGED <<connection, handleVars, commands, op, callVars, outcome, history>>

(* Seeded fault: a failed PUBSUB ONLY throws without closing the struct.   *)
ReturnPubSubOnlyLeavesOpen(c) ==
  /\ pc[c] = "return" /\ op[c] = "pubsubOnly"
  /\ connection = NoHandle \/ Live(connection)
  /\ Finish(c, IF IsError THEN "unhandled" ELSE "value")
  /\ UNCHANGED <<connection, handleVars, commands, op, callVars, history>>

ReturnPubSubOnly(c) ==
  /\ pc[c] = "return" /\ op[c] = "pubsubOnly"
  /\ connection = NoHandle \/ Live(connection)
  /\ \/ /\ IsError
        /\ pc' = [pc EXCEPT ![c] = "close"]
        /\ UNCHANGED outcome
     \/ ~IsError /\ Finish(c, "value")
  /\ UNCHANGED <<connection, handleVars, commands, op, callVars, history>>

-----------------------------------------------------------------------------
(* SQLiteCloudBridge.disconnect: free the struct, then clear the field.    *)

Close(c) ==
  /\ pc[c] = "close"
  /\ connection # NoHandle => Live(connection)
  /\ heap' = [h \in Handles |-> IF h = connection THEN "freed" ELSE heap[h]]
  /\ link' = [h \in Handles |-> h # connection /\ link[h]]
  /\ wire' = [h \in Handles |-> IF h = connection THEN <<>> ELSE wire[h]]
  /\ replies' = [h \in Handles |-> IF h = connection THEN <<>> ELSE replies[h]]
  /\ pc' = [pc EXCEPT ![c] = "clear"]
  /\ UNCHANGED <<connection, err, uuid, commands, op, callVars, outcome, history>>

(* Seeded fault: the freed pointer stays in the field.                     *)
ClearKeepsPointer(c) ==
  /\ pc[c] = "clear"
  /\ Finish(c, IF op[c] = "disconnect" THEN "value" ELSE "unhandled")
  /\ UNCHANGED <<connection, handleVars, commands, op, callVars, history>>

(* connect() then throws SQLiteCloudError.Unhandled, disconnect() returns. *)
Clear(c) ==
  /\ pc[c] = "clear"
  /\ connection' = NoHandle
  /\ Finish(c, IF op[c] = "disconnect" THEN "value" ELSE "unhandled")
  /\ UNCHANGED <<handleVars, commands, op, callVars, history>>

(* The native code dereferences a struct that is null or freed.            *)
Dangling(c) ==
  \/ pc[c] = "send" /\ ~Live(Target(c))
  \/ pc[c] = "recv" /\ ~Live(mine[c])
  \/ pc[c] = "return" /\ op[c] = "uuid" /\ ~Live(mine[c])
  \/ /\ pc[c] = "return" /\ op[c] \in {"step", "bind", "parameter"}
     /\ got[c] = 0 /\ ~Live(mine[c])
  \/ /\ pc[c] = "return"
     /\ op[c] = "pubsubOnly" \/ (op[c] \in {"execute", "compile"} /\ got[c] = 0)
     /\ connection # NoHandle /\ ~Live(connection)
  \/ pc[c] = "close" /\ connection # NoHandle /\ ~Live(connection)

Crash(c) ==
  /\ Dangling(c)
  /\ pc' = [pc EXCEPT ![c] = "crashed"]
  /\ UNCHANGED <<connection, handleVars, commands, op, callVars, outcome, history>>

-----------------------------------------------------------------------------
(* The server (external): it answers each socket's commands in order, may  *)
(* answer late, and may close the socket.                                  *)

ServerReply(h) ==
  /\ link[h] /\ wire[h] # <<>>
  /\ \E k \in ReplyKinds :
       /\ k = "redirect" => written < MaxCommands
       /\ replies' = [replies EXCEPT ![h] = Append(@, [ticket |-> Head(wire[h]), kind |-> k])]
  /\ wire' = [wire EXCEPT ![h] = Tail(@)]
  /\ UNCHANGED <<connection, heap, err, link, uuid, commands, pc, op, callVars, outcome, history>>

ServerDrop(h) ==
  /\ link[h]
  /\ link' = [link EXCEPT ![h] = FALSE]
  /\ wire' = [wire EXCEPT ![h] = <<>>]
  /\ UNCHANGED <<connection, heap, err, replies, uuid, commands, pc, op, callVars, outcome, history>>

-----------------------------------------------------------------------------
Init ==
  /\ connection = NoHandle
  /\ heap = [h \in Handles |-> "unused"]
  /\ err = [h \in Handles |-> NoError]
  /\ link = [h \in Handles |-> FALSE]
  /\ wire = [h \in Handles |-> <<>>]
  /\ replies = [h \in Handles |-> <<>>]
  /\ uuid = [h \in Handles |-> 0]
  /\ written = 0
  /\ uuidAsked = {}
  /\ pc = [c \in Callers |-> "idle"]
  /\ op = [c \in Callers |-> "execute"]
  /\ mine = [c \in Callers |-> NoHandle]
  /\ ticket = [c \in Callers |-> 0]
  /\ got = [c \in Callers |-> 0]
  /\ vm = [c \in Callers |-> NoHandle]
  /\ outcome = [c \in Callers |-> NoOutcome]
  /\ reused = {}
  /\ unready = {}

Begin(c) ==
  \/ BeginConnect(c)
  \/ \E o \in AllOperations : BeginGated(c, o) \/ BeginRefused(c, o)
  \/ \E o \in VmOperations : BeginVM(c, o)
  \/ ReleaseVM(c)

(* The steps of a call that has begun.                                     *)
Continue(c) ==
  \/ Open(c) \/ Assign(c)
  \/ Send(c) \/ CachedUuid(c) \/ Receive(c) \/ ReceiveFails(c)
  \/ ReturnExecute(c) \/ ReturnUuid(c) \/ ReturnCompile(c) \/ ReturnStep(c)
  \/ ReturnBind(c) \/ ReturnFinalize(c) \/ ReturnConfig(c) \/ ReturnPubSubOnly(c)
  \/ Close(c) \/ Clear(c) \/ Crash(c)

Next ==
  \/ \E c \in Callers : Begin(c) \/ Continue(c)
  \/ \E h \in Handles : ServerReply(h) \/ ServerDrop(h)

Spec == Init /\ [][Next]_vars

(* The thread pool runs every coroutine that is ready, and the kernel      *)
(* eventually delivers an end of file or a receive timeout.                *)
FairSpec == Spec /\ \A c \in Callers : WF_vars(Continue(c))

-----------------------------------------------------------------------------
(* The bridge, the structs, their sockets and the calls are well typed: a  *)
(* call ends with one of the results its function has.                     *)
TypeOK ==
  /\ connection \in Handles \cup {NoHandle}
  /\ heap \in [Handles -> {"unused", "live", "freed"}]
  /\ err \in [Handles -> Errors]
  /\ link \in [Handles -> BOOLEAN]
  /\ wire \in [Handles -> Seq(Nat)]
  /\ replies \in [Handles -> Seq(Replies)]
  /\ uuid \in [Handles -> Nat]
  /\ written \in Nat
  /\ uuidAsked \subseteq 1..written
  /\ pc \in [Callers -> Locations]
  /\ op \in [Callers -> Phases]
  /\ mine \in [Callers -> Handles \cup {NoHandle}]
  /\ ticket \in [Callers -> Nat]
  /\ got \in [Callers -> Nat]
  /\ vm \in [Callers -> Handles \cup {NoHandle}]
  /\ outcome \in [Callers -> Outcomes]
  /\ reused \subseteq Handles
  /\ unready \subseteq Handles

(* A value returned by execute(), compileQuery() or a function of a VM is  *)
(* the server's answer to the command that this very call wrote last,      *)
(* never the late answer to an earlier command nor another caller's (the   *)
(* bridge matches them by position only, sqcloud.c internal_run_command).  *)
(* Exempt is a struct on which a VM has written over a network error.      *)
AnswerMatchesCommand ==
  \A c \in Callers :
    /\ pc[c] = "idle" /\ mine[c] \notin reused
    /\ outcome[c].status = "value" /\ outcome[c].op \in {"execute", "compile"} \cup VmOperations
    => outcome[c].got = outcome[c].asked

(* An SQLite or network error thrown by execute() or step() was caused by  *)
(* the command of that call, though it is read from the shared struct in a *)
(* later native call (SQLiteCloudBridge.error), with the same exemption.   *)
ErrorIsOwn ==
  \A c \in Callers :
    /\ pc[c] = "idle" /\ mine[c] \notin reused
    /\ outcome[c].status \in {"sqlite", "network"}
    => outcome[c].got = outcome[c].asked

(* The fence: when an answer is still owed on a live socket and no call is *)
(* reading, the struct holds a network error, which keeps every checked    *)
(* call from using that socket again.  Only the unchecked functions of a   *)
(* VM get over it.                                                         *)
StaleReplyIsFenced ==
  \A h \in Handles \ reused :
    /\ heap[h] = "live"
    /\ wire[h] # <<>> \/ replies[h] # <<>>
    /\ \A c \in Callers : ~(pc[c] = "recv" /\ mine[c] = h)
    => err[h].kind = "network"

(* The UUID cached in the struct by SQCloudUUID is the answer to a GET     *)
(* CLIENT KEY UUID command, whatever ran in between, a VM that gets over a *)
(* network error excepted.                                                 *)
UuidIsAnAnswer ==
  \A h \in Handles \ reused : uuid[h] # 0 => uuid[h] \in uuidAsked

(* A connect() that throws has closed and freed the struct it made and     *)
(* left no connection behind, also when PUBSUB ONLY fails after the field  *)
(* was already set.                                                        *)
FailedConnectLeavesNothing ==
  \A c \in Callers :
    pc[c] = "idle" /\ outcome[c].op = "connect" /\ outcome[c].status # "value"
      => \A h \in Handles : h = mine[c] => heap[h] = "freed" /\ connection # h

(* connect() returns normally only when the socket was connected and none  *)
(* of its commands, the configuration (AUTH, USE DATABASE, ...) and PUBSUB *)
(* ONLY, was lost or answered with an error, although nobody looks at the  *)
(* result of internal_connect_apply_config.  (A reply that is NULL without *)
(* an error, CMD_RECONNECT or an unknown type, does pass for success.)     *)
ConnectReportsFailure ==
  \A c \in Callers :
    pc[c] = "idle" /\ outcome[c].op = "connect" /\ outcome[c].status = "value"
      => mine[c] \notin unready

(* The only calls that may hand a freed struct to the native code are the  *)
(* functions of a SQLiteCloudVM, which keeps the pointer of a connection   *)
(* that was closed since; every other call is protected by the null check  *)
(* of getConnection (sqlitecloud.cpp) and by disconnect() clearing the     *)
(* field, whatever connects, disconnects and failures came before it.      *)
OnlyVMsDangle ==
  \A c \in Callers : pc[c] = "crashed" => op[c] \in VmOperations /\ heap[vm[c]] = "freed"

(* Every call that was started returns or throws (or, see OnlyVMsDangle,   *)
(* ends the process): with a receive timeout on a plain socket no silence  *)
(* of the server blocks it for ever.                                       *)
EveryCallReturns ==
  \A c \in Callers : pc[c] # "idle" ~> pc[c] \in {"idle", "crashed"}
=============================================================================
