----------------------- MODULE CloudConnectionProofs -----------------------
(***************************************************************************)
(* Proofs about CloudConnection.  Type correctness needs nothing.  The     *)
(* rest needs callers that take turns: first the life of the structs, from *)
(* connect() to the pointers that outlive them, then the pairing of        *)
(* replies with commands.  What makes the pairing work is the fence: a     *)
(* checked call can only start when the struct holds no error, and a       *)
(* socket that still owes a reply always has its struct marked with a      *)
(* network error.  The functions of SQLiteCloudVM are not checked; a       *)
(* struct on which one of them wrote over a network error is in `reused`,  *)
(* and the pairing is claimed for the others.                              *)
(***************************************************************************)
EXTENDS CloudConnection, TLAPS

(* Only one call is under way: the callers take turns, or there is one.    *)
OneAtATime == Serialized = TRUE \/ \A c, d \in Callers : c = d

-----------------------------------------------------------------------------
(* The struct a native call dereferences is null or one of the structs.    *)
LEMMA TargetType ==
  ASSUME TypeOK, NEW c \in Callers
  PROVE  Target(c) \in Handles \cup {NoHandle}
BY DEF TypeOK, Target

(* A live struct is one of the structs.                                    *)
LEMMA LiveIsHandle ==
  ASSUME NEW h \in Handles \cup {NoHandle}, Live(h)
  PROVE  h \in Handles
BY DEF Live

(* Error records and replies have the fields the code reads.               *)
LEMMA BridgeErrorType ==
  ASSUME TypeOK
  PROVE  /\ BridgeError \in Statuses
         /\ BridgeCause \in Nat
BY ConnectionAssumption DEF TypeOK, BridgeError, BridgeCause, IsError, Errors, Statuses

(* A finished call leaves a well-formed outcome.                           *)
LEMMA FinishType ==
  ASSUME TypeOK, NEW c \in Callers, NEW s \in Statuses, NEW n \in Nat,
         Finish(c, s) \/ Throw(c, s, n)
  PROVE  pc' \in [Callers -> Locations] /\ outcome' \in [Callers -> Outcomes]
<1>1. Api(op[c]) \in AllOperations
  BY DEF TypeOK, Phases, SetupPhases, Api, AllOperations
<1>2. /\ [op |-> Api(op[c]), status |-> s, asked |-> ticket[c], got |-> got[c]] \in Outcomes
      /\ [op |-> Api(op[c]), status |-> s, asked |-> ticket[c], got |-> n] \in Outcomes
  BY <1>1 DEF TypeOK, Outcomes
<1>3. PICK o \in Outcomes : outcome' = [outcome EXCEPT ![c] = o]
  BY <1>2 DEF Finish, Throw
<1>4. outcome' \in [Callers -> Outcomes]
  BY <1>3 DEF TypeOK
<1>5. pc' \in [Callers -> Locations]
  BY DEF TypeOK, Finish, Throw, Locations
<1> QED
  BY <1>4, <1>5

(* The steps of a call keep the types.                                     *)
LEMMA ContinueType ==
  ASSUME TypeOK, NEW c \in Callers, Continue(c)
  PROVE  TypeOK'
<1> USE DEF TypeOK, handleVars, callVars, commands, history
<1> DEFINE lost(n) == [kind |-> "network", cause |-> n]
<1>0. /\ 0 \in Nat /\ NoError \in Errors /\ \A n \in Nat : lost(n) \in Errors
      /\ {"value", "unhandled", "invalidUUID", "failed", "undefined"} \subseteq Statuses
  BY DEF Errors, NoError, Statuses
<1> HIDE DEF lost
<1>1. CASE Open(c)
  <2>1. PICK h \in Handles :
          /\ heap' = [heap EXCEPT ![h] = "live"]
          /\ mine' = [mine EXCEPT ![c] = h]
          /\ \/ /\ link' = [link EXCEPT ![h] = TRUE]
                /\ pc' = [pc EXCEPT ![c] = IF ConfigCommands THEN "send" ELSE "assign"]
                /\ UNCHANGED <<err, unready>>
             \/ /\ err' = [err EXCEPT ![h] = lost(0)]
                /\ pc' = [pc EXCEPT ![c] = "assign"]
                /\ unready' = unready \cup {h}
                /\ UNCHANGED link
    BY <1>1 DEF Open, lost
  <2>2. pc' \in [Callers -> Locations]
    BY <2>1 DEF Locations
  <2>3. err' \in [Handles -> Errors] /\ link' \in [Handles -> BOOLEAN]
    BY <2>1, <1>0
  <2> QED
    BY <1>1, <2>1, <2>2, <2>3 DEF Open
<1>2. CASE Assign(c)
  <2>1. pc' \in [Callers -> Locations] /\ outcome' \in [Callers -> Outcomes]
    BY <1>0, <1>2, FinishType DEF Assign, Locations
  <2>2. op' \in [Callers -> Phases]
    BY <1>2 DEF Assign, Phases, SetupPhases
  <2> QED
    BY <1>2, <2>1, <2>2 DEF Assign
<1>3. CASE Send(c)
  <2> DEFINE t == written + 1
  <2>1. Target(c) \in Handles
    BY <1>3, TargetType, LiveIsHandle DEF Send
  <2>2. t \in Nat /\ written' \in Nat /\ uuidAsked' \subseteq 1..written'
    <3>1. written' = written + 1 /\ uuidAsked' \subseteq uuidAsked \cup {written + 1}
      BY <1>3 DEF Send
    <3> QED
      BY <3>1
  <2> HIDE DEF t
  <2>3. lost(t) \in Errors
    BY <1>0, <2>2
  <2>4. err' \in [Handles -> Errors]
    BY <1>0, <1>3, <2>1, <2>3 DEF Send, lost, t
  <2>5. wire' \in [Handles -> Seq(Nat)]
    <3>1. /\ wire[Target(c)] \in Seq(Nat)
          /\ Append(wire[Target(c)], t) \in Seq(Nat)
      BY <2>1, <2>2
    <3> QED
      BY <1>3, <2>1, <3>1 DEF Send, t
  <2>6. ticket' \in [Callers -> Nat]
    BY <1>3, <2>2 DEF Send, t
  <2> QED
    <3>1. reused' \subseteq Handles /\ unready' \subseteq Handles
      BY <1>3, <2>1 DEF Send, SetupFailed
    <3> QED
      BY <1>3, <2>1, <2>2, <2>4, <2>5, <2>6, <3>1 DEF Send, Locations
<1>4. CASE CachedUuid(c)
  <2>1. Target(c) \in Handles
    BY <1>4, TargetType, LiveIsHandle DEF CachedUuid
  <2> QED
    BY <1>4, <2>1 DEF CachedUuid, Locations
<1>5. CASE Receive(c)
  <2> DEFINE h == mine[c]  r == Head(replies[h])
  <2>1. h \in Handles
    BY <1>5, LiveIsHandle DEF Receive
  <2>2. r \in Replies /\ Tail(replies[h]) \in Seq(Replies)
    BY <1>5, <2>1 DEF Receive
  <2>3. /\ r.ticket \in Nat
        /\ [kind |-> "sqlite", cause |-> r.ticket] \in Errors
        /\ [kind |-> "network", cause |-> r.ticket] \in Errors
    BY <2>2 DEF Replies, Errors
  <2>4. replies' \in [Handles -> Seq(Replies)]
    BY <1>5, <2>1, <2>2 DEF Receive
  <2>5. err' \in [Handles -> Errors] /\ got' \in [Callers -> Nat]
    <3>1. UNCHANGED err \/ \E e \in Errors : err' = [err EXCEPT ![h] = e]
      BY <1>5, <2>3 DEF Receive
    <3>2. UNCHANGED got \/ got' = [got EXCEPT ![c] = r.ticket]
      BY <1>5 DEF Receive
    <3> QED
      BY <2>1, <2>3, <3>1, <3>2
  <2>6. pc' \in [Callers -> Locations]
    BY <1>5 DEF Receive, Locations
  <2>7. unready' \subseteq Handles
    BY <1>5, <2>1 DEF Receive, SetupFailed
  <2> QED
    BY <1>5, <2>4, <2>5, <2>6, <2>7 DEF Receive
<1>6. CASE ReceiveFails(c)
  <2>1. lost(ticket[c]) \in Errors
    BY <1>0
  <2>2. err' \in [Handles -> Errors]
    BY <1>6, <2>1 DEF ReceiveFails, lost
  <2>3. unready' \subseteq Handles
    BY <1>6, LiveIsHandle DEF ReceiveFails, SetupFailed
  <2> QED
    BY <1>6, <2>2, <2>3 DEF ReceiveFails, Locations
<1>7. CASE ReturnExecute(c)
  <2>1. pc' \in [Callers -> Locations] /\ outcome' \in [Callers -> Outcomes]
    BY <1>0, <1>7, BridgeErrorType, FinishType DEF ReturnExecute
  <2> QED
    BY <1>7, <2>1 DEF ReturnExecute
<1>8. CASE ReturnUuid(c)
  <2>1. pc' \in [Callers -> Locations] /\ outcome' \in [Callers -> Outcomes]
    BY <1>0, <1>8, FinishType DEF ReturnUuid
  <2> QED
    BY <1>8, <2>1 DEF ReturnUuid
<1>9. CASE ReturnCompile(c)
  <2>1. pc' \in [Callers -> Locations] /\ outcome' \in [Callers -> Outcomes]
    BY <1>0, <1>9, FinishType DEF ReturnCompile
  <2> QED
    BY <1>9, <2>1 DEF ReturnCompile
<1>10. CASE ReturnStep(c)
  <2>1. got[c] = 0 => err[mine[c]] \in Errors
    BY <1>10, LiveIsHandle DEF ReturnStep
  <2>2. got[c] = 0 => /\ err[mine[c]].kind # "none" => err[mine[c]].kind \in Statuses
                      /\ err[mine[c]].cause \in Nat
    BY <2>1 DEF Errors, Statuses
  <2>3. pc' \in [Callers -> Locations] /\ outcome' \in [Callers -> Outcomes]
    BY <1>0, <1>10, <2>2, FinishType DEF ReturnStep
  <2> QED
    BY <1>10, <2>3 DEF ReturnStep
<1>11. CASE ReturnConfig(c)
  BY <1>11 DEF ReturnConfig, Locations
<1>12. CASE ReturnPubSubOnly(c)
  <2>1. pc' \in [Callers -> Locations] /\ outcome' \in [Callers -> Outcomes]
    BY <1>0, <1>12, FinishType DEF ReturnPubSubOnly, Locations
  <2> QED
    BY <1>12, <2>1 DEF ReturnPubSubOnly
<1>13. CASE Close(c)
  <2>1. /\ heap' \in [Handles -> {"unused", "live", "freed"}]
        /\ link' \in [Handles -> BOOLEAN]
        /\ err' = err /\ uuid' = uuid
    BY <1>13 DEF Close
  <2>2. <<>> \in Seq(Nat) /\ <<>> \in Seq(Replies)
    OBVIOUS
  <2>3. wire' \in [Handles -> Seq(Nat)]
    BY <1>13, <2>2 DEF Close
  <2>4. replies' \in [Handles -> Seq(Replies)]
    BY <1>13, <2>2 DEF Close
  <2> QED
    BY <1>13, <2>1, <2>3, <2>4 DEF Close, Locations
<1>14. CASE Clear(c)
  <2>1. pc' \in [Callers -> Locations] /\ outcome' \in [Callers -> Outcomes]
    BY <1>0, <1>14, FinishType DEF Clear
  <2> QED
    BY <1>14, <2>1 DEF Clear
<1>15. CASE Crash(c)
  BY <1>15 DEF Crash, Locations
<1>16. CASE ReturnBind(c)
  <2>1. pc' \in [Callers -> Locations] /\ outcome' \in [Callers -> Outcomes]
    BY <1>0, <1>16, FinishType DEF ReturnBind
  <2> QED
    BY <1>16, <2>1 DEF ReturnBind
<1>17. CASE ReturnFinalize(c)
  <2>1. pc' \in [Callers -> Locations] /\ outcome' \in [Callers -> Outcomes]
    BY <1>0, <1>17, FinishType DEF ReturnFinalize
  <2> QED
    BY <1>17, <2>1 DEF ReturnFinalize
<1> QED
  BY <1>1, <1>2, <1>3, <1>4, <1>5, <1>6, <1>7, <1>8, <1>9, <1>10, <1>11, <1>12, <1>13, <1>14, <1>15, <1>16, <1>17 DEF Continue

(* Starting a call, and the server's steps, keep the types.                *)
LEMMA BeginType ==
  ASSUME TypeOK, NEW c \in Callers, Begin(c)
  PROVE  TypeOK'
<1> USE DEF TypeOK, handleVars, callVars, commands, history
<1>1. CASE BeginConnect(c)
  BY <1>1 DEF BeginConnect, Locations, Phases, SetupPhases
<1>2. ASSUME NEW o \in AllOperations, BeginGated(c, o) PROVE TypeOK'
  BY <1>2 DEF BeginGated, Locations, Phases
<1>3. ASSUME NEW o \in AllOperations, BeginRefused(c, o) PROVE TypeOK'
  <2>1. o \in AllOperations \cup {"none"} /\ "invalid" \in Statuses
    BY DEF Statuses
  <2>2. [op |-> o, status |-> "invalid", asked |-> 0, got |-> 0] \in Outcomes
    BY <2>1 DEF Outcomes
  <2> QED
    BY <1>3, <2>2 DEF BeginRefused
<1>4. ASSUME NEW o \in VmOperations, BeginVM(c, o) PROVE TypeOK'
  BY <1>4 DEF BeginVM, Locations, Phases
<1>5. CASE ReleaseVM(c)
  <2>1. "finalize" \in AllOperations /\ "value" \in Statuses
    BY DEF AllOperations, VmOperations, Statuses
  <2>2. [op |-> "finalize", status |-> "value", asked |-> 0, got |-> 0] \in Outcomes
    BY <2>1 DEF Outcomes
  <2> QED
    BY <1>5, <2>2 DEF ReleaseVM
<1> QED
  BY <1>1, <1>2, <1>3, <1>4, <1>5 DEF Begin

LEMMA ServerType ==
  ASSUME TypeOK, NEW h \in Handles, ServerReply(h) \/ ServerDrop(h)
  PROVE  TypeOK'
<1> USE DEF TypeOK, handleVars, callVars, commands, history
<1>1. CASE ServerReply(h)
  <2>1. Head(wire[h]) \in Nat /\ Tail(wire[h]) \in Seq(Nat)
    BY <1>1 DEF ServerReply
  <2>2. PICK k \in ReplyKinds :
          replies' = [replies EXCEPT ![h] = Append(@, [ticket |-> Head(wire[h]), kind |-> k])]
    BY <1>1 DEF ServerReply
  <2>3. [ticket |-> Head(wire[h]), kind |-> k] \in Replies
    BY <2>1, ConnectionAssumption DEF Replies
  <2>4. replies' \in [Handles -> Seq(Replies)]
    <3>1. PICK r : r = [ticket |-> Head(wire[h]), kind |-> k]
      OBVIOUS
    <3>2. Append(replies[h], r) \in Seq(Replies)
      BY <2>3, <3>1
    <3> QED
      BY <2>2, <3>1, <3>2
  <2>5. wire' \in [Handles -> Seq(Nat)]
    BY <1>1, <2>1 DEF ServerReply
  <2>6. UNCHANGED <<connection, heap, err, link, uuid, commands, pc, op, callVars, outcome, history>>
    BY <1>1 DEF ServerReply
  <2> HIDE DEF Replies
  <2> QED
    BY <2>4, <2>5, <2>6
<1>2. CASE ServerDrop(h)
  BY <1>2 DEF ServerDrop
<1> QED
  BY <1>1, <1>2

(* The first state and every step are well typed.                          *)
LEMMA InitType == Init => TypeOK
BY DEF Init, TypeOK, Errors, NoError, Locations, Phases, GatedOperations, Outcomes, Statuses

LEMMA TypeStep ==
  ASSUME TypeOK, [Next]_vars
  PROVE  TypeOK'
<1>1. CASE UNCHANGED vars
  BY <1>1 DEF TypeOK, vars, handleVars, callVars, commands, history
<1>2. CASE Next
  BY <1>2, BeginType, ContinueType, ServerType DEF Next
<1> QED
  BY <1>1, <1>2

(* The state of SQLiteCloudBridge, of every SQCloudConnection struct and of*)
(* every call keeps its type, whatever the callers and the server do.      *)
THEOREM TypeCorrect == Spec => []TypeOK
<1>1. TypeOK /\ [Next]_vars => TypeOK'
  BY TypeStep
<1> QED
  BY <1>1, InitType, PTL DEF Spec
-----------------------------------------------------------------------------
(* The life of the structs, the functions of VMs included.                 *)

OneCall == \A c, d \in Callers : pc[c] # "idle" /\ pc[d] # "idle" => c = d

(* The field of the bridge points to a live struct, except between the two *)
(* steps of a disconnect.                                                  *)
FieldIsLive ==
  connection # NoHandle /\ heap[connection] # "live" => \E c \in Callers : pc[c] = "clear"

(* A SQLiteCloudVM points to a struct that was allocated once.             *)
Built == \A c \in Callers : vm[c] # NoHandle => heap[vm[c]] # "unused"

(* Where a caller is tells which struct it holds and whether it is live.   *)
Place(c) ==
  /\ pc[c] \in {"open", "assign"} => op[c] = "config"
  /\ pc[c] \in {"assign", "recv", "return"} => Live(mine[c])
  /\ pc[c] \in {"send", "recv", "return"} => op[c] # "disconnect"
  /\ pc[c] \in {"recv", "return"} /\ op[c] \notin VmOperations \cup {"config"} => mine[c] = connection
  /\ pc[c] = "send" /\ op[c] \notin VmOperations => Live(Target(c))
  /\ pc[c] = "send" /\ op[c] = "pubsubOnly" => mine[c] = connection
  /\ pc[c] \in {"send", "recv", "crashed"} /\ op[c] \in VmOperations => vm[c] \in Handles
  /\ pc[c] \in {"close", "clear"} => op[c] \in SetupPhases \cup {"disconnect"}
  /\ pc[c] \in {"close", "clear"} /\ op[c] \in SetupPhases
       => mine[c] = connection /\ connection # NoHandle
  /\ pc[c] = "clear" /\ connection # NoHandle => heap[connection] = "freed"
  /\ pc[c] = "crashed" => op[c] \in VmOperations /\ heap[vm[c]] = "freed"

SInv ==
  /\ TypeOK
  /\ OneCall
  /\ FieldIsLive
  /\ Built
  /\ \A c \in Callers : Place(c)

LEMMA InsideAlone ==
  ASSUME SInv, NEW c \in Callers, pc[c] # "idle"
  PROVE  \A d \in Callers : d # c => pc[d] = "idle"
BY DEF SInv, OneCall

LEMMA PlacesAlone ==
  ASSUME NEW c \in Callers, \A d \in Callers : d # c => pc'[d] = "idle", Place(c)'
  PROVE  OneCall' /\ \A d \in Callers : Place(d)'
<1>1. \A d \in Callers : d # c => Place(d)'
  BY DEF Place
<1> QED
  BY <1>1 DEF OneCall

LEMMA FieldAlone ==
  ASSUME SInv, NEW c \in Callers, pc[c] \notin {"idle", "clear"}, connection # NoHandle
  PROVE  connection \in Handles /\ Live(connection)
BY InsideAlone DEF SInv, FieldIsLive, TypeOK, Live

(* A step of a call moves its own caller only.                             *)
LEMMA OneMoves ==
  ASSUME TypeOK, NEW c \in Callers, Continue(c)
  PROVE  \A d \in Callers : d # c => pc'[d] = pc[d]
BY DEF Continue, Open, Assign, Send, CachedUuid, Receive, ReceiveFails, ReturnExecute, ReturnUuid,
   ReturnCompile, ReturnStep, ReturnBind, ReturnFinalize, ReturnConfig, ReturnPubSubOnly, Close, Clear, Crash, Finish, Throw, TypeOK

(* A call that starts finds everybody idle.                                *)
LEMMA StartsAlone ==
  ASSUME OneAtATime, NEW c \in Callers, Begin(c)
  PROVE  \A d \in Callers : pc[d] = "idle"
BY DEF OneAtATime, Begin, BeginConnect, BeginGated, BeginRefused, BeginVM, ReleaseVM, MayBegin

LEMMA BeginSInv ==
  ASSUME SInv, OneAtATime, NEW c \in Callers, Begin(c)
  PROVE  SInv'
<1> USE DEF handleVars, callVars, commands, history
<1>0. TypeOK /\ TypeOK'
  BY BeginType DEF SInv
<1>1. \A d \in Callers : pc[d] = "idle"
  BY StartsAlone
<1>2. /\ UNCHANGED <<connection, heap, err, wire, replies, mine>>
      /\ \A d \in Callers : vm'[d] \in {vm[d], NoHandle}
  BY <1>0 DEF Begin, BeginConnect, BeginGated, BeginRefused, BeginVM, ReleaseVM, TypeOK
<1>3. \A d \in Callers : d # c => pc'[d] = "idle"
  BY <1>0, <1>1 DEF Begin, BeginConnect, BeginGated, BeginRefused, BeginVM, ReleaseVM, TypeOK
<1>4. connection # NoHandle => connection \in Handles /\ Live(connection)
  BY <1>1 DEF SInv, FieldIsLive, TypeOK, Live
<1>5. FieldIsLive' /\ Built'
  BY <1>2, <1>4 DEF SInv, FieldIsLive, Built, Live
<1>6. Place(c)'
  <2>1. CASE BeginConnect(c)
    BY <1>0, <2>1 DEF BeginConnect, Place, TypeOK
  <2>2. ASSUME NEW o \in AllOperations, BeginGated(c, o) PROVE Place(c)'
    <3>1. connection \in Handles /\ Live(connection)
      BY <1>4, <2>2 DEF BeginGated, IsConnected
    <3>2. /\ pc'[c] = IF o = "disconnect" THEN "close" ELSE "send"
          /\ op'[c] = o /\ o \in {"disconnect", "execute", "uuid", "compile"}
      BY <1>0, <2>2 DEF BeginGated, GatedOperations, TypeOK
    <3>3. Live(Target(c))'
      BY <1>2, <3>1, <3>2 DEF Target, Live, VmOperations
    <3> QED
      BY <3>2, <3>3 DEF Place, VmOperations, SetupPhases
  <2>3. ASSUME NEW o \in AllOperations, BeginRefused(c, o) PROVE Place(c)'
    BY <1>1, <2>3 DEF BeginRefused, Place
  <2>4. ASSUME NEW o \in VmOperations, BeginVM(c, o) PROVE Place(c)'
    <3>1. pc'[c] = "send" /\ op'[c] = o /\ vm'[c] \in Handles
      BY <1>0, <2>4 DEF BeginVM, TypeOK
    <3> QED
      BY <3>1 DEF Place, VmOperations
  <2>5. CASE ReleaseVM(c)
    BY <1>1, <2>5 DEF ReleaseVM, Place
  <2> QED
    BY <2>1, <2>2, <2>3, <2>4, <2>5 DEF Begin
<1> QED
  BY <1>0, <1>3, <1>5, <1>6, PlacesAlone DEF SInv

LEMMA ConnectSInv ==
  ASSUME SInv, NEW c \in Callers, Open(c) \/ Assign(c)
  PROVE  SInv'
<1> USE DEF handleVars, callVars, commands, history
<1>0. TypeOK /\ TypeOK'
  BY ContinueType DEF SInv, Continue
<1>1. pc[c] \in {"open", "assign"} /\ op[c] = "config" /\ Place(c)
  BY DEF Open, Assign, SInv, Place
<1>2. \A d \in Callers : d # c => pc'[d] = "idle"
  BY <1>0, <1>1, InsideAlone, OneMoves DEF Continue
<1>3. connection # NoHandle => connection \in Handles /\ Live(connection)
  BY <1>1, FieldAlone
<1> SUFFICES FieldIsLive' /\ Built' /\ Place(c)'
  BY <1>0, <1>2, PlacesAlone DEF SInv
<1>5. CASE Open(c)
  <2>1. PICK h \in Handles :
          /\ heap[h] = "unused"
          /\ heap' = [heap EXCEPT ![h] = "live"]
          /\ mine' = [mine EXCEPT ![c] = h]
          /\ pc'[c] \in {"send", "assign"}
    BY <1>5, <1>0 DEF Open, TypeOK
  <2>2. UNCHANGED <<connection, op, vm>>
    BY <1>5 DEF Open
  <2>3. FieldIsLive' /\ Built'
    BY <1>0, <1>3, <2>1, <2>2 DEF SInv, FieldIsLive, Built, Live, TypeOK
  <2>4. Place(c)'
    BY <1>0, <1>1, <2>1, <2>2, ConnectionAssumption DEF Place, Live, Target, VmOperations, TypeOK
  <2> QED
    BY <2>3, <2>4
<1>6. CASE Assign(c)
  <2>1. mine[c] \in Handles /\ Live(mine[c])
    BY <1>0, <1>1, <1>6, LiveIsHandle DEF Assign, Place, TypeOK
  <2>2. UNCHANGED <<heap, mine, vm>> /\ connection' = mine[c]
    BY <1>6 DEF Assign
  <2>3. /\ pc'[c] \in {"close", "send", "idle"}
        /\ pc'[c] = "close" => op'[c] = "config"
        /\ pc'[c] = "send" => op'[c] = "pubsubOnly"
    BY <1>0, <1>1, <1>6 DEF Assign, Finish, TypeOK
  <2>4. FieldIsLive' /\ Built'
    BY <2>1, <2>2 DEF SInv, FieldIsLive, Built, Live
  <2>5. Place(c)'
    BY <2>1, <2>2, <2>3 DEF Place, Live, Target, SetupPhases, VmOperations
  <2> QED
    BY <2>4, <2>5
<1> QED
  BY <1>5, <1>6

LEMMA TransferSInv ==
  ASSUME SInv, NEW c \in Callers,
         Send(c) \/ CachedUuid(c) \/ Receive(c) \/ ReceiveFails(c)
  PROVE  SInv'
<1> USE DEF handleVars, callVars, commands, history
<1>0. TypeOK /\ TypeOK'
  BY ContinueType DEF SInv, Continue
<1>1. pc[c] \in {"send", "recv"} /\ Place(c)
  BY DEF Send, CachedUuid, Receive, ReceiveFails, SInv
<1>2. \A d \in Callers : d # c => pc'[d] = "idle"
  BY <1>0, <1>1, InsideAlone, OneMoves DEF Continue
<1>3. UNCHANGED <<connection, heap, op, vm>>
  BY DEF Send, CachedUuid, Receive, ReceiveFails
<1>4. FieldIsLive' /\ Built'
  BY <1>1, <1>3, FieldAlone DEF SInv, FieldIsLive, Built, Live
<1> SUFFICES Place(c)'
  BY <1>0, <1>2, <1>4, PlacesAlone DEF SInv
<1>5. CASE Send(c) \/ CachedUuid(c)
  <2>1. PICK h \in Handles : h = Target(c) /\ Live(h)
    BY <1>0, <1>5, TargetType, LiveIsHandle DEF Send, CachedUuid
  <2>2. pc[c] = "send" /\ pc'[c] \in {"recv", "return"} /\ mine'[c] = h
    BY <1>0, <1>5, <2>1 DEF Send, CachedUuid, TypeOK
  <2>3. op[c] \notin VmOperations \cup {"config"} => h = connection
    BY <2>1 DEF Target
  <2>4. Place(c)'
    BY <1>1, <1>3, <2>1, <2>2, <2>3 DEF Place, Live
  <2> QED
    BY <2>4
<1>6. CASE Receive(c)
  <2>1. PICK h \in Handles : h = mine[c] /\ Live(h)
    BY <1>0, <1>6, LiveIsHandle DEF Receive, TypeOK
  <2>2. /\ pc[c] = "recv" /\ pc'[c] \in {"send", "return"} /\ UNCHANGED mine
    BY <1>0, <1>6, <2>1 DEF Receive, TypeOK
  <2>3. op[c] \notin VmOperations => Target(c)' = h
    BY <1>1, <1>3, <2>1, <2>2 DEF Place, Target
  <2>4. op[c] \in VmOperations => vm[c] \in Handles
    BY <1>1, <2>2 DEF Place
  <2>5. Place(c)'
    BY <1>1, <1>3, <2>1, <2>2, <2>3, <2>4 DEF Place, Live, VmOperations
  <2> QED
    BY <2>5
<1>7. CASE ReceiveFails(c)
  BY <1>0, <1>1, <1>3, <1>7 DEF ReceiveFails, SInv, Place, Live, TypeOK
<1> QED
  BY <1>5, <1>6, <1>7

LEMMA ReturnSInv ==
  ASSUME SInv, NEW c \in Callers,
         \/ ReturnExecute(c) \/ ReturnUuid(c) \/ ReturnCompile(c) \/ ReturnStep(c)
         \/ ReturnBind(c) \/ ReturnFinalize(c) \/ ReturnConfig(c) \/ ReturnPubSubOnly(c)
  PROVE  SInv'
<1> USE DEF handleVars, callVars, commands, history
<1>0. TypeOK /\ TypeOK'
  BY ContinueType DEF SInv, Continue
<1>1. pc[c] = "return" /\ Place(c) /\ Live(mine[c])
  BY DEF ReturnExecute, ReturnUuid, ReturnCompile, ReturnStep, ReturnBind, ReturnFinalize, ReturnConfig, ReturnPubSubOnly, SInv, Place
<1>2. \A d \in Callers : d # c => pc'[d] = "idle"
  BY <1>0, <1>1, InsideAlone, OneMoves DEF Continue
<1>3. UNCHANGED <<connection, heap, wire, replies, op, mine>>
  BY DEF ReturnExecute, ReturnUuid, ReturnCompile, ReturnStep, ReturnBind, ReturnFinalize, ReturnConfig, ReturnPubSubOnly
<1>4. UNCHANGED vm \/ vm' = [vm EXCEPT ![c] = mine[c]] \/ vm' = [vm EXCEPT ![c] = NoHandle]
  BY DEF ReturnExecute, ReturnUuid, ReturnCompile, ReturnStep, ReturnBind, ReturnFinalize, ReturnConfig, ReturnPubSubOnly
<1>5. FieldIsLive'
  BY <1>1, <1>3, FieldAlone DEF SInv, FieldIsLive, Live
<1>6. Built'
  BY <1>0, <1>1, <1>3, <1>4 DEF SInv, Built, Live, TypeOK
<1>7. /\ pc'[c] \in {"idle", "assign", "close"}
      /\ pc'[c] = "assign" => op[c] = "config"
      /\ pc'[c] = "close" => op[c] = "pubsubOnly"
  BY <1>0 DEF ReturnExecute, ReturnUuid, ReturnCompile, ReturnStep, ReturnBind, ReturnFinalize, ReturnConfig, ReturnPubSubOnly,
     Finish, Throw, TypeOK
<1>8. Place(c)'
  BY <1>1, <1>3, <1>7 DEF Place, Live, SetupPhases, VmOperations
<1> QED
  BY <1>0, <1>2, <1>5, <1>6, <1>8, PlacesAlone DEF SInv

LEMMA CloseSInv ==
  ASSUME SInv, NEW c \in Callers, Close(c) \/ Clear(c) \/ Crash(c)
  PROVE  SInv'
<1> USE DEF handleVars, callVars, commands, history
<1>0. TypeOK /\ TypeOK'
  BY ContinueType DEF SInv, Continue
<1>1. pc[c] # "idle" /\ Place(c)
  BY DEF Close, Clear, Crash, Dangling, SInv
<1>2. \A d \in Callers : d # c => pc'[d] = "idle"
  BY <1>0, <1>1, InsideAlone, OneMoves DEF Continue
<1>3. UNCHANGED <<op, mine, vm>>
  BY DEF Close, Clear, Crash
<1> SUFFICES FieldIsLive' /\ Built' /\ Place(c)'
  BY <1>0, <1>2, PlacesAlone DEF SInv
<1>4. CASE Close(c)
  <2>1. pc[c] = "close" /\ pc'[c] = "clear" /\ UNCHANGED connection
    BY <1>0, <1>4 DEF Close, TypeOK
  <2>2. \A h \in Handles : heap'[h] = IF h = connection THEN "freed" ELSE heap[h]
    BY <1>4 DEF Close
  <2>4. FieldIsLive' /\ Built'
    BY <1>0, <1>3, <2>1, <2>2 DEF SInv, FieldIsLive, Built, TypeOK
  <2>5. Place(c)'
    BY <1>0, <1>1, <1>3, <2>1, <2>2 DEF Place, TypeOK
  <2> QED
    BY <2>4, <2>5
<1>5. CASE Clear(c)
  BY <1>0, <1>3, <1>5 DEF Clear, Finish, SInv, FieldIsLive, Built, Place, TypeOK
<1>6. CASE Crash(c)
  <2>1. UNCHANGED <<connection, heap, wire, replies>> /\ pc'[c] = "crashed" /\ Dangling(c)
    BY <1>0, <1>6 DEF Crash, TypeOK
  <2>2. pc[c] # "clear"
    BY <2>1 DEF Dangling
  <2>3. connection # NoHandle => connection \in Handles /\ Live(connection)
    BY <1>1, <2>2, FieldAlone
  <2>4. FieldIsLive' /\ Built'
    BY <1>3, <2>1, <2>3 DEF SInv, FieldIsLive, Built, Live
  <2>5. pc[c] = "send" /\ op[c] \in VmOperations /\ ~Live(vm[c])
    <3>1. pc[c] = "send" /\ ~Live(Target(c))
      BY <1>1, <2>1, <2>3 DEF Dangling, Place
    <3>2. op[c] \in VmOperations
      BY <1>1, <3>1 DEF Place
    <3> QED
      BY <3>1, <3>2 DEF Target, VmOperations
  <2>6. vm[c] \in Handles /\ heap[vm[c]] = "freed"
    BY <1>0, <1>1, <2>5, ConnectionAssumption DEF Place, SInv, Built, Live, TypeOK
  <2>7. Place(c)'
    BY <1>3, <2>1, <2>5, <2>6 DEF Place
  <2> QED
    BY <2>4, <2>7
<1> QED
  BY <1>4, <1>5, <1>6

LEMMA ServerSInv ==
  ASSUME SInv, NEW h \in Handles, ServerReply(h) \/ ServerDrop(h)
  PROVE  SInv'
<1>0. TypeOK'
  BY ServerType DEF SInv
<1>1. UNCHANGED <<connection, heap, pc, op, mine, vm>>
  BY DEF ServerReply, ServerDrop, callVars
<1>2. OneCall' /\ FieldIsLive' /\ Built' /\ \A c \in Callers : Place(c)'
  BY <1>1 DEF SInv, OneCall, FieldIsLive, Built, Place, Live, Target
<1> QED
  BY <1>0, <1>2 DEF SInv

LEMMA StructsInit == Init => SInv
<1> SUFFICES ASSUME Init PROVE SInv
  OBVIOUS
<1>1. TypeOK
  BY InitType
<1>2. OneCall /\ FieldIsLive /\ Built /\ \A c \in Callers : Place(c)
  BY DEF Init, OneCall, FieldIsLive, Built, Place, VmOperations
<1> QED
  BY <1>1, <1>2 DEF SInv

LEMMA StructsStep ==
  ASSUME SInv, OneAtATime, [Next]_vars
  PROVE  SInv'
<1>1. CASE UNCHANGED vars
  <2>1. TypeOK'
    BY TypeStep DEF SInv
  <2>2. OneCall' /\ FieldIsLive' /\ Built' /\ \A c \in Callers : Place(c)'
    BY <1>1 DEF vars, handleVars, callVars, commands, history, SInv, OneCall, FieldIsLive, Built, Place, Live, Target
  <2> QED
    BY <2>1, <2>2 DEF SInv
<1>2. ASSUME NEW c \in Callers, Begin(c) PROVE SInv'
  BY <1>2, BeginSInv
<1>3. ASSUME NEW c \in Callers, Continue(c) PROVE SInv'
  BY <1>3, ConnectSInv, TransferSInv, ReturnSInv, CloseSInv DEF Continue
<1>4. ASSUME NEW h \in Handles, ServerReply(h) \/ ServerDrop(h) PROVE SInv'
  BY <1>4, ServerSInv
<1> QED
  BY <1>1, <1>2, <1>3, <1>4 DEF Next

LEMMA StructsInductive == OneAtATime => (Spec => []SInv)
<1> SUFFICES ASSUME OneAtATime PROVE Spec => []SInv
  OBVIOUS
<1>1. SInv /\ [Next]_vars => SInv'
  BY StructsStep
<1> QED
  BY <1>1, StructsInit, PTL DEF Spec

(* For callers that take turns, the only native calls that get a freed     *)
(* SQCloudConnection are those of SQLiteCloudVM: disconnect() clears the   *)
(* field of the bridge, but not the pointer a VM keeps.                    *)
THEOREM VMsDangle == OneAtATime => (Spec => []OnlyVMsDangle)
<1>1. SInv => OnlyVMsDangle
  BY DEF SInv, Place, OnlyVMsDangle
<1> QED
  BY <1>1, StructsInductive, PTL

-----------------------------------------------------------------------------
(* connect() that throws.                                                  *)

(* A struct that was freed stays freed, and the field never returns to it: *)
(* it is only ever set to a struct just allocated.                         *)
LEMMA FreedStaysFreed ==
  ASSUME SInv, [Next]_vars, NEW h \in Handles, heap[h] = "freed", connection # h
  PROVE  heap'[h] = "freed" /\ connection' # h
<1> USE DEF handleVars, callVars, commands, history
<1>0. TypeOK
  BY DEF SInv
<1>1. ASSUME NEW c \in Callers, Open(c) PROVE heap'[h] = "freed" /\ connection' # h
  BY <1>0, <1>1 DEF Open, TypeOK
<1>2. ASSUME NEW c \in Callers, Assign(c) PROVE heap'[h] = "freed" /\ connection' # h
  BY <1>2 DEF Assign, SInv, Place, Live
<1>3. ASSUME NEW c \in Callers, Close(c) \/ Clear(c) PROVE heap'[h] = "freed" /\ connection' # h
  BY <1>0, <1>3, ConnectionAssumption DEF Close, Clear, TypeOK
<1>4. ASSUME NEW c \in Callers, Continue(c), ~Open(c), ~Assign(c), ~Close(c), ~Clear(c)
      PROVE  UNCHANGED <<heap, connection>>
  BY <1>4 DEF Continue, Send, CachedUuid, Receive, ReceiveFails, ReturnExecute, ReturnUuid, ReturnCompile,
     ReturnStep, ReturnBind, ReturnFinalize, ReturnConfig, ReturnPubSubOnly, Crash
<1>5. ASSUME NEW c \in Callers, Begin(c) PROVE UNCHANGED <<heap, connection>>
  BY <1>5 DEF Begin, BeginConnect, BeginGated, BeginRefused, BeginVM, ReleaseVM
<1>6. ASSUME NEW g \in Handles, ServerReply(g) \/ ServerDrop(g) PROVE UNCHANGED <<heap, connection>>
  BY <1>6 DEF ServerReply, ServerDrop
<1>7. CASE UNCHANGED vars
  BY <1>7 DEF vars
<1> QED
  BY <1>1, <1>2, <1>3, <1>4, <1>5, <1>6, <1>7 DEF Next

LEMMA FailedConnectStep ==
  ASSUME SInv, FailedConnectLeavesNothing, [Next]_vars
  PROVE  FailedConnectLeavesNothing'
<1> USE DEF handleVars, callVars, commands, history
<1>0. TypeOK
  BY DEF SInv
<1> SUFFICES ASSUME NEW c \in Callers, NEW h \in Handles, h = mine'[c], pc'[c] = "idle",
                    outcome'[c].op = "connect", outcome'[c].status # "value"
             PROVE  heap'[h] = "freed" /\ connection' # h
  BY DEF FailedConnectLeavesNothing
<1>1. CASE pc[c] = "idle" /\ outcome'[c] = outcome[c] /\ mine'[c] = mine[c]
  BY <1>1, FreedStaysFreed DEF FailedConnectLeavesNothing
<1>2. ASSUME NEW d \in Callers, Begin(d)
      PROVE  heap'[h] = "freed" /\ connection' # h
  <2>1. UNCHANGED mine /\ (pc'[c] = "idle" => pc[c] = "idle")
    BY <1>0, <1>2 DEF Begin, BeginConnect, BeginGated, BeginRefused, BeginVM, ReleaseVM, MayBegin, TypeOK
  <2>2. UNCHANGED outcome \/ ReleaseVM(d) \/ \E o \in AllOperations : BeginRefused(d, o)
    BY <1>2 DEF Begin, BeginConnect, BeginGated, BeginVM
  <2>3. ASSUME NEW o \in AllOperations, BeginRefused(d, o)
        PROVE  outcome'[c] = outcome[c] \/ outcome'[c].op # "connect"
    BY <1>0, <2>3 DEF BeginRefused, GatedOperations, TypeOK
  <2>4. ASSUME ReleaseVM(d)
        PROVE  outcome'[c] = outcome[c] \/ outcome'[c].op # "connect"
    BY <1>0, <2>4 DEF ReleaseVM, TypeOK
  <2> QED
    BY <1>1, <2>1, <2>2, <2>3, <2>4
<1>3. ASSUME NEW d \in Callers, Continue(d)
      PROVE  heap'[h] = "freed" /\ connection' # h
  <2>1. CASE d # c
    <3>1. pc'[c] = pc[c] /\ outcome'[c] = outcome[c] /\ mine'[c] = mine[c]
      BY <1>0, <1>3, <2>1 DEF Continue, Open, Assign, Send, CachedUuid, Receive, ReceiveFails, ReturnExecute,
         ReturnUuid, ReturnCompile, ReturnStep, ReturnBind, ReturnFinalize, ReturnConfig, ReturnPubSubOnly, Close, Clear, Crash,
         Finish, Throw, TypeOK
    <3> QED
      BY <1>1, <3>1
  <2>2. CASE Clear(c)
    <3>1. pc[c] = "clear" /\ Place(c) /\ UNCHANGED <<heap, mine>> /\ connection' = NoHandle
      BY <2>2 DEF Clear, SInv
    <3>2. outcome'[c].op = Api(op[c])
      BY <1>0, <2>2 DEF Clear, Finish, TypeOK
    <3>3. op[c] \in SetupPhases
      BY <3>1, <3>2 DEF Place, SetupPhases, Api
    <3> QED
      BY <3>1, <3>3, ConnectionAssumption DEF Place
  <2>3. ASSUME d = c, ~Clear(c) PROVE FALSE
    <3>1. \/ ReturnExecute(c) \/ ReturnUuid(c) \/ ReturnCompile(c) \/ ReturnStep(c)
          \/ ReturnBind(c) \/ ReturnFinalize(c) \/ ReturnPubSubOnly(c) \/ Assign(c)
      BY <1>0, <1>3, <2>3, ConnectionAssumption DEF Continue, Open, Send, CachedUuid, Receive, ReceiveFails, ReturnConfig,
         Close, Crash, TypeOK
    <3>2. CASE ReturnPubSubOnly(c) \/ Assign(c)
      <4>1. Finish(c, "value")
        BY <1>0, <3>2 DEF ReturnPubSubOnly, Assign, TypeOK
      <4> QED
        BY <1>0, <4>1 DEF Finish, TypeOK
    <3>3. CASE \/ ReturnExecute(c) \/ ReturnUuid(c) \/ ReturnCompile(c) \/ ReturnStep(c)
               \/ ReturnBind(c) \/ ReturnFinalize(c)
      <4>1. /\ op[c] \in {"execute", "uuid", "compile", "step", "bind", "parameter", "finalize"}
            /\ outcome'[c].op = Api(op[c])
        BY <1>0, <3>3
        DEF ReturnExecute, ReturnUuid, ReturnCompile, ReturnStep, ReturnBind, ReturnFinalize, Finish, Throw, TypeOK
      <4> QED
        BY <4>1 DEF Api, SetupPhases
    <3> QED
      BY <3>1, <3>2, <3>3
  <2> QED
    BY <2>1, <2>2, <2>3
<1>4. CASE UNCHANGED vars
  BY <1>1, <1>4 DEF vars
<1>5. ASSUME NEW g \in Handles, ServerReply(g) \/ ServerDrop(g)
      PROVE  heap'[h] = "freed" /\ connection' # h
  BY <1>1, <1>5 DEF ServerReply, ServerDrop
<1> QED
  BY <1>2, <1>3, <1>4, <1>5 DEF Next

(* For callers that take turns, a connect() that throws has freed the      *)
(* struct that SQCloudConnect made, and the bridge does not point to it,   *)
(* whichever of the configuration commands or PUBSUB ONLY failed.          *)
THEOREM FailedConnectsLeaveNothing == OneAtATime => (Spec => []FailedConnectLeavesNothing)
<1> SUFFICES ASSUME OneAtATime PROVE Spec => []FailedConnectLeavesNothing
  OBVIOUS
<1>1. Init => FailedConnectLeavesNothing
  BY DEF Init, NoOutcome, FailedConnectLeavesNothing
<1>2. SInv /\ FailedConnectLeavesNothing /\ [Next]_vars => FailedConnectLeavesNothing'
  BY FailedConnectStep
<1> QED
  BY <1>1, <1>2, StructsInductive, PTL DEF Spec
-----------------------------------------------------------------------------
(* Replies and the commands they answer.                                   *)

(* Nothing is owed on the socket of h.                                     *)
Quiet(h) == wire[h] = <<>> /\ replies[h] = <<>>

(* The only thing owed on the socket of h is the answer to command t.      *)
OwesOnly(h, t) ==
  \/ Quiet(h)
  \/ wire[h] = <<t>> /\ replies[h] = <<>>
  \/ wire[h] = <<>> /\ \E k \in AllReplyKinds : replies[h] = <<[ticket |-> t, kind |-> k]>>

DeadIsQuiet == \A h \in Handles : heap[h] # "live" => Quiet(h)

(* The fence, wherever no VM has written over it.                          *)
Fence ==
  \A h \in Handles \ reused :
    \/ Quiet(h)
    \/ err[h].kind = "network"
    \/ \E c \in Callers : pc[c] = "recv" /\ mine[c] = h

(* Where a caller is tells what is owed to it, and what it has read.       *)
Pairing(c) ==
  /\ pc[c] = "send" /\ op[c] \notin VmOperations /\ Target(c) \notin reused => Quiet(Target(c))
  /\ pc[c] = "recv" => got[c] = 0
  /\ pc[c] = "recv" /\ mine[c] \notin reused
       => OwesOnly(mine[c], ticket[c]) /\ err[mine[c]].kind = "none"
  /\ pc[c] = "return" /\ mine[c] \notin reused /\ op[c] # "uuid" /\ got[c] # 0
       => got[c] = ticket[c]
  /\ pc[c] = "return" /\ mine[c] \notin reused /\ got[c] = 0 /\ err[mine[c]].kind # "none"
       => err[mine[c]].cause = ticket[c]

PInv ==
  /\ DeadIsQuiet
  /\ Fence
  /\ \A c \in Callers : Pairing(c)
  /\ AnswerMatchesCommand
  /\ ErrorIsOwn

(* One-element sequences: the socket of a struct never holds more.         *)
LEMMA Singleton ==
  ASSUME NEW x
  PROVE  /\ Append(<<>>, x) = <<x>>
         /\ Head(<<x>>) = x /\ Tail(<<x>>) = <<>> /\ <<x>> # <<>>
OBVIOUS

(* Whoever is not in a call has no part in the pairing.                    *)
LEMMA PairedAlone ==
  ASSUME NEW c \in Callers, \A d \in Callers : d # c => pc'[d] = "idle", Pairing(c)'
  PROVE  \A d \in Callers : Pairing(d)'
BY DEF Pairing

(* A step of a call leaves what the others hold and returned.              *)
LEMMA OthersStay ==
  ASSUME TypeOK, NEW c \in Callers, Continue(c)
  PROVE  \A d \in Callers : d # c =>
           /\ pc'[d] = pc[d] /\ op'[d] = op[d] /\ mine'[d] = mine[d]
           /\ ticket'[d] = ticket[d] /\ got'[d] = got[d] /\ outcome'[d] = outcome[d]
<1>1. CASE Open(c) \/ Assign(c) \/ Close(c) \/ Clear(c) \/ Crash(c)
  BY <1>1 DEF Open, Assign, Close, Clear, Crash, callVars, Finish, TypeOK
<1>2. CASE Send(c) \/ CachedUuid(c) \/ Receive(c) \/ ReceiveFails(c)
  BY <1>2 DEF Send, CachedUuid, Receive, ReceiveFails, callVars, TypeOK
<1>3. CASE \/ ReturnExecute(c) \/ ReturnUuid(c) \/ ReturnCompile(c) \/ ReturnStep(c)
           \/ ReturnBind(c) \/ ReturnFinalize(c) \/ ReturnConfig(c) \/ ReturnPubSubOnly(c)
  BY <1>3 DEF ReturnExecute, ReturnUuid, ReturnCompile, ReturnStep, ReturnBind, ReturnFinalize,
     ReturnConfig, ReturnPubSubOnly, callVars, Finish, Throw, TypeOK
<1> QED
  BY <1>1, <1>2, <1>3 DEF Continue

(* Nothing but Send adds to the structs that were reused.                  *)
LEMMA ReusedStays ==
  ASSUME TypeOK, NEW c \in Callers, Continue(c)
  PROVE  reused \subseteq reused' /\ (~Send(c) => UNCHANGED reused)
BY DEF Continue, Open, Assign, Send, CachedUuid, Receive, ReceiveFails, ReturnExecute, ReturnUuid, ReturnCompile,
   ReturnStep, ReturnBind, ReturnFinalize, ReturnConfig, ReturnPubSubOnly, Close, Clear, Crash, history

(* What the others returned stays true; c must see to its own result.      *)
LEMMA ResultsAlone ==
  ASSUME AnswerMatchesCommand, ErrorIsOwn, NEW c \in Callers, reused \subseteq reused',
         \A d \in Callers : d # c => /\ pc'[d] = pc[d] /\ mine'[d] = mine[d]
                                     /\ outcome'[d] = outcome[d],
         pc'[c] = "idle" /\ mine'[c] \notin reused' =>
           /\ outcome'[c].status = "value" /\ outcome'[c].op \in {"execute", "compile"} \cup VmOperations
                => outcome'[c].got = outcome'[c].asked
           /\ outcome'[c].status \in {"sqlite", "network"} => outcome'[c].got = outcome'[c].asked
  PROVE  AnswerMatchesCommand' /\ ErrorIsOwn'
BY DEF AnswerMatchesCommand, ErrorIsOwn

(* Before a call starts nothing is being read: no struct without an error  *)
(* owes a reply, except those a VM has reused.                             *)
LEMMA BeginPInv ==
  ASSUME SInv, PInv, OneAtATime, NEW c \in Callers, Begin(c)
  PROVE  PInv'
<1> USE DEF handleVars, callVars, commands, history
<1>0. TypeOK
  BY DEF SInv
<1>1. \A d \in Callers : pc[d] = "idle"
  BY StartsAlone
<1>2. UNCHANGED <<connection, heap, err, wire, replies, mine, reused>>
  BY DEF Begin, BeginConnect, BeginGated, BeginRefused, BeginVM, ReleaseVM
<1>3. \A d \in Callers : d # c => pc'[d] = pc[d] /\ mine'[d] = mine[d] /\ outcome'[d] = outcome[d]
  BY <1>0 DEF Begin, BeginConnect, BeginGated, BeginRefused, BeginVM, ReleaseVM, TypeOK
<1>4. \A h \in Handles \ reused : Quiet(h) \/ err[h].kind = "network"
  BY <1>1 DEF PInv, Fence
<1>5. DeadIsQuiet' /\ Fence'
  BY <1>2, <1>4 DEF PInv, DeadIsQuiet, Fence, Quiet
<1>6. AnswerMatchesCommand' /\ ErrorIsOwn'
  <2>1. \/ outcome'[c] = outcome[c]
        \/ outcome'[c].status = "invalid"
        \/ outcome'[c].got = outcome'[c].asked
    <3>1. CASE ReleaseVM(c)
      BY <1>0, <3>1 DEF ReleaseVM, TypeOK
    <3>2. ASSUME NEW o \in AllOperations, BeginRefused(c, o) PROVE <2>1!:
      BY <1>0, <3>2 DEF BeginRefused, TypeOK
    <3> QED
      BY <3>1, <3>2 DEF Begin, BeginConnect, BeginGated, BeginVM
  <2> QED
    BY <1>1, <1>2, <1>3, <2>1, ResultsAlone DEF PInv, AnswerMatchesCommand, ErrorIsOwn
<1>7. Pairing(c)'
  <2>1. CASE BeginConnect(c)
    BY <1>0, <2>1 DEF BeginConnect, Pairing, TypeOK
  <2>2. ASSUME NEW o \in AllOperations, BeginGated(c, o) PROVE Pairing(c)'
    <3>1. connection \in Handles /\ (connection \notin reused => Quiet(connection))
      BY <1>0, <1>4, <2>2 DEF BeginGated, IsConnected, IsError, TypeOK
    <3>2. /\ pc'[c] = IF o = "disconnect" THEN "close" ELSE "send"
          /\ op'[c] = o /\ o \in {"disconnect", "execute", "uuid", "compile"}
      BY <1>0, <2>2 DEF BeginGated, GatedOperations, TypeOK
    <3>3. Target(c)' = connection
      BY <1>2, <3>2 DEF Target, VmOperations
    <3> QED
      BY <1>2, <3>1, <3>2, <3>3 DEF Pairing, Quiet
  <2>3. ASSUME NEW o \in AllOperations, BeginRefused(c, o) PROVE Pairing(c)'
    BY <1>1, <2>3 DEF BeginRefused, Pairing
  <2>4. ASSUME NEW o \in VmOperations, BeginVM(c, o) PROVE Pairing(c)'
    BY <1>0, <2>4 DEF BeginVM, Pairing, TypeOK
  <2>5. CASE ReleaseVM(c)
    BY <1>1, <2>5 DEF ReleaseVM, Pairing
  <2> QED
    BY <2>1, <2>2, <2>3, <2>4, <2>5 DEF Begin
<1> QED
  BY <1>1, <1>3, <1>5, <1>6, <1>7, PairedAlone DEF PInv

(* A struct that was just allocated owes nothing, and neither does one the *)
(* bridge takes over.                                                      *)
LEMMA ConnectPInv ==
  ASSUME SInv, PInv, NEW c \in Callers, Open(c) \/ Assign(c)
  PROVE  PInv'
<1> USE DEF handleVars, callVars, commands, history
<1>0. TypeOK /\ TypeOK' /\ Continue(c)
  BY ContinueType DEF SInv, Continue
<1>1. pc[c] \in {"open", "assign"} /\ op[c] = "config" /\ Place(c)
  BY DEF Open, Assign, SInv, Place
<1>2. /\ \A d \in Callers : d # c => pc[d] = "idle"
      /\ \A d \in Callers : d # c => pc'[d] = pc[d] /\ mine'[d] = mine[d] /\ outcome'[d] = outcome[d]
      /\ UNCHANGED reused
  BY <1>0, <1>1, InsideAlone, OthersStay DEF Open, Assign
<1>3. \A h \in Handles \ reused : Quiet(h) \/ err[h].kind = "network"
  BY <1>1, <1>2 DEF PInv, Fence
<1>4. AnswerMatchesCommand' /\ ErrorIsOwn'
  <2>1. pc'[c] = "idle" => outcome'[c].op = "connect" /\ outcome'[c].status = "value"
    BY <1>0, <1>1, ConnectionAssumption DEF Open, Assign, Finish, Api, SetupPhases, TypeOK
  <2> QED
    BY <1>2, <2>1, ResultsAlone DEF PInv, VmOperations
<1> SUFFICES DeadIsQuiet' /\ Fence' /\ Pairing(c)'
  BY <1>2, <1>4, PairedAlone DEF PInv
<1>5. CASE Open(c)
  <2>0. PICK h \in Handles :
          /\ heap[h] = "unused" /\ heap' = [heap EXCEPT ![h] = "live"]
          /\ mine' = [mine EXCEPT ![c] = h]
          /\ \/ /\ pc' = [pc EXCEPT ![c] = IF ConfigCommands THEN "send" ELSE "assign"]
                /\ UNCHANGED <<err, unready>>
             \/ /\ pc' = [pc EXCEPT ![c] = "assign"]
                /\ unready' = unready \cup {h}
                /\ err' = [err EXCEPT ![h] = [kind |-> "network", cause |-> 0]]
    BY <1>5 DEF Open
  <2>1. /\ mine'[c] = h
        /\ pc'[c] \in {"send", "assign"}
        /\ \A g \in Handles : g # h => err'[g] = err[g]
    BY <1>0, <2>0 DEF TypeOK
  <2>2. UNCHANGED <<wire, replies, op>>
    BY <1>5 DEF Open
  <2>3. Quiet(h)
    BY <2>0 DEF PInv, DeadIsQuiet
  <2>4. \A g \in Handles : Quiet(g)' <=> Quiet(g)
    BY <2>2 DEF Quiet
  <2>5. DeadIsQuiet'
    BY <1>0, <2>0, <2>1, <2>3, <2>4 DEF PInv, DeadIsQuiet, TypeOK
  <2>6. Fence'
    BY <1>2, <1>3, <2>0, <2>1, <2>3, <2>4 DEF Fence
  <2>7. Target(c)' = h
    BY <1>1, <2>0, <2>1, <2>2 DEF Target, VmOperations
  <2> QED
    BY <2>0, <2>1, <2>3, <2>4, <2>5, <2>6, <2>7 DEF Pairing
<1>6. CASE Assign(c)
  <2>1. UNCHANGED <<heap, err, wire, replies, mine>> /\ connection' = mine[c]
    BY <1>6 DEF Assign
  <2>2. DeadIsQuiet' /\ Fence'
    BY <1>2, <1>3, <2>1 DEF PInv, DeadIsQuiet, Fence, Quiet
  <2>3. mine[c] \in Handles
    BY <1>0, <1>1, <1>6, LiveIsHandle DEF Assign, Place, TypeOK
  <2>4. /\ pc'[c] \in {"close", "send", "idle"}
        /\ pc'[c] = "send" => op'[c] = "pubsubOnly" /\ err[mine[c]].kind = "none"
    BY <1>0, <1>1, <1>6 DEF Assign, Finish, TypeOK
  <2>5. pc'[c] = "send" => Target(c)' = mine[c]
    BY <2>1, <2>4 DEF Target, VmOperations
  <2> QED
    BY <1>2, <1>3, <2>1, <2>2, <2>3, <2>4, <2>5 DEF Pairing, Quiet
<1> QED
  BY <1>5, <1>6

(* The reply a call reads is the answer to its own command, and the last.  *)
LEMMA OwnReply ==
  ASSUME PInv, NEW c \in Callers, Receive(c), mine[c] \notin reused
  PROVE  /\ Head(replies[mine[c]]).ticket = ticket[c]
         /\ wire[mine[c]] = <<>> /\ Tail(replies[mine[c]]) = <<>>
<1>1. OwesOnly(mine[c], ticket[c]) /\ replies[mine[c]] # <<>>
  BY DEF Receive, PInv, Pairing
<1>2. PICK k \in AllReplyKinds :
        wire[mine[c]] = <<>> /\ replies[mine[c]] = <<[ticket |-> ticket[c], kind |-> k]>>
  BY <1>1, Singleton DEF OwesOnly, Quiet
<1>3. PICK x : x = [ticket |-> ticket[c], kind |-> k]
  OBVIOUS
<1> QED
  BY <1>2, <1>3, Singleton

(* Writing a command: unless a VM writes over a network error, the socket  *)
(* owed nothing, so the new command is all it owes.                        *)
LEMMA SendPInv ==
  ASSUME SInv, PInv, NEW c \in Callers, Send(c)
  PROVE  PInv'
<1>0. TypeOK /\ TypeOK' /\ Continue(c) /\ Place(c)
  BY ContinueType DEF SInv, Continue
<1>1. pc[c] = "send" /\ UNCHANGED <<connection, heap, op, outcome, replies>>
  BY DEF Send
<1>2. /\ \A d \in Callers : d # c => pc[d] = "idle"
      /\ \A d \in Callers : d # c => pc'[d] = pc[d] /\ mine'[d] = mine[d] /\ outcome'[d] = outcome[d]
      /\ reused \subseteq reused'
  BY <1>0, <1>1, InsideAlone, OthersStay, ReusedStays
<1>3. PICK h \in Handles : h = Target(c) /\ Live(h)
  BY <1>0, TargetType, LiveIsHandle DEF Send
<1>4. PICK t \in Nat : t = written + 1
  BY <1>0 DEF TypeOK
<1>5. \A g \in Handles \ reused : Quiet(g) \/ err[g].kind = "network"
  BY <1>1, <1>2 DEF PInv, Fence
<1>6. reused' = IF op[c] \in VmOperations /\ err[h].kind = "network" THEN reused \cup {h} ELSE reused
  BY <1>3 DEF Send
<1>7. h \notin reused' => Quiet(h)
  BY <1>1, <1>3, <1>5, <1>6 DEF PInv, Pairing
<1>8. /\ mine'[c] = h /\ ticket'[c] = t /\ got'[c] = 0
      /\ \A g \in Handles : g # h => wire'[g] = wire[g] /\ err'[g] = err[g]
  BY <1>0, <1>3, <1>4 DEF Send, TypeOK
<1>9. \/ /\ pc'[c] = "recv" /\ err'[h].kind = "none"
         /\ wire'[h] = Append(wire[h], t) \/ wire'[h] = wire[h]
      \/ /\ pc'[c] = "return" /\ err'[h].kind = "network" /\ err'[h].cause = t
         /\ wire'[h] = wire[h]
  <2>1. CASE /\ pc' = [pc EXCEPT ![c] = "recv"]
             /\ err' = [err EXCEPT ![h] = NoError]
             /\ wire' = [wire EXCEPT ![h] = IF link[h] THEN Append(@, t) ELSE @]
    <3>1. err'[h] = NoError /\ pc'[c] = "recv"
      BY <1>0, <2>1 DEF TypeOK
    <3>2. wire'[h] = Append(wire[h], t) \/ wire'[h] = wire[h]
      BY <1>0, <2>1 DEF TypeOK
    <3> QED
      BY <3>1, <3>2 DEF NoError
  <2>2. CASE /\ pc' = [pc EXCEPT ![c] = "return"]
             /\ err' = [err EXCEPT ![h] = [kind |-> "network", cause |-> t]]
             /\ UNCHANGED wire
    <3>1. err'[h] = [kind |-> "network", cause |-> t] /\ pc'[c] = "return"
      BY <1>0, <2>2 DEF TypeOK
    <3> QED
      BY <2>2, <3>1
  <2> QED
    BY <1>3, <1>4, <2>1, <2>2 DEF Send
<1>10. \A g \in Handles : g # h => (Quiet(g)' <=> Quiet(g))
  BY <1>1, <1>8 DEF Quiet
<1>11. h \notin reused' => \/ pc'[c] = "recv" /\ (wire'[h] = <<t>> \/ wire'[h] = <<>>) /\ replies'[h] = <<>>
                           \/ pc'[c] = "return" /\ Quiet(h)'
  BY <1>1, <1>7, <1>9, Singleton DEF Quiet
<1>12. DeadIsQuiet'
  BY <1>1, <1>3, <1>10 DEF PInv, DeadIsQuiet, Live
<1>13. Fence'
  <2>1. \A g \in Handles \ reused' : g # h => Quiet(g)' \/ err'[g].kind = "network"
    BY <1>2, <1>5, <1>8, <1>10
  <2>2. h \notin reused' => Quiet(h)' \/ (pc'[c] = "recv" /\ mine'[c] = h)
    BY <1>8, <1>11
  <2> QED
    BY <2>1, <2>2 DEF Fence
<1>14. Pairing(c)'
  <2>1. pc'[c] = "recv" /\ h \notin reused' => OwesOnly(mine[c], ticket[c])'
    BY <1>8, <1>11 DEF OwesOnly, Quiet
  <2> QED
    BY <1>8, <1>9, <2>1 DEF Pairing
<1>15. AnswerMatchesCommand' /\ ErrorIsOwn'
  BY <1>2, <1>9, ResultsAlone DEF PInv
<1> QED
  BY <1>2, <1>12, <1>13, <1>14, <1>15, PairedAlone DEF PInv

(* The cached UUID is handed out without a command.                        *)
LEMMA CachedPInv ==
  ASSUME SInv, PInv, NEW c \in Callers, CachedUuid(c)
  PROVE  PInv'
<1>0. TypeOK /\ TypeOK' /\ Continue(c)
  BY ContinueType DEF SInv, Continue
<1>1. /\ pc[c] = "send" /\ pc'[c] = "return" /\ op'[c] = "uuid" /\ got'[c] # 0
      /\ UNCHANGED <<heap, err, wire, replies, outcome, reused>>
  <2>1. Target(c) \in Handles
    BY <1>0, TargetType, LiveIsHandle DEF CachedUuid
  <2> QED
    BY <1>0, <2>1 DEF CachedUuid, handleVars, history, TypeOK
<1>2. /\ \A d \in Callers : d # c => pc[d] = "idle"
      /\ \A d \in Callers : d # c => pc'[d] = pc[d] /\ mine'[d] = mine[d] /\ outcome'[d] = outcome[d]
  BY <1>0, <1>1, InsideAlone, OthersStay
<1>3. DeadIsQuiet' /\ Fence' /\ Pairing(c)'
  BY <1>1, <1>2 DEF PInv, DeadIsQuiet, Fence, Pairing, Quiet
<1>4. AnswerMatchesCommand' /\ ErrorIsOwn'
  BY <1>1, <1>2, ResultsAlone DEF PInv
<1> QED
  BY <1>2, <1>3, <1>4, PairedAlone DEF PInv

(* Reading takes exactly the caller's own answer, or marks the struct.     *)
LEMMA ReceivePInv ==
  ASSUME SInv, PInv, NEW c \in Callers, Receive(c) \/ ReceiveFails(c)
  PROVE  PInv'
<1>0. TypeOK /\ TypeOK' /\ Continue(c) /\ Place(c)
  BY ContinueType DEF SInv, Continue
<1>1. /\ pc[c] = "recv" /\ got[c] = 0
      /\ UNCHANGED <<connection, heap, op, mine, ticket, vm, wire, outcome, reused>>
  BY DEF Receive, ReceiveFails, callVars, PInv, Pairing
<1>2. /\ \A d \in Callers : d # c => pc[d] = "idle"
      /\ \A d \in Callers : d # c => pc'[d] = pc[d] /\ mine'[d] = mine[d] /\ outcome'[d] = outcome[d]
  BY <1>0, <1>1, InsideAlone, OthersStay
<1>3. PICK h \in Handles : h = mine[c] /\ Live(h)
  BY <1>0, LiveIsHandle DEF Receive, ReceiveFails, TypeOK
<1>4. \A g \in Handles : g # h => replies'[g] = replies[g] /\ err'[g] = err[g]
  BY <1>0, <1>3 DEF Receive, ReceiveFails, TypeOK
<1>5. \A g \in Handles \ reused : g # h => Quiet(g) \/ err[g].kind = "network"
  BY <1>2, <1>3 DEF PInv, Fence
<1>6. DeadIsQuiet'
  BY <1>1, <1>3, <1>4 DEF PInv, DeadIsQuiet, Quiet, Live
<1>7. h \notin reused => OwesOnly(h, ticket[c]) /\ err[h].kind = "none"
  BY <1>1, <1>3 DEF PInv, Pairing
<1>8. AnswerMatchesCommand' /\ ErrorIsOwn'
  <2>1. pc'[c] # "idle"
    BY <1>0 DEF Receive, ReceiveFails, TypeOK
  <2> QED
    BY <1>1, <1>2, <2>1, ResultsAlone DEF PInv
<1> SUFFICES Fence' /\ Pairing(c)'
  BY <1>2, <1>6, <1>8, PairedAlone DEF PInv
<1>9. CASE ReceiveFails(c)
  <2>1. err'[h] = [kind |-> "network", cause |-> ticket[c]]
    BY <1>0, <1>3, <1>9 DEF ReceiveFails, TypeOK
  <2>2. pc'[c] = "return" /\ got'[c] = 0
    BY <1>0, <1>1, <1>9 DEF ReceiveFails, callVars, TypeOK
  <2>3. Fence'
    BY <1>1, <1>4, <1>5, <2>1 DEF Fence, Quiet
  <2> QED
    BY <1>1, <1>3, <2>1, <2>2, <2>3 DEF Pairing
<1>10. CASE Receive(c)
  <2> DEFINE r == Head(replies[h])
  <2>1. h \notin reused => r.ticket = ticket[c] /\ wire[h] = <<>> /\ Tail(replies[h]) = <<>>
    BY <1>3, <1>10, OwnReply
  <2>2. h \notin reused => Quiet(h)'
    <3>1. replies'[h] = Tail(replies[h])
      BY <1>0, <1>3, <1>10 DEF Receive, TypeOK
    <3> QED
      BY <1>1, <2>1, <3>1 DEF Quiet
  <2>3. Fence'
    BY <1>1, <1>4, <1>5, <2>2 DEF Fence, Quiet
  <2>4. \/ /\ pc'[c] = "return" /\ got'[c] = r.ticket /\ err'[h] = err[h]
        \/ /\ pc'[c] = "return" /\ got'[c] = 0
           /\ err'[h] = err[h] \/ err'[h].cause = r.ticket
        \/ /\ pc'[c] = "send"
    <3>1. CASE r.kind = "ok"
      BY <1>0, <1>3, <1>10, <3>1 DEF Receive, TypeOK
    <3>2. CASE r.kind \in {"sqlerr", "malformed"}
      <4>1. \/ err'[h] = [kind |-> "sqlite", cause |-> r.ticket]
            \/ err'[h] = [kind |-> "network", cause |-> r.ticket]
        BY <1>0, <1>3, <1>10, <3>2 DEF Receive, TypeOK
      <4>2. pc'[c] = "return" /\ got'[c] = 0
        BY <1>0, <1>1, <1>3, <1>10, <3>2 DEF Receive, TypeOK
      <4> QED
        BY <4>1, <4>2
    <3>3. CASE r.kind \in {"redirect", "reconnect", "unknown"}
      BY <1>0, <1>1, <1>3, <1>10, <3>3 DEF Receive, TypeOK
    <3> QED
      BY <1>3, <1>10, <3>1, <3>2, <3>3 DEF Receive
  <2>5. pc'[c] = "send" /\ op[c] \notin VmOperations => Target(c)' = h
    BY <1>0, <1>1, <1>3 DEF Place, Target
  <2>6. op'[c] = op[c] /\ mine'[c] = h /\ ticket'[c] = ticket[c]
    BY <1>1, <1>3
  <2>7. Pairing(c)'
    BY <1>1, <1>7, <2>1, <2>2, <2>4, <2>5, <2>6 DEF Pairing
  <2> QED
    BY <2>3, <2>7
<1> QED
  BY <1>9, <1>10

(* A call that ends with its own answer, or with an error of its own, keeps *)
(* the two statements about results.                                       *)
LEMMA EndOfCall ==
  ASSUME SInv, PInv, NEW c \in Callers, Continue(c), ~Send(c), UNCHANGED mine,
         NEW s \in Statuses, NEW n, Throw(c, s, n),
         mine[c] \notin reused =>
           /\ s = "value" /\ op[c] \in {"execute", "compile"} \cup VmOperations => n = ticket[c]
           /\ s \in {"sqlite", "network"} => n = ticket[c]
  PROVE  /\ AnswerMatchesCommand' /\ ErrorIsOwn'
         /\ pc'[c] = "idle"
<1>0. TypeOK /\ UNCHANGED reused
  BY ReusedStays DEF SInv
<1>1. /\ pc'[c] = "idle"
      /\ outcome'[c] = [op |-> Api(op[c]), status |-> s, asked |-> ticket[c], got |-> n]
  BY <1>0 DEF Throw, TypeOK
<1>2. Api(op[c]) \in {"execute", "compile"} \cup VmOperations
        => op[c] \in {"execute", "compile"} \cup VmOperations
  BY DEF Api, VmOperations
<1>3. \A d \in Callers : d # c => pc'[d] = pc[d] /\ mine'[d] = mine[d] /\ outcome'[d] = outcome[d]
  BY <1>0, OthersStay
<1> QED
  BY <1>0, <1>1, <1>2, <1>3, ResultsAlone DEF PInv

(* Finish is Throw with the reply the caller holds.                        *)
LEMMA FinishIsThrow ==
  ASSUME NEW c, NEW s, Finish(c, s)
  PROVE  Throw(c, s, got[c])
BY DEF Finish, Throw

(* The reply is handed to the caller, or the error is read back from the   *)
(* struct: no other call has touched either since it was stored.           *)
LEMMA ReturnPInv ==
  ASSUME SInv, PInv, NEW c \in Callers,
         \/ ReturnExecute(c) \/ ReturnUuid(c) \/ ReturnCompile(c) \/ ReturnStep(c)
         \/ ReturnBind(c) \/ ReturnFinalize(c) \/ ReturnConfig(c) \/ ReturnPubSubOnly(c)
  PROVE  PInv'
<1> USE DEF handleVars, callVars, commands, history
<1>0. TypeOK /\ TypeOK' /\ Continue(c) /\ ~Send(c)
  <2>1. ~Send(c)
    BY DEF ReturnExecute, ReturnUuid, ReturnCompile, ReturnStep, ReturnBind, ReturnFinalize, ReturnConfig,
       ReturnPubSubOnly, Send
  <2> QED
    BY <2>1, ContinueType DEF SInv, Continue
<1>1. pc[c] = "return" /\ Place(c) /\ Pairing(c)
  BY DEF ReturnExecute, ReturnUuid, ReturnCompile, ReturnStep, ReturnBind, ReturnFinalize, ReturnConfig,
     ReturnPubSubOnly, SInv, PInv
<1>2. UNCHANGED <<connection, heap, err, wire, replies, op, mine, ticket, got, reused>>
  BY DEF ReturnExecute, ReturnUuid, ReturnCompile, ReturnStep, ReturnBind, ReturnFinalize, ReturnConfig,
     ReturnPubSubOnly
<1>3. /\ \A d \in Callers : d # c => pc[d] = "idle"
      /\ \A d \in Callers : d # c => pc'[d] = pc[d] /\ mine'[d] = mine[d] /\ outcome'[d] = outcome[d]
  BY <1>0, <1>1, InsideAlone, OthersStay
<1>4. DeadIsQuiet' /\ Fence'
  <2>1. \A h \in Handles \ reused : Quiet(h) \/ err[h].kind = "network"
    BY <1>1, <1>3 DEF PInv, Fence
  <2> QED
    BY <1>2, <2>1 DEF PInv, DeadIsQuiet, Fence, Quiet
<1>5. Pairing(c)'
  <2>1. pc'[c] \in {"idle", "assign", "close"}
    BY <1>0 DEF ReturnExecute, ReturnUuid, ReturnCompile, ReturnStep, ReturnBind, ReturnFinalize, ReturnConfig,
       ReturnPubSubOnly, Finish, Throw, TypeOK
  <2> QED
    BY <2>1 DEF Pairing
<1> SUFFICES AnswerMatchesCommand' /\ ErrorIsOwn'
  BY <1>3, <1>4, <1>5, PairedAlone DEF PInv
<1>6. ASSUME NEW s \in {"value", "unhandled", "invalidUUID", "failed", "undefined"}, NEW n, Throw(c, s, n),
             mine[c] \notin reused /\ s = "value" /\ op[c] \in {"execute", "compile"} \cup VmOperations
               => n = ticket[c]
      PROVE  AnswerMatchesCommand' /\ ErrorIsOwn'
  <2>1. s \in Statuses /\ s \notin {"sqlite", "network"}
    BY DEF Statuses
  <2> QED
    BY <1>0, <1>2, <1>6, <2>1, EndOfCall
<1>7. ASSUME Finish(c, "value"), op[c] \in {"execute", "compile"} \cup VmOperations => got[c] # 0
      PROVE  AnswerMatchesCommand' /\ ErrorIsOwn'
  <2>1. mine[c] \notin reused /\ op[c] \in {"execute", "compile"} \cup VmOperations => got[c] = ticket[c]
    BY <1>1, <1>7 DEF Pairing, VmOperations
  <2> QED
    BY <1>6, <1>7, <2>1, FinishIsThrow
<1>8. CASE ReturnExecute(c)
  <2>1. CASE got[c] # 0 /\ Finish(c, "value")
    BY <1>7, <2>1
  <2>2. CASE got[c] = 0 /\ Throw(c, BridgeError, BridgeCause)
    <3>1. mine[c] = connection /\ Live(connection)
      BY <1>1, <1>8 DEF Place, VmOperations, ReturnExecute
    <3>2. err[connection] \in Errors
      BY <1>0, <3>1, LiveIsHandle DEF TypeOK
    <3>3. BridgeError \in Statuses \ {"value"}
      BY <3>2 DEF BridgeError, Errors, Statuses
    <3>4. mine[c] \notin reused /\ BridgeError \in {"sqlite", "network"} => BridgeCause = ticket[c]
      BY <1>1, <2>2, <3>1, <3>2 DEF BridgeError, BridgeCause, IsError, Pairing, Live, Errors
    <3> QED
      BY <1>0, <1>2, <2>2, <3>3, <3>4, EndOfCall
  <2> QED
    BY <1>8, <2>1, <2>2 DEF ReturnExecute
<1>9. CASE ReturnUuid(c)
  BY <1>6, <1>7, <1>9 DEF ReturnUuid, VmOperations
<1>10. CASE ReturnCompile(c)
  BY <1>6, <1>7, <1>10 DEF ReturnCompile
<1>11. CASE ReturnStep(c)
  <2>1. CASE got[c] # 0 /\ Finish(c, "value")
    BY <1>7, <2>1
  <2>2. CASE got[c] = 0 /\ Live(mine[c]) /\ err[mine[c]].kind = "none" /\ Throw(c, "unhandled", 0)
    BY <1>6, <2>2
  <2>3. CASE /\ got[c] = 0 /\ Live(mine[c]) /\ err[mine[c]].kind # "none"
             /\ Throw(c, err[mine[c]].kind, err[mine[c]].cause)
    <3>1. err[mine[c]] \in Errors
      BY <1>0, <2>3, LiveIsHandle DEF TypeOK
    <3>2. err[mine[c]].kind \in {"sqlite", "network"}
      BY <2>3, <3>1 DEF Errors
    <3>3. mine[c] \notin reused => err[mine[c]].cause = ticket[c]
      BY <1>1, <2>3 DEF Pairing
    <3>4. err[mine[c]].kind \in Statuses
      BY <3>2 DEF Statuses
    <3> QED
      BY <1>0, <1>2, <2>3, <3>2, <3>3, <3>4, EndOfCall
  <2> QED
    BY <1>11, <2>1, <2>2, <2>3 DEF ReturnStep
<1>12. CASE ReturnBind(c)
  BY <1>6, <1>7, <1>12 DEF ReturnBind
<1>13. CASE ReturnFinalize(c)
  <2>1. CASE got[c] # 0
    BY <1>7, <1>13, <2>1 DEF ReturnFinalize
  <2>2. CASE got[c] = 0
    BY <1>6, <1>13, <2>2, FinishIsThrow DEF ReturnFinalize
  <2> QED
    BY <2>1, <2>2
<1>14. CASE ReturnConfig(c)
  <2>1. outcome' = outcome /\ pc'[c] = "assign"
    BY <1>0, <1>14 DEF ReturnConfig, TypeOK
  <2> QED
    BY <1>2, <1>3, <2>1, ResultsAlone DEF PInv
<1>15. CASE ReturnPubSubOnly(c)
  <2>1. CASE Finish(c, "value")
    BY <1>7, <1>15, <2>1 DEF ReturnPubSubOnly, VmOperations
  <2>2. CASE pc' = [pc EXCEPT ![c] = "close"] /\ UNCHANGED outcome
    <3>1. pc'[c] = "close"
      BY <1>0, <2>2 DEF TypeOK
    <3> QED
      BY <1>2, <1>3, <2>2, <3>1, ResultsAlone DEF PInv
  <2> QED
    BY <1>15, <2>1, <2>2 DEF ReturnPubSubOnly
<1> QED
  BY <1>8, <1>9, <1>10, <1>11, <1>12, <1>13, <1>14, <1>15

(* A socket that is closed owes nothing, and the call that closed it       *)
(* returns no answer; a crash answers nothing either.                      *)
LEMMA ClosePInv ==
  ASSUME SInv, PInv, NEW c \in Callers, Close(c) \/ Clear(c) \/ Crash(c)
  PROVE  PInv'
<1> USE DEF handleVars, callVars, commands, history
<1>0. TypeOK /\ TypeOK' /\ Continue(c) /\ ~Send(c)
  <2>1. Close(c) \/ Clear(c) => ~Send(c)
    BY DEF Close, Clear, Send
  <2>2. Crash(c) => ~Send(c)
    BY ContinueType DEF Crash, Send, SInv, TypeOK
  <2> QED
    BY <2>1, <2>2, ContinueType DEF SInv, Continue
<1>1. pc[c] # "idle" /\ UNCHANGED <<err, op, mine, ticket, got, reused>>
  BY DEF Close, Clear, Crash, Dangling
<1>2. /\ \A d \in Callers : d # c => pc[d] = "idle"
      /\ \A d \in Callers : d # c => pc'[d] = pc[d] /\ mine'[d] = mine[d] /\ outcome'[d] = outcome[d]
  BY <1>0, <1>1, InsideAlone, OthersStay
<1>3. Pairing(c)'
  <2>1. pc'[c] \in {"clear", "idle", "crashed"}
    BY <1>0 DEF Close, Clear, Crash, Finish, TypeOK
  <2> QED
    BY <2>1 DEF Pairing
<1>4. CASE Close(c)
  <2>1. \A h \in Handles :
          \/ Quiet(h)'
          \/ heap'[h] = heap[h] /\ (Quiet(h)' <=> Quiet(h))
    BY <1>0, <1>4 DEF Close, Quiet, TypeOK
  <2>2. \A h \in Handles \ reused : Quiet(h) \/ err[h].kind = "network"
    BY <1>2, <1>4 DEF PInv, Fence, Close
  <2>3. DeadIsQuiet' /\ Fence'
    BY <1>1, <2>1, <2>2 DEF PInv, DeadIsQuiet, Fence
  <2>4. pc'[c] # "idle"
    BY <1>0, <1>4 DEF Close, TypeOK
  <2> QED
    BY <1>1, <1>2, <1>3, <2>3, <2>4, PairedAlone, ResultsAlone DEF PInv
<1>5. CASE Clear(c)
  <2>1. \A h \in Handles \ reused : Quiet(h) \/ err[h].kind = "network"
    BY <1>2, <1>5 DEF PInv, Fence, Clear
  <2>2. DeadIsQuiet' /\ Fence'
    BY <1>1, <1>5, <2>1 DEF Clear, PInv, DeadIsQuiet, Fence, Quiet
  <2>3. AnswerMatchesCommand' /\ ErrorIsOwn'
    <3>1. PICK s \in {"value", "unhandled"} : Finish(c, s)
      BY <1>5 DEF Clear
    <3>2. s \in Statuses /\ s \notin {"sqlite", "network"}
      BY DEF Statuses
    <3>3. op[c] \notin {"execute", "compile"} \cup VmOperations
      BY <1>5 DEF Clear, SInv, Place, SetupPhases, VmOperations
    <3> QED
      BY <1>0, <1>1, <3>1, <3>2, <3>3, FinishIsThrow, EndOfCall
  <2> QED
    BY <1>2, <1>3, <2>2, <2>3, PairedAlone DEF PInv
<1>6. CASE Crash(c)
  <2>1. UNCHANGED <<heap, err, wire, replies>> /\ pc'[c] = "crashed"
    BY <1>0, <1>6 DEF Crash, TypeOK
  <2>2. SInv'
    BY <1>6, CloseSInv
  <2>3. pc[c] = "send"
    <3>1. pc[c] # "recv" /\ pc[c] # "return"
      <4>1. ASSUME pc[c] \in {"recv", "return"} PROVE FALSE
        <5>1. Live(mine[c]) /\ (connection # NoHandle => Live(connection))
          BY <4>1, FieldAlone DEF SInv, Place
        <5> QED
          BY <1>6, <4>1, <5>1 DEF Crash, Dangling
      <4> QED
        BY <4>1
    <3>2. pc[c] # "close"
      BY <1>6, FieldAlone DEF Crash, Dangling
    <3> QED
      BY <1>6, <3>1, <3>2 DEF Crash, Dangling
  <2>4. \A h \in Handles \ reused : Quiet(h) \/ err[h].kind = "network"
    BY <1>2, <2>3 DEF PInv, Fence
  <2>5. DeadIsQuiet' /\ Fence'
    BY <1>1, <2>1, <2>4 DEF PInv, DeadIsQuiet, Fence, Quiet
  <2> QED
    BY <1>1, <1>2, <1>3, <2>1, <2>5, PairedAlone, ResultsAlone DEF PInv
<1> QED
  BY <1>4, <1>5, <1>6

(* The server answers a command it was sent, or closes the socket: what a  *)
(* socket owes only moves from the wire to the replies, or shrinks.        *)
LEMMA ServerPInv ==
  ASSUME SInv, PInv, NEW h \in Handles, ServerReply(h) \/ ServerDrop(h)
  PROVE  PInv'
<1>0. TypeOK /\ TypeOK'
  BY ServerType DEF SInv
<1>1. UNCHANGED <<connection, heap, err, pc, op, mine, ticket, got, vm, outcome, reused>>
  BY DEF ServerReply, ServerDrop, callVars, history
<1>2. \A g \in Handles : g # h => wire'[g] = wire[g] /\ replies'[g] = replies[g]
  BY <1>0 DEF ServerReply, ServerDrop, TypeOK
<1>3. \A g \in Handles : Quiet(g) => Quiet(g)'
  BY <1>0, <1>2 DEF ServerReply, ServerDrop, Quiet, TypeOK
<1>4. \A g \in Handles, t \in Nat : OwesOnly(g, t) => OwesOnly(g, t)'
  <2> SUFFICES ASSUME NEW t \in Nat, OwesOnly(h, t) PROVE OwesOnly(h, t)'
    BY <1>2 DEF OwesOnly, Quiet
  <2>1. CASE ServerReply(h)
    <3>1. wire[h] = <<t>> /\ replies[h] = <<>>
      BY <2>1 DEF ServerReply, OwesOnly, Quiet
    <3>2. PICK k \in AllReplyKinds :
            replies' = [replies EXCEPT ![h] = Append(@, [ticket |-> Head(wire[h]), kind |-> k])]
      BY <2>1, ConnectionAssumption DEF ServerReply
    <3>3. PICK x : x = [ticket |-> t, kind |-> k]
      OBVIOUS
    <3>4. replies'[h] = <<x>>
      <4>1. Head(wire[h]) = t
        BY <3>1, Singleton
      <4>2. replies'[h] = Append(<<>>, x)
        BY <1>0, <3>1, <3>2, <3>3, <4>1 DEF TypeOK
      <4> QED
        BY <4>2, Singleton
    <3>5. wire'[h] = <<>>
      BY <1>0, <2>1, <3>1, Singleton DEF ServerReply, TypeOK
    <3> QED
      BY <3>3, <3>4, <3>5 DEF OwesOnly
  <2>2. CASE ServerDrop(h)
    BY <1>0, <2>2 DEF ServerDrop, OwesOnly, Quiet, TypeOK
  <2> QED
    BY <2>1, <2>2
<1>5. DeadIsQuiet' /\ Fence'
  BY <1>1, <1>3 DEF PInv, DeadIsQuiet, Fence
<1>6. AnswerMatchesCommand' /\ ErrorIsOwn'
  BY <1>1 DEF PInv, AnswerMatchesCommand, ErrorIsOwn
<1>7. ASSUME NEW c \in Callers PROVE Pairing(c)'
  <2>1. Pairing(c) /\ Place(c) /\ Target(c)' = Target(c)
    BY <1>1 DEF PInv, SInv, Target
  <2>2. pc[c] = "send" /\ op[c] \notin VmOperations /\ Target(c) \notin reused => Quiet(Target(c))'
    <3>1. pc[c] = "send" /\ op[c] \notin VmOperations => Target(c) \in Handles
      BY <1>0, <2>1, TargetType, LiveIsHandle DEF Place
    <3> QED
      BY <1>3, <2>1, <3>1 DEF Pairing, Quiet
  <2>3. pc[c] = "recv" /\ mine[c] \notin reused => OwesOnly(mine[c], ticket[c])'
    <3>1. pc[c] = "recv" => mine[c] \in Handles /\ ticket[c] \in Nat
      BY <1>0, <2>1, LiveIsHandle DEF Place, TypeOK
    <3> QED
      BY <1>1, <1>4, <2>1, <3>1 DEF Pairing, OwesOnly, Quiet
  <2> QED
    BY <1>1, <2>1, <2>2, <2>3 DEF Pairing
<1> QED
  BY <1>5, <1>6, <1>7 DEF PInv

(* The pairing is kept by every step, for callers that take turns.         *)
LEMMA PairingStep ==
  ASSUME SInv, PInv, OneAtATime, [Next]_vars
  PROVE  PInv'
<1>1. CASE UNCHANGED vars
  BY <1>1 DEF vars, handleVars, callVars, commands, history, PInv, DeadIsQuiet, Fence, Pairing, OwesOnly, Quiet,
     Target, AnswerMatchesCommand, ErrorIsOwn
<1>2. ASSUME NEW c \in Callers, Begin(c) PROVE PInv'
  BY <1>2, BeginPInv
<1>3. ASSUME NEW c \in Callers, Continue(c) PROVE PInv'
  BY <1>3, ConnectPInv, SendPInv, CachedPInv, ReceivePInv, ReturnPInv, ClosePInv DEF Continue
<1>4. ASSUME NEW h \in Handles, ServerReply(h) \/ ServerDrop(h) PROVE PInv'
  BY <1>4, ServerPInv
<1> QED
  BY <1>1, <1>2, <1>3, <1>4 DEF Next

LEMMA PairingInductive == OneAtATime => (Spec => []PInv)
<1> SUFFICES ASSUME OneAtATime PROVE Spec => []PInv
  OBVIOUS
<1>1. Init => PInv
  BY DEF Init, PInv, DeadIsQuiet, Fence, Pairing, Quiet, NoOutcome, AnswerMatchesCommand, ErrorIsOwn
<1>2. SInv /\ PInv /\ [Next]_vars => PInv'
  BY PairingStep
<1> QED
  BY <1>1, <1>2, StructsInductive, PTL DEF Spec

(* For callers that take turns, a value returned by execute(),             *)
(* compileQuery() or a function of a VM is the answer to that call's own   *)
(* command, for any number of callers, reconnects, redirects, timeouts and *)
(* late answers, on every struct no VM has written on over a network error.*)
THEOREM AnswersMatch == OneAtATime => (Spec => []AnswerMatchesCommand)
<1>1. PInv => AnswerMatchesCommand
  BY DEF PInv
<1> QED
  BY <1>1, PairingInductive, PTL

(* Under the same conditions the error execute() or step() throws, read    *)
(* back from the shared struct by SQLiteCloudBridge.error(), is that of    *)
(* its own command.                                                        *)
THEOREM ErrorsAreOwn == OneAtATime => (Spec => []ErrorIsOwn)
<1>1. PInv => ErrorIsOwn
  BY DEF PInv
<1> QED
  BY <1>1, PairingInductive, PTL

(* Under the same conditions the struct of a socket that still owes an     *)
(* answer nobody reads holds a network error (internal_set_error).         *)
THEOREM StaleRepliesFenced == OneAtATime => (Spec => []StaleReplyIsFenced)
<1>1. PInv => StaleReplyIsFenced
  BY DEF PInv, Fence, Quiet, StaleReplyIsFenced
<1> QED
  BY <1>1, PairingInductive, PTL

-----------------------------------------------------------------------------
(* The cached UUID.                                                        *)

(* What is cached, and what a uuid call has written or read, is a command  *)
(* that asks for the UUID.                                                 *)
UuidInv ==
  /\ UuidIsAnAnswer
  /\ \A c \in Callers :
       /\ pc[c] = "recv" /\ op[c] = "uuid" => ticket[c] \in uuidAsked
       /\ pc[c] = "return" /\ op[c] = "uuid" /\ mine[c] \notin reused /\ got[c] # 0
            => got[c] \in uuidAsked

LEMMA UuidStep ==
  ASSUME SInv, PInv, UuidInv, [Next]_vars
  PROVE  UuidInv'
<1> USE DEF handleVars, callVars, commands, history
<1>0. TypeOK /\ TypeOK'
  BY TypeStep DEF SInv
<1>1. CASE UNCHANGED vars
  BY <1>1 DEF vars, UuidInv, UuidIsAnAnswer
<1>2. ASSUME NEW c \in Callers, Begin(c) PROVE UuidInv'
  <2>1. UNCHANGED <<uuid, uuidAsked, mine, reused>>
    BY <1>2 DEF Begin, BeginConnect, BeginGated, BeginRefused, BeginVM, ReleaseVM
  <2>2. \A d \in Callers :
          \/ pc'[d] = pc[d] /\ op'[d] = op[d] /\ ticket'[d] = ticket[d] /\ got'[d] = got[d]
          \/ pc'[d] \notin {"recv", "return"}
    <3>1. CASE BeginConnect(c) \/ ReleaseVM(c)
      BY <1>0, <3>1 DEF BeginConnect, ReleaseVM, TypeOK
    <3>2. ASSUME NEW o \in AllOperations, BeginGated(c, o) PROVE <2>2!:
      BY <1>0, <3>2 DEF BeginGated, TypeOK
    <3>3. ASSUME NEW o \in AllOperations, BeginRefused(c, o) PROVE <2>2!:
      BY <3>3 DEF BeginRefused
    <3>4. ASSUME NEW o \in VmOperations, BeginVM(c, o) PROVE <2>2!:
      BY <1>0, <3>4 DEF BeginVM, TypeOK
    <3> QED
      BY <1>2, <3>1, <3>2, <3>3, <3>4 DEF Begin
  <2> QED
    BY <2>1, <2>2 DEF UuidInv, UuidIsAnAnswer
<1>3. ASSUME NEW h \in Handles, ServerReply(h) \/ ServerDrop(h) PROVE UuidInv'
  BY <1>3 DEF ServerReply, ServerDrop, UuidInv, UuidIsAnAnswer
<1>4. ASSUME NEW c \in Callers, Continue(c) PROVE UuidInv'
  <2>1. /\ \A d \in Callers : d # c => /\ pc'[d] = pc[d] /\ op'[d] = op[d] /\ mine'[d] = mine[d]
                                       /\ ticket'[d] = ticket[d] /\ got'[d] = got[d]
        /\ reused \subseteq reused'
    BY <1>0, <1>4, OthersStay, ReusedStays
  <2>2. uuidAsked \subseteq uuidAsked'
    BY <1>4 DEF Continue, Open, Assign, Send, CachedUuid, Receive, ReceiveFails, ReturnExecute, ReturnUuid,
       ReturnCompile, ReturnStep, ReturnBind, ReturnFinalize, ReturnConfig, ReturnPubSubOnly, Close, Clear, Crash
  <2> SUFFICES /\ UuidIsAnAnswer'
               /\ pc'[c] = "recv" /\ op'[c] = "uuid" => ticket'[c] \in uuidAsked'
               /\ pc'[c] = "return" /\ op'[c] = "uuid" /\ mine'[c] \notin reused' /\ got'[c] # 0
                    => got'[c] \in uuidAsked'
    BY <2>1, <2>2 DEF UuidInv
  <2>3. UNCHANGED uuid => UuidIsAnAnswer'
    BY <2>1, <2>2 DEF UuidInv, UuidIsAnAnswer
  <2>4. CASE Open(c) \/ Assign(c) \/ Close(c) \/ Clear(c) \/ Crash(c)
    BY <1>0, <2>3, <2>4, ConnectionAssumption DEF Open, Assign, Close, Clear, Crash, Finish, TypeOK
  <2>5. CASE \/ ReturnExecute(c) \/ ReturnCompile(c) \/ ReturnStep(c) \/ ReturnBind(c) \/ ReturnFinalize(c)
             \/ ReturnConfig(c) \/ ReturnPubSubOnly(c)
    BY <1>0, <2>3, <2>5 DEF ReturnExecute, ReturnCompile, ReturnStep, ReturnBind, ReturnFinalize, ReturnConfig,
       ReturnPubSubOnly, Finish, Throw, TypeOK
  <2>6. CASE Send(c)
    <3>1. /\ UNCHANGED <<uuid, op>> /\ got'[c] = 0
          /\ op[c] = "uuid" => ticket'[c] \in uuidAsked'
      BY <1>0, <2>6 DEF Send, TypeOK
    <3> QED
      BY <2>3, <3>1
  <2>7. CASE CachedUuid(c)
    <3>1. PICK h \in Handles : h = Target(c)
      BY <1>0, <2>7, TargetType, LiveIsHandle DEF CachedUuid
    <3>2. /\ UNCHANGED uuid /\ pc'[c] = "return" /\ got'[c] = uuid[h] /\ mine'[c] = h
          /\ uuid[h] # 0
      BY <1>0, <2>7, <3>1 DEF CachedUuid, TypeOK
    <3> QED
      BY <2>1, <2>2, <2>3, <3>2 DEF UuidInv, UuidIsAnAnswer
  <2>8. CASE Receive(c)
    <3>1. /\ UNCHANGED <<uuid, op, mine, reused>> /\ pc[c] = "recv" /\ pc'[c] # "recv"
          /\ got'[c] = got[c] \/ got'[c] = Head(replies[mine[c]]).ticket
      BY <1>0, <2>8 DEF Receive, TypeOK
    <3>2. got[c] = 0
      BY <3>1 DEF PInv, Pairing
    <3> QED
      BY <2>2, <2>3, <2>8, <3>1, <3>2, OwnReply DEF UuidInv
  <2>9. CASE ReceiveFails(c)
    <3>1. UNCHANGED <<uuid, op, got>> /\ pc[c] = "recv" /\ pc'[c] = "return"
      BY <1>0, <2>9 DEF ReceiveFails, TypeOK
    <3>2. got[c] = 0
      BY <3>1 DEF PInv, Pairing
    <3> QED
      BY <2>3, <3>1, <3>2
  <2>10. CASE ReturnUuid(c)
    <3>1. /\ pc[c] = "return" /\ op[c] = "uuid" /\ pc'[c] = "idle" /\ UNCHANGED <<mine, reused>>
          /\ UNCHANGED uuid \/ (got[c] # 0 /\ uuid' = [uuid EXCEPT ![mine[c]] = got[c]])
      BY <1>0, <2>10 DEF ReturnUuid, Finish, Throw, TypeOK
    <3>2. \A h \in Handles : \/ uuid'[h] = uuid[h]
                             \/ h = mine[c] /\ got[c] # 0 /\ uuid'[h] = got[c]
      BY <1>0, <3>1 DEF TypeOK
    <3>3. UuidIsAnAnswer'
      BY <2>2, <3>1, <3>2 DEF UuidInv, UuidIsAnAnswer
    <3> QED
      BY <3>1, <3>3
  <2> QED
    BY <1>4, <2>4, <2>5, <2>6, <2>7, <2>8, <2>9, <2>10 DEF Continue
<1> QED
  BY <1>1, <1>2, <1>3, <1>4 DEF Next

(* For callers that take turns, the UUID that SQCloudUUID caches for the   *)
(* life of the struct is the answer to a GET CLIENT KEY UUID command, on   *)
(* every struct no VM has written on over a network error.                 *)
THEOREM CachedUuidIsAnAnswer == OneAtATime => (Spec => []UuidIsAnAnswer)
<1> SUFFICES ASSUME OneAtATime PROVE Spec => []UuidIsAnAnswer
  OBVIOUS
<1>1. Init => UuidInv
  BY DEF Init, UuidInv, UuidIsAnAnswer
<1>2. SInv /\ PInv /\ UuidInv /\ [Next]_vars => UuidInv'
  BY UuidStep
<1>3. UuidInv => UuidIsAnAnswer
  BY DEF UuidInv
<1> QED
  BY <1>1, <1>2, <1>3, StructsInductive, PairingInductive, PTL DEF Spec

-----------------------------------------------------------------------------
(* connect() that returns.                                                 *)

(* The struct a connect() works on is its own from the allocation on, and  *)
(* once its connection or a command of it has failed it holds the error.   *)
ReportInv ==
  /\ \A h \in Handles : heap[h] = "unused" => h \notin unready /\ \A c \in Callers : mine[c] # h
  /\ \A c \in Callers :
       pc[c] \in {"assign", "send", "recv", "return"} /\ op[c] \in SetupPhases
         => /\ \A d \in Callers : d # c => mine[d] # mine[c]
            /\ mine[c] \in unready => /\ pc[c] \in {"assign", "return"}
                                      /\ err[mine[c]].kind # "none"
  /\ ConnectReportsFailure

LEMMA BeginReportInv ==
  ASSUME SInv, ReportInv, NEW c \in Callers, Begin(c)
  PROVE  ReportInv'
<1> USE DEF handleVars, callVars, commands, history
<1>0. TypeOK
  BY DEF SInv
<1>1. UNCHANGED <<heap, err, mine, unready>>
  BY DEF Begin, BeginConnect, BeginGated, BeginRefused, BeginVM, ReleaseVM
<1>2. \A d \in Callers :
        \/ pc'[d] = pc[d] /\ op'[d] = op[d]
           /\ (outcome'[d] = outcome[d] \/ outcome'[d].op # "connect")
        \/ /\ pc'[d] # "idle"
           /\ pc'[d] \in {"assign", "send", "recv", "return"} => op'[d] \notin SetupPhases
  <2>1. CASE BeginConnect(c)
    BY <1>0, <2>1 DEF BeginConnect, TypeOK
  <2>2. ASSUME NEW o \in AllOperations, BeginGated(c, o) PROVE <1>2!:
    BY <1>0, <2>2 DEF BeginGated, GatedOperations, SetupPhases, TypeOK
  <2>3. ASSUME NEW o \in AllOperations, BeginRefused(c, o) PROVE <1>2!:
    BY <1>0, <2>3 DEF BeginRefused, GatedOperations, TypeOK
  <2>4. ASSUME NEW o \in VmOperations, BeginVM(c, o) PROVE <1>2!:
    BY <1>0, <2>4 DEF BeginVM, VmOperations, SetupPhases, TypeOK
  <2>5. CASE ReleaseVM(c)
    BY <1>0, <2>5 DEF ReleaseVM, TypeOK
  <2> QED
    BY <2>1, <2>2, <2>3, <2>4, <2>5 DEF Begin
<1> QED
  BY <1>1, <1>2 DEF ReportInv, ConnectReportsFailure

(* A step of a call: what it has to show about its own caller.             *)
LEMMA ReportAlone ==
  ASSUME SInv, ReportInv, NEW c \in Callers, Continue(c), UNCHANGED heap,
         \/ UNCHANGED unready
         \/ op[c] \in SetupPhases /\ pc[c] \in {"send", "recv"} /\ unready' = unready \cup {mine[c]},
         mine'[c] = mine[c] \/ (op[c] \notin SetupPhases /\ Live(mine'[c])),
         pc'[c] \in {"assign", "send", "recv", "return"} /\ op'[c] \in SetupPhases
           => /\ pc[c] \in {"assign", "send", "recv", "return"} /\ op[c] \in SetupPhases
              /\ mine'[c] \in unready' => /\ pc'[c] \in {"assign", "return"}
                                          /\ err'[mine'[c]].kind # "none",
         pc'[c] = "idle" /\ outcome'[c].op = "connect" /\ outcome'[c].status = "value"
           => mine'[c] \notin unready'
  PROVE  ReportInv'
<1>0. TypeOK
  BY DEF SInv
<1>1. pc[c] # "idle"
  BY DEF Continue, Open, Assign, Send, CachedUuid, Receive, ReceiveFails, ReturnExecute, ReturnUuid,
     ReturnCompile, ReturnStep, ReturnBind, ReturnFinalize, ReturnConfig, ReturnPubSubOnly, Close, Clear,
     Crash, Dangling
<1>2. \A d \in Callers : d # c => pc[d] = "idle"
  BY <1>1, InsideAlone
<1>3. \A d \in Callers : d # c => /\ pc'[d] = pc[d] /\ mine'[d] = mine[d]
                                  /\ outcome'[d] = outcome[d]
  BY <1>0, OthersStay
<1>4. \A h \in Handles : heap'[h] = "unused" => h \notin unready' /\ \A d \in Callers : mine'[d] # h
  BY <1>3 DEF ReportInv, Live
<1>5. \A d \in Callers : pc'[d] \in {"assign", "send", "recv", "return"} /\ op'[d] \in SetupPhases
        => /\ \A e \in Callers : e # d => mine'[e] # mine'[d]
           /\ mine'[d] \in unready' => /\ pc'[d] \in {"assign", "return"}
                                       /\ err'[mine'[d]].kind # "none"
  BY <1>2, <1>3 DEF ReportInv
<1>6. ASSUME NEW d \in Callers, d # c,
             pc'[d] = "idle", outcome'[d].op = "connect", outcome'[d].status = "value"
      PROVE  mine'[d] \notin unready'
  BY <1>3, <1>6 DEF ReportInv, ConnectReportsFailure
<1>7. ConnectReportsFailure'
  BY <1>6 DEF ConnectReportsFailure
<1> QED
  BY <1>4, <1>5, <1>7 DEF ReportInv

LEMMA ReportStep ==
  ASSUME SInv, ReportInv, [Next]_vars
  PROVE  ReportInv'
<1> USE DEF handleVars, callVars, commands, history
<1>0. TypeOK
  BY DEF SInv
<1>1. CASE UNCHANGED vars
  BY <1>1 DEF vars, ReportInv, ConnectReportsFailure
<1>2. ASSUME NEW c \in Callers, Begin(c) PROVE ReportInv'
  BY <1>2, BeginReportInv
<1>3. ASSUME NEW h \in Handles, ServerReply(h) \/ ServerDrop(h) PROVE ReportInv'
  BY <1>3 DEF ServerReply, ServerDrop, ReportInv, ConnectReportsFailure
<1>4. ASSUME NEW c \in Callers, Continue(c) PROVE ReportInv'
  <2>0. Place(c)
    BY DEF SInv
  <2>1. CASE Open(c)
    <3>0. PICK h \in Handles :
            /\ heap[h] = "unused" /\ heap' = [heap EXCEPT ![h] = "live"]
            /\ mine' = [mine EXCEPT ![c] = h]
            /\ \/ /\ pc' = [pc EXCEPT ![c] = IF ConfigCommands THEN "send" ELSE "assign"]
                  /\ UNCHANGED <<err, unready>>
               \/ /\ pc' = [pc EXCEPT ![c] = "assign"]
                  /\ unready' = unready \cup {h}
                  /\ err' = [err EXCEPT ![h] = [kind |-> "network", cause |-> 0]]
      BY <2>1 DEF Open
    <3>1. /\ UNCHANGED <<op, outcome>>
          /\ \/ pc'[c] \in {"send", "assign"} /\ UNCHANGED <<err, unready>>
             \/ pc'[c] = "assign" /\ unready' = unready \cup {h} /\ err'[h].kind # "none"
      BY <1>0, <2>1, <3>0 DEF Open, TypeOK
    <3>2. \A d \in Callers : d # c => /\ pc'[d] = pc[d] /\ pc[d] = "idle" /\ mine'[d] = mine[d] /\ mine[d] # h
      BY <1>0, <1>4, <2>1, <3>0, <3>1, InsideAlone, OthersStay DEF Open, ReportInv
    <3>3. mine'[c] = h /\ h \notin unready /\ \A g \in Handles : heap'[g] = "unused" => heap[g] = "unused" /\ g # h
      BY <1>0, <3>0, <3>1 DEF TypeOK, ReportInv
    <3>4. ConnectReportsFailure'
      BY <3>0, <3>1, <3>2, <3>3 DEF ReportInv, ConnectReportsFailure
    <3>5. \A g \in Handles : heap'[g] = "unused" => g \notin unready' /\ \A d \in Callers : mine'[d] # g
      BY <3>0, <3>1, <3>2, <3>3 DEF ReportInv
    <3> QED
      BY <3>0, <3>1, <3>2, <3>3, <3>4, <3>5 DEF ReportInv
  <2>2. CASE Assign(c)
    <3>1. UNCHANGED <<heap, err, mine, unready>> /\ pc[c] = "assign" /\ op[c] = "config"
      BY <2>0, <2>2 DEF Assign, Place
    <3>2. /\ pc'[c] \in {"close", "send", "idle"}
          /\ pc'[c] # "close" => err[mine[c]].kind = "none"
      BY <1>0, <2>2 DEF Assign, Finish, TypeOK
    <3>3. pc'[c] # "close" => mine[c] \notin unready
      BY <3>1, <3>2 DEF ReportInv, SetupPhases
    <3> QED
      BY <1>4, <3>1, <3>2, <3>3, ReportAlone DEF SetupPhases
  <2>3. CASE Send(c)
    <3>1. PICK h \in Handles : h = Target(c) /\ Live(h)
      BY <1>0, <2>3, TargetType, LiveIsHandle DEF Send
    <3>2. /\ UNCHANGED <<heap, op>> /\ pc[c] = "send" /\ mine'[c] = h
          /\ \/ pc'[c] = "recv" /\ UNCHANGED unready
             \/ /\ pc'[c] = "return" /\ err'[h].kind # "none"
                /\ unready' = IF op[c] \in SetupPhases THEN unready \cup {h} ELSE unready
      BY <1>0, <2>3, <3>1 DEF Send, SetupFailed, TypeOK
    <3>3. op[c] \in SetupPhases => mine[c] = h /\ mine[c] \notin unready
      BY <2>0, <3>1, <3>2 DEF Place, Target, SetupPhases, VmOperations, ReportInv
    <3> QED
      BY <1>4, <3>1, <3>2, <3>3, ReportAlone
  <2>4. CASE CachedUuid(c)
    <3>1. /\ UNCHANGED <<heap, op, unready>> /\ pc'[c] = "return" /\ op[c] = "uuid" /\ Live(mine'[c])
      BY <1>0, <2>4 DEF CachedUuid, TypeOK, Live
    <3> QED
      BY <1>4, <3>1, ReportAlone DEF SetupPhases
  <2>5. CASE Receive(c) \/ ReceiveFails(c)
    <3>1. PICK h \in Handles : h = mine[c]
      BY <1>0, <2>5, LiveIsHandle DEF Receive, ReceiveFails, TypeOK
    <3>2. /\ UNCHANGED <<heap, op, mine>> /\ pc[c] = "recv"
          /\ \/ pc'[c] \in {"send", "return"} /\ UNCHANGED unready
             \/ /\ pc'[c] = "return" /\ err'[h].kind # "none"
                /\ unready' = IF op[c] \in SetupPhases THEN unready \cup {h} ELSE unready
      BY <1>0, <2>5, <3>1 DEF Receive, ReceiveFails, SetupFailed, TypeOK
    <3>3. op[c] \in SetupPhases => mine[c] \notin unready
      BY <3>2 DEF ReportInv
    <3> QED
      BY <1>4, <3>1, <3>2, <3>3, ReportAlone
  <2>6. CASE \/ ReturnExecute(c) \/ ReturnUuid(c) \/ ReturnCompile(c) \/ ReturnStep(c)
             \/ ReturnBind(c) \/ ReturnFinalize(c)
    <3>1. /\ UNCHANGED <<heap, op, mine, unready>> /\ pc'[c] = "idle"
          /\ outcome'[c].op = op[c] /\ op[c] # "connect"
      BY <1>0, <2>6 DEF ReturnExecute, ReturnUuid, ReturnCompile, ReturnStep, ReturnBind, ReturnFinalize,
         Finish, Throw, Api, SetupPhases, TypeOK
    <3> QED
      BY <1>4, <3>1, ReportAlone
  <2>7. CASE ReturnConfig(c)
    <3>1. UNCHANGED <<heap, err, op, mine, unready>> /\ pc[c] = "return" /\ pc'[c] = "assign" /\ op[c] = "config"
      BY <1>0, <2>7 DEF ReturnConfig, TypeOK
    <3>2. mine[c] \in unready => err[mine[c]].kind # "none"
      BY <3>1 DEF ReportInv, SetupPhases
    <3> QED
      BY <1>4, <3>1, <3>2, ReportAlone DEF SetupPhases
  <2>8. CASE ReturnPubSubOnly(c)
    <3>1. /\ UNCHANGED <<heap, err, op, mine, unready>> /\ pc[c] = "return" /\ op[c] = "pubsubOnly"
          /\ pc'[c] = "close" \/ (pc'[c] = "idle" /\ ~IsError)
      BY <1>0, <2>8 DEF ReturnPubSubOnly, Finish, TypeOK
    <3>2. mine[c] \in unready => err[mine[c]].kind # "none"
      BY <3>1 DEF ReportInv, SetupPhases
    <3>3. mine[c] = connection
      BY <2>0, <3>1 DEF Place, VmOperations
    <3> QED
      BY <1>4, <3>1, <3>2, <3>3, ReportAlone DEF IsError
  <2>9. CASE Close(c)
    <3>1. /\ UNCHANGED <<mine, op, unready, outcome>> /\ pc'[c] = "clear" /\ pc[c] = "close"
          /\ \A h \in Handles : heap'[h] = "unused" => heap[h] = "unused"
      BY <1>0, <2>9 DEF Close, TypeOK
    <3>2. \A d \in Callers : d # c => pc'[d] = pc[d] /\ pc[d] = "idle"
      BY <1>0, <1>4, <3>1, InsideAlone, OthersStay
    <3> QED
      BY <3>1, <3>2 DEF ReportInv, ConnectReportsFailure
  <2>10. CASE Clear(c)
    <3>1. /\ UNCHANGED <<heap, op, mine, unready>> /\ pc[c] = "clear" /\ pc'[c] = "idle"
          /\ outcome'[c].op = Api(op[c])
          /\ outcome'[c].status = IF op[c] = "disconnect" THEN "value" ELSE "unhandled"
      BY <1>0, <2>10 DEF Clear, Finish, TypeOK
    <3> QED
      BY <1>4, <3>1, ReportAlone DEF Api, SetupPhases
  <2>11. CASE Crash(c)
    <3>1. UNCHANGED <<heap, op, mine, unready>> /\ pc'[c] = "crashed"
      BY <1>0, <2>11 DEF Crash, TypeOK
    <3> QED
      BY <1>4, <3>1, ReportAlone
  <2> QED
    BY <1>4, <2>1, <2>2, <2>3, <2>4, <2>5, <2>6, <2>7, <2>8, <2>9, <2>10, <2>11 DEF Continue
<1> QED
  BY <1>1, <1>2, <1>3, <1>4 DEF Next

(* For callers that take turns, a connect() that returns normally has a    *)
(* socket that was connected and none of whose commands was lost or        *)
(* answered with an error, however many connections, errors and VMs came   *)
(* before it.                                                              *)
THEOREM ConnectsReportFailure == OneAtATime => (Spec => []ConnectReportsFailure)
<1> SUFFICES ASSUME OneAtATime PROVE Spec => []ConnectReportsFailure
  OBVIOUS
<1>1. Init => ReportInv
  BY ConnectionAssumption DEF Init, ReportInv, ConnectReportsFailure, NoOutcome
<1>2. SInv /\ ReportInv /\ [Next]_vars => ReportInv'
  BY ReportStep
<1>3. ReportInv => ConnectReportsFailure
  BY DEF ReportInv
<1> QED
  BY <1>1, <1>2, <1>3, StructsInductive, PTL DEF Spec
=============================================================================
