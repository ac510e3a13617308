---------------------------- MODULE PubSubProofs ----------------------------
(***************************************************************************)
(* Notifications, for any number of callers, channels, observers and       *)
(* messages.                                                               *)
(***************************************************************************)
EXTENDS PubSub, SequenceTheorems, WellFoundedInduction, TLAPS

Observer == [channel : Names, since : Nat, got : Seq(Channels)]

(* A callback under way has a notification to hand on.                     *)
LoopHasMessage == InLoop => handled # <<>> /\ loop.next >= 1

(* Only a command replaces the error of a reader that has ended, and what  *)
(* a call leaves there later does not bring it back.                       *)
EndIsRecorded == reader = "ended" => err = "reader" \/ masked

IInv ==
  /\ TypeOK
  /\ LoopHasMessage
  /\ EndIsRecorded

-----------------------------------------------------------------------------
(* What is read first moves to the end of what was handled.                *)
LEMMA MoveHead ==
  ASSUME NEW S, NEW h \in Seq(S), NEW w \in Seq(S), w # <<>>
  PROVE  /\ Tail(w) \in Seq(S) /\ Append(h, Head(w)) \in Seq(S)
         /\ Append(h, Head(w)) # <<>>
  OBVIOUS

LEMMA NothingIsSeq ==
  ASSUME NEW S
  PROVE  <<>> \in Seq(S)
  OBVIOUS

LEMMA InitIInv == Init => IInv
<1> SUFFICES ASSUME Init PROVE IInv
  OBVIOUS
<1>1. loop \in [next : Nat, size : Nat] /\ ~InLoop
  BY DEF Init, InLoop, NoLoop
<1>2. observers \in Seq([channel : Names, since : Nat, got : Seq(Channels)])
  BY NothingIsSeq DEF Init
<1>3. wire \in Seq(Channels) /\ handled \in Seq(Channels)
  BY NothingIsSeq DEF Init
<1>4. pc \in [Callers -> {"idle", "listen", "add"}] /\ want \in [Callers -> Names] /\ listened \subseteq Names
  BY DEF Init, Names
<1>5. TypeOK
  BY <1>1, <1>2, <1>3, <1>4 DEF Init, TypeOK
<1>6. LoopHasMessage
  BY <1>1 DEF Init, LoopHasMessage
<1>7. EndIsRecorded
  BY DEF Init, EndIsRecorded
<1> QED
  BY <1>5, <1>6, <1>7 DEF IInv

-----------------------------------------------------------------------------
LEMMA ConnectionIInv ==
  ASSUME IInv, Connect \/ Disconnect
  PROVE  IInv'
<1> USE DEF IInv
<1>1. CASE Connect
  <2>1. TypeOK'
    <3>1. wire' \in Seq(Channels) /\ connects' \in Nat /\ listened' \subseteq Names
      BY <1>1, NothingIsSeq DEF Connect, TypeOK
    <3>2. conn' \in BOOLEAN /\ masked' \in BOOLEAN /\ pubsubfd' \in BOOLEAN
      BY <1>1 DEF Connect
    <3>3. reader' = "none" /\ err' = "none"
          /\ UNCHANGED <<orphans, pc, want, handled, observers, loop, fate>>
      BY <1>1 DEF Connect
    <3> QED
      BY <3>1, <3>2, <3>3 DEF TypeOK, Names
  <2>2. LoopHasMessage'
    BY <1>1 DEF Connect, LoopHasMessage, InLoop
  <2> QED
    BY <1>1, <2>1, <2>2 DEF Connect, EndIsRecorded
<1>2. CASE Disconnect
  <2>1. TypeOK'
    BY <1>2, NothingIsSeq DEF Disconnect, TypeOK, Names
  <2>2. LoopHasMessage'
    BY <1>2 DEF Disconnect, LoopHasMessage, InLoop
  <2> QED
    BY <1>2, <2>1, <2>2 DEF Disconnect, EndIsRecorded
<1> QED
  BY <1>1, <1>2

LEMMA ListenIInv ==
  ASSUME IInv, NEW c \in Callers, NEW ch \in Names, Listen(c, ch)
  PROVE  IInv'
<1> USE DEF IInv
<1>1. UNCHANGED <<connection, err, masked, reader, stream, observers, loop, fate>>
  BY DEF Listen
<1>2. TypeOK'
  BY <1>1 DEF Listen, TypeOK, Names, connection, stream
<1> QED
  BY <1>1, <1>2
     DEF connection, stream, LoopHasMessage, InLoop, EndIsRecorded

(* The answers to LISTEN and what internal_setup_pubsub makes of them.     *)
LEMMA CommandIInv ==
  ASSUME IInv, NEW c \in Callers,
         ListenFails(c) \/ AlreadySetUp(c) \/ Setup(c) \/ SetupSilent(c) \/ SetupFails(c)
  PROVE  IInv'
<1> USE DEF IInv
<1>1. want[c] \in Names
  BY DEF TypeOK
<1>2. Command(c) /\ UNCHANGED <<connects, conn, orphans, want, observers, loop, fate>>
  BY DEF ListenFails, AlreadySetUp, Setup, SetupSilent, SetupFails, Command
<1>3. masked' \in BOOLEAN /\ (masked' <=> masked \/ err = "reader")
  BY <1>2 DEF Command, ErrorIsCleared, TypeOK
<1>4. Succeeds(c) \/ Throws(c)
  BY DEF ListenFails, AlreadySetUp, Setup, SetupSilent, SetupFails
<1>5. pc' \in [Callers -> {"idle", "listen", "add"}] /\ err' \in {"none", "call", "reader"}
  BY <1>4 DEF Succeeds, Throws, TypeOK
<1>6. LoopHasMessage'
  BY <1>2 DEF ListenFails, AlreadySetUp, Setup, SetupSilent, SetupFails, stream, LoopHasMessage, InLoop
<1>7. EndIsRecorded'
  <2>1. reader' = reader \/ reader' = "running"
    BY DEF ListenFails, AlreadySetUp, Setup, SetupSilent, SetupFails
  <2> QED
    BY <1>3, <2>1 DEF EndIsRecorded
<1>8. TypeOK'
  <2>1. listened' \subseteq Names
    BY <1>1 DEF ListenFails, AlreadySetUp, Setup, SetupSilent, SetupFails, Succeeds, TypeOK, Names
  <2>2. pubsubfd' \in BOOLEAN /\ reader' \in {"none", "running", "stuck", "ended"}
        /\ (reader' # "none" => pubsubfd')
    <3>1. CASE ListenFails(c) \/ AlreadySetUp(c) \/ Setup(c)
      BY <3>1 DEF ListenFails, AlreadySetUp, Setup, TypeOK
    <3>2. CASE SetupSilent(c) \/ SetupFails(c)
      BY <3>2 DEF SetupSilent, SetupFails, TypeOK
    <3> QED
      BY <3>1, <3>2
  <2>3. wire' \in Seq(Channels) /\ handled' = handled
    BY NothingIsSeq DEF ListenFails, AlreadySetUp, Setup, SetupSilent, SetupFails, stream, TypeOK
  <2> QED
    BY <1>2, <1>3, <1>5, <2>1, <2>2, <2>3 DEF TypeOK, Names
<1> QED
  BY <1>6, <1>7, <1>8

(* A command of anybody else.                                              *)
LEMMA OtherIInv ==
  ASSUME IInv, OtherCommand
  PROVE  IInv'
<1> USE DEF IInv
<1>1. UNCHANGED <<connection, reader, calls, stream, observers, loop, fate>>
      /\ err' \in {"none", "call"}
  BY DEF OtherCommand
<1>2. masked' \in BOOLEAN /\ (masked' <=> masked \/ err = "reader")
  BY DEF OtherCommand, ErrorIsCleared, TypeOK
<1>3. TypeOK'
  BY <1>1, <1>2 DEF TypeOK, Names, connection, calls, stream
<1>4. LoopHasMessage' /\ EndIsRecorded'
  BY <1>1, <1>2 DEF LoopHasMessage, InLoop, EndIsRecorded, stream
<1> QED
  BY <1>3, <1>4

LEMMA AddObserverIInv ==
  ASSUME IInv, NEW c \in Callers, AddObserver(c)
  PROVE  IInv'
<1> USE DEF IInv
<1>1. UNCHANGED <<connection, err, masked, reader, want, stream, loop, fate>>
  BY DEF AddObserver
<1>2. [channel |-> want[c], since |-> Len(handled), got |-> <<>>] \in Observer
  BY DEF TypeOK, Observer
<1>3. PICK o \in Observer : observers' = Append(observers, o)
  BY <1>2 DEF AddObserver
<1>4. observers' \in Seq(Observer)
  BY <1>3 DEF TypeOK, Observer
<1>5. TypeOK'
  BY <1>1, <1>4 DEF AddObserver, TypeOK, Names, Observer, connection, stream
<1> QED
  BY <1>1, <1>5
     DEF connection, stream, LoopHasMessage, InLoop, EndIsRecorded

-----------------------------------------------------------------------------
LEMMA PublishIInv ==
  ASSUME IInv, NEW ch \in Channels, Publish(ch)
  PROVE  IInv'
<1> USE DEF IInv
<1>1. UNCHANGED <<connection, err, masked, reader, calls, handled, observers, loop, fate>>
  BY DEF Publish
<1>2. wire' \in Seq(Channels)
  BY DEF Publish, TypeOK
<1>3. TypeOK'
  BY <1>1, <1>2 DEF TypeOK, Names, connection, calls
<1> QED
  BY <1>1, <1>3
     DEF connection, calls, LoopHasMessage, InLoop, EndIsRecorded

LEMMA ReadMessageIInv ==
  ASSUME IInv, ReadMessage
  PROVE  IInv'
<1> USE DEF IInv
<1>1. UNCHANGED <<connection, err, masked, reader, calls, observers, fate>>
  BY DEF ReadMessage
<1>2. /\ wire' = Tail(wire) /\ handled' = Append(handled, Head(wire))
      /\ wire' \in Seq(Channels) /\ handled' \in Seq(Channels) /\ handled' # <<>>
  <2>1. handled \in Seq(Channels) /\ wire \in Seq(Channels) /\ wire # <<>>
    BY DEF ReadMessage, TypeOK
  <2>2. wire' = Tail(wire) /\ handled' = Append(handled, Head(wire))
    BY DEF ReadMessage
  <2> QED
    BY <2>1, <2>2, MoveHead
<1>3. loop' \in [next : Nat, size : Nat] /\ loop'.next >= 1
  BY DEF ReadMessage, TypeOK
<1>4. TypeOK'
  BY <1>1, <1>2, <1>3 DEF TypeOK, Names, connection, calls
<1>5. LoopHasMessage'
  BY <1>2, <1>3 DEF LoopHasMessage
<1> QED
  BY <1>1, <1>4, <1>5
     DEF connection, calls, EndIsRecorded

LEMMA ReadTogetherIInv ==
  ASSUME IInv, ReadTogether
  PROVE  IInv'
<1> USE DEF IInv
<1>1. UNCHANGED <<connection, err, masked, calls, handled, observers, loop>>
      /\ reader' = "stuck" /\ reader # "none" /\ fate' \in {"running", "undefined"}
  BY DEF ReadTogether, Readable
<1>2. wire' \in Seq(Channels)
  BY DEF ReadTogether, TypeOK
<1>3. TypeOK'
  BY <1>1, <1>2 DEF TypeOK, Names, connection, calls
<1> QED
  BY <1>1, <1>3
     DEF connection, calls, LoopHasMessage, InLoop, EndIsRecorded

LEMMA ReaderEndsIInv ==
  ASSUME IInv, ReaderEnds
  PROVE  IInv'
<1> USE DEF IInv
<1>1. UNCHANGED <<connection, masked, calls, stream, observers, loop>>
      /\ reader' = "ended" /\ err' = "reader" /\ reader # "none"
  BY DEF ReaderEnds, Readable
<1>2. TypeOK'
  BY <1>1 DEF ReaderEnds, TypeOK, Names, connection, calls, stream
<1> QED
  BY <1>1, <1>2
     DEF connection, calls, stream, LoopHasMessage, InLoop, EndIsRecorded

LEMMA CallObserverIInv ==
  ASSUME IInv, CallObserver
  PROVE  IInv'
<1> USE DEF IInv
<1>1. UNCHANGED <<connection, err, masked, reader, calls, stream, fate>>
  BY DEF CallObserver
<1>2. InLoop /\ loop.next \in 1..Len(observers) /\ handled # <<>>
  BY DEF CallObserver, LoopHasMessage, TypeOK
<1>3. loop' \in [next : Nat, size : Nat] /\ loop'.next >= 1
  <2>1. loop \in [next : Nat, size : Nat] /\ loop' = [loop EXCEPT !.next = loop.next + 1]
    BY DEF CallObserver, TypeOK
  <2>2. loop.next \in Nat
    BY <2>1
  <2> QED
    BY <2>1, <2>2
<1>4. observers' \in Seq(Observer)
  <2> DEFINE payload == handled[Len(handled)]
             old     == observers[loop.next]
             got     == IF old.channel = payload THEN Append(old.got, payload) ELSE old.got
             new     == [old EXCEPT !.got = got]
  <2>1. payload \in Channels
    BY <1>2 DEF TypeOK
  <2>2. observers \in Seq(Observer) /\ old \in Observer
    <3>1. observers \in Seq(Observer)
      BY DEF TypeOK, Observer
    <3> QED
      BY <1>2, <3>1
  <2>3. got \in Seq(Channels)
    BY <2>1, <2>2 DEF Observer
  <2>4. new \in Observer
    BY <2>2, <2>3 DEF Observer
  <2>5. observers' = [observers EXCEPT ![loop.next] = new]
    BY DEF CallObserver
  <2>6. PICK o \in Observer : observers' = [observers EXCEPT ![loop.next] = o]
    BY <2>4, <2>5
  <2> QED
    BY <1>2, <2>2, <2>6
<1>5. TypeOK'
  BY <1>1, <1>3, <1>4 DEF TypeOK, Names, Observer, connection, calls, stream
<1>6. LoopHasMessage'
  BY <1>1, <1>2, <1>3 DEF LoopHasMessage, stream
<1> QED
  BY <1>1, <1>5, <1>6
     DEF connection, calls, stream, EndIsRecorded

(* The callback returns or the process ends: no property can be disturbed. *)
LEMMA QuietIInv ==
  ASSUME IInv, CallbackReturns \/ Modification \/ Crash
  PROVE  IInv'
<1> USE DEF IInv
<1>1. UNCHANGED <<connection, err, masked, reader, calls, stream, observers>>
  BY DEF CallbackReturns, Modification, Crash
<1>2. loop' \in [next : Nat, size : Nat] /\ (loop' = NoLoop \/ loop' = loop)
  BY DEF CallbackReturns, Modification, Crash, TypeOK, NoLoop
<1>3. fate' \in {"running", "modification", "decoding", "undefined", "freed"}
  BY DEF CallbackReturns, Modification, Crash, TypeOK
<1>4. TypeOK'
  BY <1>1, <1>2, <1>3 DEF TypeOK, Names, connection, calls, stream
<1>5. LoopHasMessage'
  BY <1>1, <1>2 DEF LoopHasMessage, InLoop, stream
<1> QED
  BY <1>1, <1>4, <1>5
     DEF connection, calls, stream, EndIsRecorded

-----------------------------------------------------------------------------
(* The inductive invariant, for any interleaving of callers and reader.    *)
THEOREM Inductive == Spec => []IInv
<1>1. IInv /\ [Next]_vars => IInv'
  <2> SUFFICES ASSUME IInv, [Next]_vars PROVE IInv'
    OBVIOUS
  <2>1. CASE UNCHANGED vars
    <3>1. TypeOK'
      BY <2>1 DEF vars, IInv, TypeOK
    <3> QED
      BY <2>1, <3>1
         DEF vars, IInv, LoopHasMessage, InLoop, EndIsRecorded
  <2>2. CASE \E c \in Callers :
               \/ \E ch \in Channels \cup {AllTables} : Listen(c, ch)
               \/ ListenFails(c) \/ AlreadySetUp(c) \/ Setup(c) \/ SetupSilent(c)
               \/ SetupFails(c) \/ AddObserver(c)
    BY <2>2, ListenIInv, CommandIInv, AddObserverIInv DEF Names
  <2> QED
    BY <2>1, <2>2, ConnectionIInv, OtherIInv, PublishIInv, ReadMessageIInv, ReadTogetherIInv, ReaderEndsIInv,
       CallObserverIInv, QuietIInv DEF Next, Reader
<1> QED
  BY <1>1, InitIInv, PTL DEF Spec

(* Connection, reader, subscriptions and callback are well typed; a        *)
(* connection has a reader only with a pub/sub socket.                     *)
THEOREM TypeCorrect == Spec => []TypeOK
<1>1. IInv => TypeOK
  BY DEF IInv
<1> QED
  BY <1>1, Inductive, PTL

(* The end of pubsub_thread bars the connection until a command clears     *)
(* the error: masked is set by nothing else.                               *)
THEOREM EndsAreNoticed == Spec => []EndIsNoticed
<1>1. IInv => EndIsNoticed
  BY DEF IInv, EndIsRecorded, EndIsNoticed
<1> QED
  BY <1>1, Inductive, PTL

-----------------------------------------------------------------------------
(* What an observer has heard.  The recursive function of Heard is what    *)
(* its recurrence says; the proofs are by induction on its length.         *)

(* Induction with a set in place of a predicate.                           *)
LEMMA Induction ==
  ASSUME NEW S, 0 \in S, \A n \in Nat : n \in S => n + 1 \in S
  PROVE  Nat \subseteq S
<1> DEFINE R == {ss \in Nat \X Nat : ss[1] < ss[2]}
           T == Nat \ S
<1>1. IsWellFoundedOn(R, Nat)
  <2>1. R = OpToRel(<, Nat)
    BY Zenon DEF OpToRel
  <2> QED
    BY <2>1, NatLessThanWellFounded, Zenon
<1> SUFFICES ASSUME T # {} PROVE FALSE
  OBVIOUS
<1>2. PICK x \in T : \A y \in T : ~(<<y, x>> \in R)
  BY <1>1, WFMin, Zenon
<1>3. x \in Nat /\ x # 0 /\ x - 1 \in Nat /\ x - 1 < x
  OBVIOUS
<1>4. <<x - 1, x>> \in R
  <2>1. \A a, b \in Nat : a < b => <<a, b>> \in R
    OBVIOUS
  <2> QED
    BY <1>3, <2>1
<1> HIDE DEF R
<1>5. x - 1 \notin T
  BY <1>2, <1>4
<1> QED
  BY <1>3, <1>5

(* h holds what has been heard of ch after each notification.              *)
Hears(h, s, from, to, ch) ==
  /\ h = [n \in from..to |-> h[n]]
  /\ h[from] = <<>>
  /\ \A n \in from + 1 .. to : h[n] = IF s[n] = ch THEN Append(h[n - 1], ch) ELSE h[n - 1]

LEMMA HearsMore ==
  ASSUME NEW s, NEW ch, NEW from \in Nat, NEW to \in Nat, from <= to,
         NEW h, Hears(h, s, from, to, ch)
  PROVE  \E g : /\ Hears(g, s, from, to + 1, ch)
                /\ g[to + 1] = IF s[to + 1] = ch THEN Append(h[to], ch) ELSE h[to]
<1> DEFINE x == IF s[to + 1] = ch THEN Append(h[to], ch) ELSE h[to]
           g == [n \in from..(to + 1) |-> IF n = to + 1 THEN x ELSE h[n]]
<1>1. g[to + 1] = x /\ \A n \in from..to : g[n] = h[n]
  <2>1. to + 1 \in from..(to + 1) /\ \A n \in from..to : n \in from..(to + 1) /\ n # to + 1
    OBVIOUS
  <2> QED
    BY <2>1, Zenon
<1>2. g = [n \in from..(to + 1) |-> g[n]]
  BY Zenon
<1> HIDE DEF g
<1>3. g[from] = <<>>
  <2>1. from \in from..to
    OBVIOUS
  <2> QED
    BY <1>1, <2>1 DEF Hears
<1>4. ASSUME NEW n \in from + 1 .. to + 1
      PROVE  g[n] = IF s[n] = ch THEN Append(g[n - 1], ch) ELSE g[n - 1]
  <2>1. CASE n = to + 1
    <3>1. n - 1 = to /\ to \in from..to
      BY <2>1
    <3> QED
      BY <1>1, <2>1, <3>1
  <2>2. CASE n \in from + 1 .. to
    <3>1. n \in from..to /\ n - 1 \in from..to
      BY <2>2
    <3>2. g[n] = h[n] /\ g[n - 1] = h[n - 1]
      BY <1>1, <3>1
    <3> QED
      BY <2>2, <3>2 DEF Hears
  <2>3. n = to + 1 \/ n \in from + 1 .. to
    OBVIOUS
  <2> QED
    BY <2>1, <2>2, <2>3
<1> QED
  BY <1>1, <1>2, <1>3, <1>4 DEF Hears

LEMMA HearsExists ==
  ASSUME NEW s, NEW ch, NEW from \in Nat, NEW to \in Nat, from <= to
  PROVE  \E h : Hears(h, s, from, to, ch)
<1> DEFINE S == {n \in Nat : \E h : Hears(h, s, from, from + n, ch)}
<1>1. 0 \in S
  <2> DEFINE h == [n \in from..(from + 0) |-> <<>>]
  <2>1. from + 0 = from /\ from \in from..(from + 0) /\ from + 1 .. from + 0 = {}
    OBVIOUS
  <2>2. h = [n \in from..(from + 0) |-> h[n]] /\ h[from] = <<>>
    BY <2>1, Zenon
  <2> HIDE DEF h
  <2>3. Hears(h, s, from, from + 0, ch)
    BY <2>1, <2>2 DEF Hears
  <2> QED
    BY <2>3
<1>2. ASSUME NEW n \in Nat, n \in S PROVE n + 1 \in S
  <2>1. PICK h : Hears(h, s, from, from + n, ch)
    BY <1>2
  <2>2. from + n \in Nat /\ from <= from + n /\ from + (n + 1) = (from + n) + 1
    OBVIOUS
  <2>3. \E g : Hears(g, s, from, (from + n) + 1, ch)
    BY <2>1, <2>2, HearsMore
  <2> QED
    BY <2>2, <2>3
<1>3. Nat \subseteq S
  <2> HIDE DEF S
  <2> QED
    BY <1>1, <1>2, Induction
<1>4. to - from \in Nat /\ from + (to - from) = to
  OBVIOUS
<1> QED
  BY <1>3, <1>4

LEMMA HearsUnique ==
  ASSUME NEW s, NEW ch, NEW from \in Nat, NEW to \in Nat, from <= to,
         NEW h, Hears(h, s, from, to, ch), NEW g, Hears(g, s, from, to, ch)
  PROVE  h[to] = g[to]
<1> DEFINE S == {n \in Nat : from + n <= to => h[from + n] = g[from + n]}
<1>1. 0 \in S
  <2>1. from + 0 = from
    OBVIOUS
  <2> QED
    BY <2>1 DEF Hears
<1>2. ASSUME NEW n \in Nat, n \in S PROVE n + 1 \in S
  <2> SUFFICES ASSUME from + (n + 1) <= to PROVE h[from + (n + 1)] = g[from + (n + 1)]
    OBVIOUS
  <2> DEFINE m == from + (n + 1)
  <2>1. m \in from + 1 .. to /\ m - 1 = from + n /\ from + n <= to
    OBVIOUS
  <2>2. h[from + n] = g[from + n]
    BY <1>2, <2>1
  <2> HIDE DEF m
  <2>3. /\ h[m] = IF s[m] = ch THEN Append(h[m - 1], ch) ELSE h[m - 1]
        /\ g[m] = IF s[m] = ch THEN Append(g[m - 1], ch) ELSE g[m - 1]
    BY <2>1 DEF Hears
  <2>4. h[m] = g[m]
    BY <2>1, <2>2, <2>3
  <2> QED
    BY <2>4 DEF m
<1>3. Nat \subseteq S
  <2> HIDE DEF S
  <2> QED
    BY <1>1, <1>2, Induction
<1>4. to - from \in Nat /\ from + (to - from) = to
  OBVIOUS
<1> QED
  BY <1>3, <1>4

LEMMA HeardIs ==
  ASSUME NEW s, NEW ch, NEW from \in Nat, NEW to \in Nat, from <= to,
         NEW h, Hears(h, s, from, to, ch)
  PROVE  Heard(s, from, to, ch) = h[to]
<1> DEFINE Body(f, n) == IF n = from THEN <<>>
                         ELSE IF s[n] = ch THEN Append(f[n - 1], ch) ELSE f[n - 1]
           Eq(f) == f = [n \in from..to |-> Body(f, n)]
           f == CHOOSE x : Eq(x)
<1>1. Eq(h)
  <2>1. ASSUME NEW n \in from..to PROVE h[n] = Body(h, n)
    <3>1. n = from \/ n \in from + 1 .. to
      OBVIOUS
    <3>2. n \in from + 1 .. to => n # from
      OBVIOUS
    <3> QED
      BY <3>1, <3>2 DEF Hears
  <2>2. h = [n \in from..to |-> h[n]]
    BY DEF Hears
  <2> HIDE DEF Body
  <2> QED
    BY <2>1, <2>2
<1>2. Heard(s, from, to, ch) = f[to]
  BY Zenon DEF Heard
<1>3. Eq(f)
  BY <1>1, Zenon
<1> HIDE DEF f
<1>4. Hears(f, s, from, to, ch)
  <2>1. DOMAIN f = from..to /\ f = [n \in from..to |-> f[n]]
    BY <1>3, Zenon
  <2>2. \A n \in from..to : f[n] = Body(f, n)
    BY <1>3, Zenon
  <2>3. from \in from..to /\ \A n \in from + 1 .. to : n \in from..to /\ n # from
    OBVIOUS
  <2> QED
    BY <2>1, <2>2, <2>3 DEF Hears
<1>5. f[to] = h[to]
  BY <1>4, HearsUnique
<1> QED
  BY <1>2, <1>5

(* Nothing at first; each notification of the channel adds one; and only   *)
(* the notifications in between matter.                                    *)
LEMMA HeardNone ==
  ASSUME NEW s, NEW ch, NEW n \in Nat
  PROVE  Heard(s, n, n, ch) = <<>>
<1>0. n <= n
  OBVIOUS
<1>1. PICK h : Hears(h, s, n, n, ch)
  BY <1>0, HearsExists, Zenon
<1>2. Heard(s, n, n, ch) = h[n]
  BY <1>0, <1>1, HeardIs, Zenon
<1> QED
  BY <1>1, <1>2 DEF Hears

LEMMA HeardMore ==
  ASSUME NEW s, NEW ch, NEW from \in Nat, NEW to \in Nat, from <= to
  PROVE  Heard(s, from, to + 1, ch) = IF s[to + 1] = ch THEN Append(Heard(s, from, to, ch), ch)
                                                        ELSE Heard(s, from, to, ch)
<1>1. PICK h : Hears(h, s, from, to, ch)
  BY HearsExists
<1>2. PICK g : /\ Hears(g, s, from, to + 1, ch)
               /\ g[to + 1] = IF s[to + 1] = ch THEN Append(h[to], ch) ELSE h[to]
  BY <1>1, HearsMore
<1>3. to + 1 \in Nat /\ from <= to + 1
  OBVIOUS
<1>4. Heard(s, from, to + 1, ch) = g[to + 1]
  BY <1>2, <1>3, HeardIs
<1>5. Heard(s, from, to, ch) = h[to]
  BY <1>1, HeardIs
<1> QED
  BY <1>2, <1>4, <1>5

LEMMA HeardSame ==
  ASSUME NEW s, NEW t, NEW ch, NEW from \in Nat, NEW to \in Nat, from <= to,
         \A n \in from + 1 .. to : s[n] = t[n]
  PROVE  Heard(s, from, to, ch) = Heard(t, from, to, ch)
<1>1. PICK h : Hears(h, s, from, to, ch)
  BY HearsExists
<1>2. Hears(h, t, from, to, ch)
  BY <1>1 DEF Hears
<1> QED
  BY <1>1, <1>2, HeardIs

-----------------------------------------------------------------------------
(* The observers, also while a callback is under way: those whose turn is  *)
(* still to come lack the last notification, the others have got all.      *)
Waits(k) == InLoop /\ loop.next <= k /\ k <= loop.size

UpTo(k) == IF Waits(k) THEN Len(handled) - 1 ELSE Len(handled)

Got(o, s, to) == o.since <= to /\ o.got = Heard(s, o.since, to, o.channel)

HeardOK ==
  /\ loop.size <= Len(observers)
  /\ \A k \in 1..Len(observers) : Got(observers[k], handled, UpTo(k))

(* Steps that leave the observers, the callback and what was handled.      *)
LEMMA HeardElsewhere ==
  ASSUME HeardOK, UNCHANGED <<handled, observers, loop>>
  PROVE  HeardOK'
  BY DEF HeardOK, Got, UpTo, Waits, InLoop

(* A new observer is not waited for, and has missed nothing.               *)
LEMMA AddObserverHeard ==
  ASSUME IInv, HeardOK, NEW c \in Callers, AddObserver(c)
  PROVE  HeardOK'
<1> DEFINE o == [channel |-> want[c], since |-> Len(handled), got |-> <<>>]
<1>1. observers' = Append(observers, o) /\ UNCHANGED <<handled, loop>>
  BY DEF AddObserver, stream
<1>2. o.since = Len(handled) /\ o.got = <<>>
  OBVIOUS
<1> HIDE DEF o
<1>3. observers \in Seq(Observer) /\ Len(handled) \in Nat /\ loop.size \in Nat
  BY DEF IInv, TypeOK, Observer
<1>4. /\ Len(observers) \in Nat /\ Len(observers') = Len(observers) + 1
      /\ observers'[Len(observers) + 1] = o
      /\ \A k \in 1..Len(observers) : observers'[k] = observers[k]
  <2>1. observers \in Seq(Observer \cup {o}) /\ o \in Observer \cup {o}
    BY <1>3
  <2> QED
    BY <1>1, <2>1
<1>5. loop.size <= Len(observers) /\ loop.size <= Len(observers')
  BY <1>3, <1>4 DEF HeardOK
<1>6. \A k : UpTo(k)' = UpTo(k)
  BY <1>1 DEF UpTo, Waits, InLoop
<1>7. UpTo(Len(observers) + 1) = Len(handled)
  BY <1>3, <1>4, <1>5 DEF UpTo, Waits
<1>8. Got(o, handled, Len(handled))
  BY <1>2, <1>3, HeardNone DEF Got
<1>9. ASSUME NEW k \in 1..Len(observers') PROVE Got(observers'[k], handled', UpTo(k)')
  <2>1. CASE k \in 1..Len(observers)
    BY <1>1, <1>4, <1>6, <2>1 DEF HeardOK
  <2>2. CASE k = Len(observers) + 1
    BY <1>1, <1>4, <1>6, <1>7, <1>8, <2>2
  <2> QED
    BY <1>4, <2>1, <2>2
<1> QED
  BY <1>1, <1>5, <1>9 DEF HeardOK

(* A notification is handled: all observers wait for it.                   *)
LEMMA ReadMessageHeard ==
  ASSUME IInv, HeardOK, ReadMessage
  PROVE  HeardOK'
<1> DEFINE n == Len(handled)
<1>1. /\ ~InLoop /\ observers' = observers
      /\ loop' = [next |-> 1, size |-> Len(observers)]
      /\ handled' = Append(handled, Head(wire))
  BY DEF ReadMessage
<1>2. handled \in Seq(Channels) /\ wire \in Seq(Channels) /\ wire # <<>>
  BY DEF IInv, TypeOK, ReadMessage
<1>3. n \in Nat /\ Len(handled') = n + 1 /\ \A k \in 1..n : handled'[k] = handled[k]
  BY <1>1, <1>2
<1>4. loop'.next = 1 /\ loop'.size = Len(observers) /\ InLoop'
  BY <1>1 DEF InLoop, NoLoop
<1>5. observers \in Seq(Observer) /\ Len(observers) \in Nat
  BY DEF IInv, TypeOK, Observer
<1>6. ASSUME NEW k \in 1..Len(observers)
      PROVE  Got(observers[k], handled', n)
  <2>1. UpTo(k) = n
    BY <1>1 DEF UpTo, Waits
  <2>2. Got(observers[k], handled, n)
    BY <2>1 DEF HeardOK
  <2>3. observers[k].since \in Nat
    <3>1. observers[k] \in Observer
      BY <1>5
    <3> QED
      BY <3>1 DEF Observer
  <2>4. observers[k].since <= n /\ \A m \in observers[k].since + 1 .. n : handled[m] = handled'[m]
    BY <1>3, <2>2, <2>3 DEF Got
  <2>5. Heard(handled, observers[k].since, n, observers[k].channel)
          = Heard(handled', observers[k].since, n, observers[k].channel)
    BY <1>3, <2>3, <2>4, HeardSame
  <2> QED
    BY <2>2, <2>5 DEF Got
<1>7. ASSUME NEW k \in 1..Len(observers) PROVE Waits(k)' /\ Len(handled') - 1 = n
  BY <1>3, <1>4, <1>5 DEF Waits
<1> QED
  BY <1>1, <1>4, <1>5, <1>6, <1>7 DEF HeardOK, UpTo

(* One observer is called, with the last notification.                     *)
LEMMA CallObserverHeard ==
  ASSUME IInv, HeardOK, CallObserver
  PROVE  HeardOK'
<1>0. PICK i : i = loop.next
  OBVIOUS
<1> DEFINE n == Len(handled)
           payload == handled[n]
           old == observers[i]
           got == IF old.channel = payload THEN Append(old.got, payload) ELSE old.got
           new == [old EXCEPT !.got = got]
<1>1. /\ InLoop /\ i <= Len(observers) /\ Len(observers) = loop.size
      /\ loop' = [loop EXCEPT !.next = i + 1] /\ handled' = handled
      /\ observers' = [observers EXCEPT ![i] = new]
  BY <1>0 DEF CallObserver, stream
<1>2. /\ observers \in Seq(Observer) /\ loop \in [next : Nat, size : Nat] /\ i >= 1
      /\ handled \in Seq(Channels) /\ n \in Nat /\ n - 1 \in Nat
  <2>1. observers \in Seq(Observer) /\ loop \in [next : Nat, size : Nat] /\ handled \in Seq(Channels)
    BY DEF IInv, TypeOK, Observer
  <2>2. i >= 1 /\ handled # <<>>
    BY <1>0, <1>1 DEF IInv, LoopHasMessage
  <2> QED
    BY <2>1, <2>2
<1>3. i \in 1..Len(observers) /\ Len(observers) \in Nat /\ i \in Nat
  BY <1>0, <1>1, <1>2
<1>4. old \in Observer
  BY <1>2, <1>3
<1>5. new.since = old.since /\ new.channel = old.channel /\ new.got = got
  BY <1>4 DEF Observer
<1> HIDE DEF new
<1>6. /\ Len(observers') = Len(observers) /\ observers'[i] = new
      /\ \A k \in 1..Len(observers) : k # i => observers'[k] = observers[k]
  BY <1>1, <1>2, <1>3
<1>7. loop'.next = i + 1 /\ loop'.size = loop.size /\ InLoop'
  <2>1. loop'.next = i + 1 /\ loop'.size = loop.size
    BY <1>1, <1>2
  <2>2. i + 1 # 0
    BY <1>3
  <2> QED
    BY <2>1, <2>2 DEF InLoop, NoLoop
<1>8. Got(new, handled, n)
  <2>1. Waits(i)
    BY <1>0, <1>1, <1>3 DEF Waits
  <2>2. Got(old, handled, n - 1)
    BY <1>3, <2>1 DEF HeardOK, UpTo
  <2>3. old.since \in Nat /\ old.since <= n - 1 /\ (n - 1) + 1 = n /\ old.since <= n
    BY <1>2, <1>4, <2>2 DEF Observer, Got
  <2>4. Heard(handled, old.since, (n - 1) + 1, old.channel) =
          IF handled[(n - 1) + 1] = old.channel
          THEN Append(Heard(handled, old.since, n - 1, old.channel), old.channel)
          ELSE Heard(handled, old.since, n - 1, old.channel)
    <3> HIDE DEF old, n
    <3> QED
      BY <1>2, <2>3, HeardMore
  <2>5. Heard(handled, old.since, n, old.channel) = got
    BY <2>2, <2>3, <2>4 DEF Got
  <2> QED
    BY <1>5, <2>3, <2>5 DEF Got
<1>9. ASSUME NEW k \in 1..Len(observers), k # i
      PROVE  (Waits(k)' <=> Waits(k)) /\ Got(observers[k], handled, UpTo(k))
  BY <1>0, <1>1, <1>2, <1>3, <1>7, <1>9 DEF HeardOK, Waits
<1>10. ~Waits(i)'
  BY <1>3, <1>7 DEF Waits
<1> HIDE DEF old, got, payload
<1>11. ASSUME NEW k \in 1..Len(observers') PROVE Got(observers'[k], handled', UpTo(k)')
  <2>1. CASE k = i
    BY <1>1, <1>6, <1>8, <1>10, <2>1 DEF UpTo
  <2>2. CASE k # i
    BY <1>1, <1>6, <1>9, <2>2 DEF UpTo
  <2> QED
    BY <2>1, <2>2
<1>12. loop'.size <= Len(observers')
  BY <1>1, <1>3, <1>6, <1>7
<1> QED
  BY <1>11, <1>12 DEF HeardOK

(* The callback returns when nobody waits any more.                        *)
LEMMA CallbackReturnsHeard ==
  ASSUME IInv, HeardOK, CallbackReturns
  PROVE  HeardOK'
<1>1. loop.next > Len(observers) /\ loop' = NoLoop /\ UNCHANGED <<handled, observers>>
  BY DEF CallbackReturns, stream
<1>2. observers \in Seq(Observer) /\ Len(observers) \in Nat /\ loop.next \in Nat
  BY DEF IInv, TypeOK, Observer
<1>3. ~InLoop' /\ loop'.size = 0
  BY <1>1 DEF InLoop, NoLoop
<1>4. ASSUME NEW k \in 1..Len(observers) PROVE ~Waits(k) /\ ~Waits(k)'
  BY <1>1, <1>2, <1>3 DEF Waits
<1> QED
  BY <1>1, <1>2, <1>3, <1>4 DEF HeardOK, UpTo

LEMMA HeardStep == IInv /\ HeardOK /\ [Next]_vars => HeardOK'
<1> SUFFICES ASSUME IInv, HeardOK, [Next]_vars PROVE HeardOK'
  OBVIOUS
<1>1. CASE \E c \in Callers : AddObserver(c)
  BY <1>1, AddObserverHeard
<1>2. CASE ReadMessage
  BY <1>2, ReadMessageHeard
<1>3. CASE CallObserver
  BY <1>3, CallObserverHeard
<1>4. CASE CallbackReturns
  BY <1>4, CallbackReturnsHeard
<1>5. CASE UNCHANGED <<handled, observers, loop>>
  BY <1>5, HeardElsewhere
<1>6. ASSUME Connect \/ Disconnect \/ OtherCommand \/ ReadTogether \/ Modification \/ ReaderEnds \/ Crash
      PROVE  UNCHANGED <<handled, observers, loop>>
  BY <1>6 DEF Connect, Disconnect, OtherCommand, ReadTogether, Modification, ReaderEnds, Crash, stream
<1>7. ASSUME NEW c \in Callers,
             (\E ch \in Channels \cup {AllTables} : Listen(c, ch))
               \/ ListenFails(c) \/ AlreadySetUp(c) \/ Setup(c) \/ SetupSilent(c)
               \/ SetupFails(c)
      PROVE  UNCHANGED <<handled, observers, loop>>
  BY <1>7 DEF Listen, ListenFails, AlreadySetUp, Setup, SetupSilent, SetupFails, Command, stream
<1>8. ASSUME NEW ch \in Channels, Publish(ch) PROVE UNCHANGED <<handled, observers, loop>>
  BY <1>8 DEF Publish
<1>9. CASE UNCHANGED vars
  BY <1>5, <1>9 DEF vars
<1>10. CASE Next
  BY <1>1, <1>2, <1>3, <1>4, <1>5, <1>6, <1>7, <1>8, <1>10 DEF Next, Reader
<1> QED
  BY <1>9, <1>10

(* Between two callbacks every observer of a channel or a table has got,   *)
(* once and in order, each notification of it handled since listen() added *)
(* it (the callback of setupPubSubCallback).                               *)
THEOREM EveryObserverHearsAll == Spec => []ObserversHearAll
<1>1. Init => HeardOK
  <2> SUFFICES ASSUME Init PROVE HeardOK
    OBVIOUS
  <2>1. Len(observers) = 0 /\ loop.size = 0
    BY DEF Init, NoLoop
  <2> QED
    BY <2>1 DEF HeardOK
<1>2. HeardOK => ObserversHearAll
  BY DEF HeardOK, Got, UpTo, ObserversHearAll, Waits
<1> QED
  BY <1>1, <1>2, HeardStep, Inductive, PTL DEF Spec
=============================================================================
