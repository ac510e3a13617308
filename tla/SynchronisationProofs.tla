----------------------- MODULE SynchronisationProofs -----------------------
(***************************************************************************)
(* The coroutines of the worker, for any number of runs and any connection *)
(* strings.                                                                *)
(***************************************************************************)
EXTENDS Synchronisation, TLAPS

(* A run that has not begun has launched and reported nothing.             *)
NotBegun ==
  \A t \in Tasks : t[1] > runs => task[t] = "none" /\ verdict[t[1]] = "none"

(* While doWork is under way its run has not reported, and the string is   *)
(* the one of this run.                                                    *)
Underway == at # "idle" => verdict[runs] = "none" /\ connectionString = input[runs]

(* Before the first function nothing is launched; before the second the    *)
(* first has found all that it needs.                                      *)
Progress ==
  /\ at = "selectLatest" => task[<<runs, "selectLatest">>] = "none"
  /\ at = "isRemoteEmpty" => /\ connectionString \in Good /\ certificate
                             /\ task[<<runs, "selectLatest">>] # "none"
  /\ at # "idle" => task[<<runs, "isRemoteEmpty">>] = "none"

IInv ==
  /\ TypeOK
  /\ NotBegun /\ Underway /\ Progress
  /\ OwnConnection /\ AllOrNothing

LEMMA InitIInv == Init => IInv
<1> SUFFICES ASSUME Init PROVE IInv
  OBVIOUS
<1>1. \A t \in Tasks : t[1] \in 1..MaxRuns
  BY DEF Tasks
<1>2. TypeOK
  <2>1. runs \in 0..MaxRuns
    BY SyncAssumption DEF Init
  <2>2. alive \in BOOLEAN /\ certificate \in BOOLEAN /\ at = "idle"
    BY DEF Init
  <2>3. /\ verdict \in [1..MaxRuns -> {"none", "success", "failure"}]
        /\ input \in [1..MaxRuns -> Good \cup Bad \cup {Null}]
    BY DEF Init
  <2>4. /\ connectionString \in Good \cup Bad \cup {Default}
        /\ task \in [Tasks -> {"none", "queued", "connecting", "asking", "done", "gone"}]
        /\ config \in [Tasks -> Good \cup {Default}]
    BY DEF Init
  <2> QED
    BY <2>1, <2>2, <2>3, <2>4 DEF TypeOK
<1>3. NotBegun /\ OwnConnection /\ AllOrNothing
  BY <1>1 DEF Init, NotBegun, OwnConnection, AllOrNothing
<1> QED
  BY <1>2, <1>3 DEF Init, IInv, Underway, Progress

(* The next run is new: nothing is known of it yet.                        *)
LEMMA NextRun ==
  ASSUME IInv, runs < MaxRuns
  PROVE  /\ runs + 1 \in 1..MaxRuns /\ verdict[runs + 1] = "none"
         /\ \A f \in Functions : task[<<runs + 1, f>>] = "none"
         /\ \A t \in Tasks : /\ t[1] \in 1..MaxRuns
                             /\ t[1] > runs => task[t] = "none" /\ verdict[t[1]] = "none"
<1>1. runs \in Nat /\ runs + 1 \in 1..MaxRuns /\ runs + 1 > runs
  BY SyncAssumption DEF IInv, TypeOK
<1>2. \A t \in Tasks : t[1] \in 1..MaxRuns
  BY DEF Tasks
<1>3. \A f \in Functions : <<runs + 1, f>> \in Tasks /\ <<runs + 1, f>>[1] = runs + 1
  BY <1>1 DEF Tasks
<1>4. \A f \in Functions : task[<<runs + 1, f>>] = "none" /\ verdict[runs + 1] = "none"
  BY <1>1, <1>3 DEF IInv, NotBegun
<1>5. "selectLatest" \in Functions
  BY DEF Functions
<1> QED
  BY <1>1, <1>2, <1>4, <1>5 DEF IInv, NotBegun

LEMMA StartIInv ==
  ASSUME IInv, StartWithout \/ \E s \in Good \cup Bad : Start(s)
  PROVE  IInv'
<1>1. runs < MaxRuns /\ runs' = runs + 1 /\ runs \in Nat
  BY DEF StartWithout, Start, IInv, TypeOK
<1>2. UNCHANGED <<alive, certificate, task, config>>
  BY DEF StartWithout, Start
<1>3. /\ runs + 1 \in 1..MaxRuns /\ verdict[runs + 1] = "none"
      /\ \A f \in Functions : task[<<runs + 1, f>>] = "none"
      /\ \A t \in Tasks : /\ t[1] \in 1..MaxRuns
                          /\ t[1] > runs => task[t] = "none" /\ verdict[t[1]] = "none"
  BY <1>1, NextRun
<1>4. CASE StartWithout
  <2>1. TypeOK'
    BY <1>1, <1>2, <1>3, <1>4 DEF IInv, TypeOK, StartWithout
  <2>2. NotBegun'
    BY <1>1, <1>2, <1>3, <1>4 DEF IInv, TypeOK, NotBegun, StartWithout
  <2>3. at' = "idle"
    BY <1>4 DEF StartWithout
  <2>4. OwnConnection' /\ AllOrNothing'
    BY <1>1, <1>2, <1>3, <1>4 DEF IInv, TypeOK, OwnConnection, AllOrNothing, StartWithout
  <2> QED
    BY <2>1, <2>2, <2>3, <2>4 DEF IInv, Underway, Progress
<1>5. ASSUME NEW s \in Good \cup Bad, Start(s) PROVE IInv'
  <2>1. TypeOK'
    BY <1>1, <1>2, <1>3, <1>5 DEF IInv, TypeOK, Start, Functions
  <2>2. NotBegun'
    BY <1>1, <1>2, <1>3, <1>5 DEF IInv, NotBegun, Start
  <2>3. Underway' /\ Progress'
    BY <1>1, <1>2, <1>3, <1>5 DEF IInv, TypeOK, Underway, Progress, Start, Functions
  <2>4. OwnConnection' /\ AllOrNothing'
    BY <1>1, <1>2, <1>3, <1>5 DEF IInv, TypeOK, OwnConnection, AllOrNothing, Start
  <2> QED
    BY <2>1, <2>2, <2>3, <2>4 DEF IInv
<1> QED
  BY <1>4, <1>5

LEMMA LaunchIInv ==
  ASSUME IInv, Launch
  PROVE  IInv'
<1>1. /\ alive /\ at \in Functions /\ connectionString \in Good
      /\ UNCHANGED <<alive, runs, input, connectionString>> /\ certificate' = TRUE
      /\ task' = [task EXCEPT ![<<runs, at>>] = "queued"]
      /\ config' = [config EXCEPT ![<<runs, at>>] = connectionString]
  BY DEF Launch
<1>2. runs \in 1..MaxRuns /\ at # "idle" /\ connectionString # Null
  BY <1>1, SyncAssumption DEF IInv, TypeOK, Functions
<1>3. connectionString = input[runs] /\ verdict[runs] = "none"
  BY <1>2 DEF IInv, Underway
<1>4. <<runs, "selectLatest">> \in Tasks /\ <<runs, "isRemoteEmpty">> \in Tasks
      /\ \A t \in Tasks : t[1] \in 1..MaxRuns /\ t[2] \in Functions /\ t = <<t[1], t[2]>>
  BY <1>2 DEF Tasks, Functions
<1>5. TypeOK'
  <2>1. task' \in [Tasks -> {"none", "queued", "connecting", "asking", "done", "gone"}]
        /\ config' \in [Tasks -> Good \cup {Default}]
    BY <1>1 DEF IInv, TypeOK
  <2>2. verdict' \in [1..MaxRuns -> {"none", "success", "failure"}]
    BY DEF Launch, IInv, TypeOK
  <2>3. at' \in Functions \cup {"idle"}
    BY DEF Launch, Functions
  <2>4. UNCHANGED <<alive, runs, input, connectionString>> /\ certificate' = TRUE /\ alive /\ runs > 0
    BY <1>1, <1>2 DEF IInv, TypeOK
  <2> QED
    BY <2>1, <2>2, <2>3, <2>4 DEF IInv, TypeOK
<1>6. OwnConnection'
  BY <1>1, <1>3, <1>4 DEF IInv, TypeOK, OwnConnection
<1>7. NotBegun'
  <2>1. ASSUME NEW t \in Tasks, t[1] > runs
        PROVE  task'[t] = "none" /\ verdict'[t[1]] = "none"
    <3>1. t[1] # runs /\ t # <<runs, at>>
      BY <1>2, <1>4, <2>1
    <3>2. task'[t] = task[t]
      BY <1>1, <3>1 DEF IInv, TypeOK
    <3>3. verdict'[t[1]] = verdict[t[1]]
      BY <1>4, <3>1 DEF Launch, IInv, TypeOK
    <3> QED
      BY <2>1, <3>2, <3>3 DEF IInv, NotBegun
  <2> QED
    BY <1>1, <2>1 DEF NotBegun
<1>8. CASE at = "selectLatest" /\ at' = "isRemoteEmpty" /\ UNCHANGED verdict
  <2>1. Underway' /\ Progress'
    BY <1>1, <1>3, <1>4, <1>8 DEF IInv, TypeOK, Underway, Progress
  <2>2. AllOrNothing'
    BY <1>1, <1>3, <1>4, <1>8 DEF IInv, TypeOK, AllOrNothing
  <2> QED
    BY <1>5, <1>6, <1>7, <2>1, <2>2 DEF IInv
<1>9. CASE /\ at = "isRemoteEmpty" /\ at' = "idle"
           /\ verdict' = [verdict EXCEPT ![runs] = "success"]
  <2>1. Underway' /\ Progress'
    BY <1>9 DEF Underway, Progress
  <2>2. task'[<<runs, "selectLatest">>] # "none" /\ task'[<<runs, "isRemoteEmpty">>] # "none"
    BY <1>1, <1>4, <1>9 DEF IInv, TypeOK, Progress
  <2>3. ASSUME NEW t \in Tasks, t[1] # runs
        PROVE  verdict'[t[1]] = verdict[t[1]] /\ task'[t] = task[t]
    BY <1>1, <1>2, <1>4, <1>9, <2>3 DEF IInv, TypeOK
  <2>4. ASSUME NEW t \in Tasks, t[1] = runs
        PROVE  task'[t] # "none" /\ verdict'[t[1]] = "success" /\ input[t[1]] # Null
    <3>1. t = <<runs, "selectLatest">> \/ t = <<runs, "isRemoteEmpty">>
      BY <1>4, <2>4 DEF Functions
    <3>2. verdict'[runs] = "success" /\ input[runs] # Null
      BY <1>2, <1>3, <1>9 DEF IInv, TypeOK
    <3> QED
      BY <2>2, <2>4, <3>1, <3>2
  <2>5. AllOrNothing'
    BY <1>1, <2>3, <2>4 DEF IInv, AllOrNothing
  <2> QED
    BY <1>5, <1>6, <1>7, <2>1, <2>5 DEF IInv
<1> QED
  BY <1>8, <1>9 DEF Launch

(* Only the first function throws, when nothing is launched.               *)
LEMMA LaunchThrowsIInv ==
  ASSUME IInv, LaunchThrows
  PROVE  IInv'
<1>1. /\ at \in Functions /\ at' = "idle"
      /\ verdict' = [verdict EXCEPT ![runs] = "failure"]
      /\ UNCHANGED <<alive, runs, input, connectionString, task, config>>
  BY DEF LaunchThrows
<1>2. at # "idle" /\ runs \in 1..MaxRuns
  BY <1>1 DEF IInv, TypeOK, Functions
<1>3. at # "isRemoteEmpty"
  BY DEF IInv, Progress, LaunchThrows, WritesCertificate
<1>4. task[<<runs, "selectLatest">>] = "none" /\ task[<<runs, "isRemoteEmpty">>] = "none"
  BY <1>1, <1>2, <1>3 DEF IInv, Progress, Functions
<1>5. \A t \in Tasks : t[1] \in 1..MaxRuns /\ (t[1] = runs => task[t] = "none")
  <2>1. \A t \in Tasks : t[1] \in 1..MaxRuns /\ t[2] \in Functions /\ t = <<t[1], t[2]>>
    BY DEF Tasks
  <2> QED
    BY <1>4, <2>1 DEF Functions
<1>6. TypeOK'
  BY <1>1, <1>2 DEF IInv, TypeOK, LaunchThrows
<1>7. NotBegun'
  BY <1>1, <1>2, <1>5 DEF IInv, TypeOK, NotBegun
<1>8. OwnConnection' /\ AllOrNothing'
  BY <1>1, <1>2, <1>5 DEF IInv, TypeOK, OwnConnection, AllOrNothing
<1> QED
  BY <1>1, <1>6, <1>7, <1>8 DEF IInv, Underway, Progress

LEMMA CoroutineIInv ==
  ASSUME IInv, NEW t \in Tasks, Begin(t) \/ Connected(t) \/ Answered(t)
  PROVE  IInv'
<1>1. PICK to \in {"connecting", "asking", "done"} :
        task[t] # "none" /\ task' = [task EXCEPT ![t] = to]
  BY DEF Begin, Connected, Answered, Moves
<1>2. UNCHANGED <<alive, runs, at, input, verdict, connectionString, certificate, config>>
  BY DEF Begin, Connected, Answered, Moves
<1>3. \A u \in Tasks : task'[u] = "none" <=> task[u] = "none"
  BY <1>1 DEF IInv, TypeOK
<1>4. TypeOK'
  BY <1>1, <1>2 DEF IInv, TypeOK
<1>5. at # "idle" => <<runs, "selectLatest">> \in Tasks /\ <<runs, "isRemoteEmpty">> \in Tasks
  BY DEF IInv, TypeOK, Tasks, Functions
<1>6. Progress'
  BY <1>2, <1>3, <1>5 DEF IInv, Progress
<1> QED
  BY <1>2, <1>3, <1>4, <1>6 DEF IInv, NotBegun, Underway, OwnConnection, AllOrNothing

LEMMA ProcessIInv ==
  ASSUME IInv, Ends \/ Restart
  PROVE  IInv'
<1>1. UNCHANGED <<runs, input, verdict, config>> /\ at' = "idle"
  BY DEF Ends, Restart, IInv, TypeOK
<1>2. \A u \in Tasks : task'[u] = "none" <=> task[u] = "none"
  BY DEF Ends, Restart, IInv, TypeOK
<1>3. TypeOK'
  BY <1>1 DEF Ends, Restart, IInv, TypeOK
<1> QED
  BY <1>1, <1>2, <1>3 DEF IInv, NotBegun, Underway, Progress, OwnConnection, AllOrNothing

-----------------------------------------------------------------------------
(* The inductive invariant, for any interleaving of doWork, coroutines and *)
(* ends of the process.                                                    *)
THEOREM Inductive == Spec => []IInv
<1>1. IInv /\ [Next]_vars => IInv'
  <2> SUFFICES ASSUME IInv, [Next]_vars PROVE IInv'
    OBVIOUS
  <2>1. CASE UNCHANGED vars
    BY <2>1 DEF vars, IInv, TypeOK, NotBegun, Underway, Progress, OwnConnection, AllOrNothing
  <2>2. ASSUME NEW t \in Tasks, Begin(t) \/ Connected(t) \/ Answered(t) \/ Fails(t)
        PROVE  IInv'
    BY <2>2, CoroutineIInv, ProcessIInv DEF Fails
  <2> QED
    BY <2>1, <2>2, StartIInv, LaunchIInv, LaunchThrowsIInv, ProcessIInv DEF Next, Killed
<1> QED
  BY <1>1, InitIInv, PTL DEF Spec

(* Runs, verdicts and coroutines are well typed, and only a live process   *)
(* is in doWork.                                                           *)
THEOREM TypeCorrect == Spec => []TypeOK
<1>1. IInv => TypeOK
  BY DEF IInv
<1> QED
  BY <1>1, Inductive, PTL

(* Each coroutine of selectLatest and isRemoteEmpty talks to the database  *)
(* of its own run, although setConnection overwrites the shared string.    *)
THEOREM OwnConnections == Spec => []OwnConnection
<1>1. IInv => OwnConnection
  BY DEF IInv
<1> QED
  BY <1>1, Inductive, PTL

(* A run that doWork has reported has launched both coroutines or neither. *)
THEOREM BothOrNone == Spec => []AllOrNothing
<1>1. IInv => AllOrNothing
  BY DEF IInv
<1> QED
  BY <1>1, Inductive, PTL
=============================================================================
