-------------------------- MODULE Synchronisation --------------------------
(***************************************************************************)
(* SyncWorker.doWork and the coroutines that Sync.kt launches from it.     *)
(* doWork gives the string of its run to the singleton Sync and calls two  *)
(* functions one after the other; each parses the string, makes a          *)
(* SQLiteCloud, whose constructor stores the root certificate in a file,   *)
(* launches a coroutine that uses it, and does not wait for it.            *)
(*                                                                         *)
(* WorkManager, the system, which may kill the process at any time, and    *)
(* the server are external.  WorkManager never runs the work twice at the  *)
(* same time; it runs it again after a while, in a new process if the old  *)
(* one has ended.  The server need not answer: the timeout is 0 unless the *)
(* connection string has one.                                              *)
(***************************************************************************)
EXTENDS Integers

CONSTANTS
  Good,     \* connection strings that fromString accepts; none of them names
            \* a certificate of its own
  Bad,      \* and those it does not; "" is one
  Null,     \* no connection string in the input data
  Default,  \* the initial connectionString, which it does not accept either
  MaxRuns   \* bound on the runs of the worker

ASSUME SyncAssumption ==
  /\ Good \cap (Bad \cup {Null, Default}) = {} /\ Null \notin Bad
  /\ MaxRuns \in Nat

Functions == {"selectLatest", "isRemoteEmpty"}
Tasks     == (1..MaxRuns) \X Functions

VARIABLES
  alive,            \* the process runs
  runs,             \* the runs of the worker so far
  at,               \* the function doWork is about to call, or "idle"
  input,            \* the connection string each run was given
  verdict,          \* what each run reported to WorkManager
  connectionString, \* of the singleton Sync
  certificate,      \* the file of the root certificate exists
  task,             \* where each coroutine is
  config            \* the connection string its SQLiteCloud was made with

vars == <<alive, runs, at, input, verdict, connectionString, certificate, task, config>>

-----------------------------------------------------------------------------
(* doWork without a connection string: there is nothing to do.             *)
StartWithout ==
  /\ alive /\ at = "idle" /\ runs < MaxRuns
  /\ runs' = runs + 1
  /\ input' = [input EXCEPT ![runs'] = Null]
  /\ verdict' = [verdict EXCEPT ![runs'] = "success"]
  /\ UNCHANGED <<alive, at, connectionString, certificate, task, config>>

(* doWork with one, up to setConnection.                                   *)
Start(s) ==
  /\ alive /\ at = "idle" /\ runs < MaxRuns
  /\ runs' = runs + 1
  /\ at' = "selectLatest"
  /\ input' = [input EXCEPT ![runs'] = s]
  /\ connectionString' = s
  /\ UNCHANGED <<alive, verdict, certificate, task, config>>

(* Seeded fault: the file is written every time.                           *)
WritesAlways == TRUE

(* init of SQLiteCloud writes the file when it is not there.               *)
WritesCertificate == ~certificate

(* fromString accepts the string, the certificate is there or is written,  *)
(* and the coroutine is launched; after the second doWork reports success. *)
Launch ==
  /\ alive /\ at \in Functions /\ connectionString \in Good
  /\ certificate' = TRUE
  /\ task' = [task EXCEPT ![<<runs, at>>] = "queued"]
  /\ config' = [config EXCEPT ![<<runs, at>>] = connectionString]
  /\ \/ at = "selectLatest" /\ at' = "isRemoteEmpty" /\ UNCHANGED verdict
     \/ /\ at = "isRemoteEmpty" /\ at' = "idle"
        /\ verdict' = [verdict EXCEPT ![runs] = "success"]
  /\ UNCHANGED <<alive, runs, input, connectionString>>

(* fromString throws, or the file cannot be opened or written, in which    *)
(* case an incomplete one may stay behind: doWork catches the exception.   *)
LaunchThrows ==
  /\ alive /\ at \in Functions
  /\ \/ connectionString \notin Good /\ UNCHANGED certificate
     \/ connectionString \in Good /\ WritesCertificate /\ certificate' \in BOOLEAN
  /\ at' = "idle"
  /\ verdict' = [verdict EXCEPT ![runs] = "failure"]
  /\ UNCHANGED <<alive, runs, input, connectionString, task, config>>

-----------------------------------------------------------------------------
Moves(t, from, to) ==
  /\ alive /\ task[t] = from
  /\ task' = [task EXCEPT ![t] = to]
  /\ UNCHANGED <<alive, runs, at, input, verdict, connectionString, certificate>>

(* Seeded fault: the string is read when the coroutine connects.           *)
BeginLateConfig(t) ==
  /\ Moves(t, "queued", "connecting")
  /\ config' = [config EXCEPT ![t] = connectionString]

(* The coroutine gets a thread and calls connect().                        *)
Begin(t) == Moves(t, "queued", "connecting") /\ UNCHANGED config

(* It is connected and calls execute(); the answer is converted, and       *)
(* convertToItemList catches what goes wrong.                              *)
Connected(t) == Moves(t, "connecting", "asking") /\ UNCHANGED config
Answered(t)  == Moves(t, "asking", "done") /\ UNCHANGED config

(* The process ends: a function that was making the file may have got      *)
(* anywhere with it.                                                       *)
Ends ==
  /\ alive /\ alive' = FALSE
  /\ at' = "idle"
  /\ certificate' \in IF at \in Functions /\ connectionString \in Good THEN {certificate, TRUE}
                                                                      ELSE {certificate}
  /\ UNCHANGED <<runs, input, verdict, connectionString, task, config>>

(* connect, execute or, in isRemoteEmpty, the first row that is not there  *)
(* throws, and nothing catches it; or the system kills the process.        *)
Fails(t) == task[t] \in {"connecting", "asking"} /\ Ends
Killed   == Ends

(* A new process: the singleton is made anew, the coroutines are gone.     *)
Restart ==
  /\ ~alive /\ alive' = TRUE
  /\ connectionString' = Default
  /\ task' = [t \in Tasks |-> IF task[t] = "none" THEN "none" ELSE "gone"]
  /\ UNCHANGED <<runs, at, input, verdict, certificate, config>>

-----------------------------------------------------------------------------
Init ==
  /\ alive = TRUE /\ runs = 0 /\ at = "idle"
  /\ input = [r \in 1..MaxRuns |-> Null]
  /\ verdict = [r \in 1..MaxRuns |-> "none"]
  /\ connectionString = Default /\ certificate = FALSE
  /\ task = [t \in Tasks |-> "none"]
  /\ config = [t \in Tasks |-> Default]

Next ==
  \/ StartWithout \/ \E s \in Good \cup Bad : Start(s)
  \/ Launch \/ LaunchThrows
  \/ \E t \in Tasks : Begin(t) \/ Connected(t) \/ Answered(t) \/ Fails(t)
  \/ Killed \/ Restart

Spec == Init /\ [][Next]_vars

-----------------------------------------------------------------------------
(* The runs, their verdicts and their coroutines are well typed, and only  *)
(* a live process is in doWork.                                            *)
TypeOK ==
  /\ alive \in BOOLEAN /\ runs \in 0..MaxRuns
  /\ at \in Functions \cup {"idle"}
  /\ input \in [1..MaxRuns -> Good \cup Bad \cup {Null}]
  /\ verdict \in [1..MaxRuns -> {"none", "success", "failure"}]
  /\ connectionString \in Good \cup Bad \cup {Default}
  /\ certificate \in BOOLEAN
  /\ task \in [Tasks -> {"none", "queued", "connecting", "asking", "done", "gone"}]
  /\ config \in [Tasks -> Good \cup {Default}]
  /\ at # "idle" => alive /\ runs > 0

(* Each coroutine talks to the database its own run was told to, although  *)
(* setConnection of a later run overwrites the string they share           *)
(* (selectLatest and isRemoteEmpty parse it before they launch).           *)
OwnConnection ==
  \A t \in Tasks : task[t] # "none" => config[t] = input[t[1]]

(* A run that has reported has launched both coroutines or, when it failed *)
(* or had no string, neither: the second function can throw only where the *)
(* first has thrown (doWork, fromString, init of SQLiteCloud).  It says    *)
(* nothing of what becomes of them: success is reported before they ask.   *)
AllOrNothing ==
  \A t \in Tasks :
    verdict[t[1]] # "none" =>
      (task[t] # "none" <=> verdict[t[1]] = "success" /\ input[t[1]] # Null)
=============================================================================
