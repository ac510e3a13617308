----------------------------- MODULE Settings ------------------------------
(***************************************************************************)
(* The settings of the app: JSonHandler.kt keeps the account and the       *)
(* regular categories in one JSON file, MainScreenViewModel.kt edits them  *)
(* and MainScreen.kt schedules the synchronisation each time it is drawn.  *)
(*                                                                         *)
(* The process can be killed between any two steps.  What survives is the  *)
(* file, the first-launch flag as far as it was flushed, and WorkManager's *)
(* own database (external); a request that it has not recorded is lost.    *)
(***************************************************************************)
EXTENDS Naturals, FiniteSets, Sequences

CONSTANTS
  Users,        \* user names the user may type, as updateUserName cuts them
  Connections,  \* connection strings the user may type
  NewCategories,\* category names the user may add
  MaxCategories,\* bound on the categories added
  MaxKills      \* bound on the kills of the process

DefaultUser == "user1"
DefaultConnection == "default"

ASSUME SettingsAssumption ==
  /\ {DefaultUser, ""} \cap Users = {}
  /\ "" \notin Connections
  /\ MaxCategories \in Nat /\ MaxKills \in Nat

VARIABLES
  file,        \* regularCategories.json: "absent", "torn" or a record
  firstLaunch, \* isFirstLaunch as stored in MyPrefs.xml
  applied,     \* the flag was cleared by apply() and not yet written
  pc,          \* where the main thread is
  data,        \* JSonHandler.data
  account,     \* MainScreenViewModel.account, what is typed in the dialog
  work,        \* WorkManager's record of the unique work "SyncWorker"
  request,     \* the first request for it not yet recorded
  saved,       \* the data of the last save that completed
  kills        \* how often the process was killed

vars == <<file, firstLaunch, applied, pc, data, account, work, request, saved, kills>>

NoAccount == [user |-> "", connection |-> ""]
Assets    == [account |-> [user |-> DefaultUser, connection |-> DefaultConnection],
              categories |-> <<>>]

Accounts == [user : Users \cup {"", DefaultUser},
             connection : Connections \cup {"", DefaultConnection}]
Contents == [account : Accounts, categories : Seq(NewCategories)]

(* The file is one of the two states that cannot be decoded, or a record.  *)
NoFile == [state |-> "absent", content |-> Assets]
Torn   == [state |-> "torn", content |-> Assets]
Files  == {NoFile, Torn} \cup [state : {"whole"}, content : Contents]
Whole(d) == [state |-> "whole", content |-> d]

Locations == {"dead", "load", "truncateFirst", "writeFirst", "flag", "compose",
              "idle", "truncate", "write"}

NoWork == [scheduled |-> FALSE, connection |-> ""]
Works  == [scheduled : BOOLEAN, connection : Connections \cup {"", DefaultConnection}]

(* isAccountSetUp: the stored account is neither of the two defaults.      *)
AccountSetUp ==
  data.account.user # DefaultUser /\ data.account.connection # DefaultConnection

-----------------------------------------------------------------------------
(* The start of the process: JSonHandler is built when it is first needed. *)

Start ==
  /\ pc = "dead"
  /\ pc' = "load"
  /\ data' = Assets
  /\ account' = NoAccount
  /\ UNCHANGED <<file, firstLaunch, applied, work, request, saved, kills>>

(* Seeded fault: the flag is cleared before the file is written.           *)
LoadAssetsFlagFirst ==
  /\ pc = "load"
  /\ firstLaunch
  /\ data' = Assets
  /\ applied' = TRUE
  /\ pc' = "truncateFirst"
  /\ UNCHANGED <<file, firstLaunch, account, work, request, saved, kills>>

(* loadJsonData on a first launch: the data come from the assets.          *)
LoadAssets ==
  /\ pc = "load"
  /\ firstLaunch
  /\ data' = Assets
  /\ pc' = "truncateFirst"
  /\ UNCHANGED <<file, firstLaunch, applied, account, work, request, saved, kills>>

(* Seeded fault: the account is left as the field initialiser set it.      *)
LoadFileCategoriesOnly ==
  /\ pc = "load"
  /\ ~firstLaunch
  /\ file.state = "whole"
  /\ data' = [data EXCEPT !.categories = file.content.categories]
  /\ pc' = "compose"
  /\ UNCHANGED <<file, firstLaunch, applied, account, work, request, saved, kills>>

(* ... and on every later one from the file.                               *)
LoadFile ==
  /\ pc = "load"
  /\ ~firstLaunch
  /\ file.state = "whole"
  /\ data' = file.content
  /\ pc' = "compose"
  /\ UNCHANGED <<file, firstLaunch, applied, account, work, request, saved, kills>>

(* A file that cannot be read or decoded throws out of the constructor and *)
(* ends the process.                                                       *)
LoadFails ==
  /\ pc = "load"
  /\ ~firstLaunch
  /\ file.state # "whole"
  /\ pc' = "dead"
  /\ UNCHANGED <<file, firstLaunch, applied, data, account, work, request, saved, kills>>

(* saveToFile: opening the stream truncates the file, then it is written.  *)
Truncate ==
  /\ pc \in {"truncateFirst", "truncate"}
  /\ file' = Torn
  /\ pc' = IF pc = "truncate" THEN "write" ELSE "writeFirst"
  /\ UNCHANGED <<firstLaunch, applied, data, account, work, request, saved, kills>>

Write ==
  /\ pc \in {"writeFirst", "write"}
  /\ file' = Whole(data)
  /\ saved' = data
  /\ pc' = IF pc = "write" THEN "idle" ELSE "flag"
  /\ UNCHANGED <<firstLaunch, applied, data, account, work, request, kills>>

(* edit().putBoolean(..).apply() only queues the write of the flag.        *)
ApplyFlag ==
  /\ pc = "flag"
  /\ applied' = TRUE
  /\ pc' = "compose"
  /\ UNCHANGED <<file, firstLaunch, data, account, work, request, saved, kills>>

FlushFlag ==
  /\ applied
  /\ firstLaunch' = FALSE
  /\ applied' = FALSE
  /\ UNCHANGED <<file, pc, data, account, work, request, saved, kills>>

-----------------------------------------------------------------------------
(* Seeded fault: nothing is scheduled until there is a connection string.  *)
ComposeWithConnection ==
  /\ pc \in {"compose", "idle"}
  /\ pc' = "idle"
  /\ account' = IF AccountSetUp THEN data.account ELSE account
  /\ request' = IF request.scheduled \/ account'.connection = "" THEN request
                ELSE [scheduled |-> TRUE, connection |-> account'.connection]
  /\ UNCHANGED <<file, firstLaunch, applied, data, work, saved, kills>>

(* MainScreen is drawn, for the first time or after a change of the state: *)
(* the stored account is read if there is one, then scheduleSync asks for  *)
(* the unique work with the connection string of the ui state.             *)
Compose ==
  /\ pc \in {"compose", "idle"}
  /\ pc' = "idle"
  /\ account' = IF AccountSetUp THEN data.account ELSE account
  /\ request' = IF request.scheduled THEN request
                ELSE [scheduled |-> TRUE, connection |-> account'.connection]
  /\ UNCHANGED <<file, firstLaunch, applied, data, work, saved, kills>>

(* enqueueUniquePeriodicWork returns before a thread of WorkManager has    *)
(* recorded the work.  Requests are taken in order, and KEEP leaves a work *)
(* that exists as it is.                                                   *)
Enqueue ==
  /\ request.scheduled
  /\ work' = IF work.scheduled THEN work ELSE request
  /\ request' = NoWork
  /\ UNCHANGED <<file, firstLaunch, applied, pc, data, account, saved, kills>>

(* Navigating to the main screen again gives it a new view model.          *)
NewMainScreen ==
  /\ pc = "idle"
  /\ pc' = "compose"
  /\ account' = NoAccount
  /\ UNCHANGED <<file, firstLaunch, applied, data, work, request, saved, kills>>

(* The account dialog, shown while no account is set up.                   *)
TypeUser(u) ==
  /\ pc = "idle"
  /\ ~AccountSetUp
  /\ account' = [account EXCEPT !.user = u]
  /\ UNCHANGED <<file, firstLaunch, applied, pc, data, work, request, saved, kills>>

TypeConnection(s) ==
  /\ pc = "idle"
  /\ ~AccountSetUp
  /\ account' = [account EXCEPT !.connection = s]
  /\ UNCHANGED <<file, firstLaunch, applied, pc, data, work, request, saved, kills>>

SubmitAccount ==
  /\ pc = "idle"
  /\ ~AccountSetUp
  /\ account.user # "" /\ account.connection # ""
  /\ data' = [data EXCEPT !.account = account]
  /\ pc' = "truncate"
  /\ UNCHANGED <<file, firstLaunch, applied, account, work, request, saved, kills>>

(* Seeded fault: the new category is only put in the list on the screen.   *)
AddCategoryUnsaved(c) ==
  /\ pc = "idle"
  /\ Len(data.categories) < MaxCategories
  /\ data' = [data EXCEPT !.categories = Append(@, c)]
  /\ UNCHANGED <<file, firstLaunch, applied, pc, account, work, request, saved, kills>>

(* addNewRegularCat: the list on the screen is the list of JSonHandler.    *)
AddCategory(c) ==
  /\ pc = "idle"
  /\ Len(data.categories) < MaxCategories
  /\ data' = [data EXCEPT !.categories = Append(@, c)]
  /\ pc' = "truncate"
  /\ UNCHANGED <<file, firstLaunch, applied, account, work, request, saved, kills>>

(* The system kills the process, at any step.                              *)
Kill ==
  /\ pc # "dead"
  /\ kills < MaxKills
  /\ kills' = kills + 1
  /\ pc' = "dead"
  /\ applied' = FALSE
  /\ request' = NoWork
  /\ UNCHANGED <<file, firstLaunch, data, account, work, saved>>

-----------------------------------------------------------------------------
Init ==
  /\ file = NoFile
  /\ firstLaunch = TRUE
  /\ applied = FALSE
  /\ pc = "dead"
  /\ data = Assets
  /\ account = NoAccount
  /\ work = NoWork /\ request = NoWork
  /\ saved = Assets
  /\ kills = 0

Next ==
  \/ Start \/ LoadAssets \/ LoadFile \/ LoadFails
  \/ Truncate \/ Write \/ ApplyFlag \/ FlushFlag
  \/ Compose \/ Enqueue \/ NewMainScreen \/ SubmitAccount \/ Kill
  \/ \E u \in Users : TypeUser(u)
  \/ \E s \in Connections : TypeConnection(s)
  \/ \E c \in NewCategories : AddCategory(c)

Spec == Init /\ [][Next]_vars

-----------------------------------------------------------------------------
(* The file, the flag, WorkManager's record and the memory keep their      *)
(* types: no save and no kill leaves anything the next start cannot hold   *)
(* (loadJsonData, saveToFile).                                             *)
TypeOK ==
  /\ file \in Files
  /\ firstLaunch \in BOOLEAN /\ applied \in BOOLEAN
  /\ pc \in Locations
  /\ data \in Contents
  /\ account \in Accounts
  /\ work \in Works /\ request \in Works
  /\ saved \in Contents
  /\ kills \in Nat

(* Whenever the user can act, or the flag is about to be cleared, the file *)
(* holds exactly what the app shows: every update of the shared list or of *)
(* the account has been written (updateCategories, updateAccount).         *)
SavedWhenIdle ==
  pc \in {"flag", "compose", "idle"} => file = Whole(data)

(* The first-launch flag is cleared only after the file was created, so no *)
(* later launch looks for a file that was never written (loadJsonData).    *)
FlagAfterFile ==
  applied \/ ~firstLaunch => file.state # "absent"

(* A launch that reads the file gets the data of the last save that        *)
(* completed, whatever was killed and reloaded since.                      *)
RestartKeepsData ==
  [][pc = "load" /\ pc' = "compose" => data' = saved]_vars

(* JSonHandler.kt:48 writes the file "to internal storage for future use": *)
(* a later launch can read it.                                             *)
LaterLaunchReads ==
  pc = "load" /\ ~firstLaunch => file.state = "whole"

(* Every drawing asks for the work with what is in the text field, also    *)
(* while the account is being typed.  What the work gets, and keeps, is no *)
(* such string: it is empty, or that of the account in the file, through   *)
(* every restart and however many requests are lost (scheduleSync).        *)
OnlyStoredIsScheduled ==
  work.connection # "" =>
    saved.account.user # DefaultUser /\ work.connection = saved.account.connection
=============================================================================
