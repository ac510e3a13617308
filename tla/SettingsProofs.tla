--------------------------- MODULE SettingsProofs ---------------------------
(***************************************************************************)
(* Proofs about Settings, for any names, strings, categories and kills.    *)
(* The file can be torn at any time, so what is inductive speaks only of   *)
(* whole files: a whole file holds the data of the last completed save.    *)
(***************************************************************************)
EXTENDS Settings, TLAPS

(* Each place of the main thread tells what the file holds there.          *)
FileMatchesPlace ==
  /\ file.state = "whole" => file.content = saved
  /\ pc \in {"flag", "compose", "idle"} => file = Whole(data)
  /\ pc \in {"flag", "compose", "idle"} => saved = data
  /\ pc \in {"write", "writeFirst"} => file.state # "absent"
  /\ applied \/ ~firstLaunch => file.state # "absent"

IInv == TypeOK /\ FileMatchesPlace

(* The records the module names are of their types.                        *)
LEMMA RecordTypes ==
  /\ Assets \in Contents /\ NoAccount \in Accounts /\ NoWork \in Works
  /\ NoFile \in Files /\ Torn \in Files
  /\ \A d \in Contents : Whole(d) \in Files /\ Whole(d).content = d /\ Whole(d).state = "whole"
  /\ \A f \in Files : f.state \in {"absent", "torn", "whole"} /\ f.content \in Contents
<1>1. Assets.account \in Accounts /\ Assets.categories \in Seq(NewCategories)
  BY DEF Assets, Accounts
<1>2. Assets \in Contents
  BY <1>1 DEF Assets, Contents
<1> QED
  BY <1>2 DEF NoAccount, Accounts, NoWork, Works, NoFile, Torn, Files, Whole

(* One step of the app, or a kill, keeps the invariant.                    *)
LEMMA StepKeeps ==
  ASSUME IInv, Next
  PROVE  IInv'
<1> USE RecordTypes DEF IInv, TypeOK, Locations
<1> HIDE DEF Files, Contents
<1>1. CASE Start
  BY <1>1 DEF Start, FileMatchesPlace
<1>2. CASE LoadAssets
  BY <1>2 DEF LoadAssets, FileMatchesPlace
<1>3. CASE LoadFile
  <2>1. file \in [state : {"whole"}, content : Contents]
    BY <1>3 DEF LoadFile, Files, NoFile, Torn
  <2>2. file = Whole(file.content)
    BY <2>1 DEF Whole
  <2> QED
    BY <1>3, <2>2 DEF LoadFile, FileMatchesPlace
<1>4. CASE LoadFails
  BY <1>4 DEF LoadFails, FileMatchesPlace
<1>5. CASE Truncate
  BY <1>5 DEF Truncate, FileMatchesPlace, Torn
<1>6. CASE Write
  BY <1>6 DEF Write, FileMatchesPlace
<1>7. CASE ApplyFlag
  BY <1>7 DEF ApplyFlag, FileMatchesPlace
<1>8. CASE FlushFlag
  BY <1>8 DEF FlushFlag, FileMatchesPlace
<1>9. CASE Compose
  <2>1. data.account \in Accounts
    BY DEF Contents
  <2>2. account' \in Accounts
    BY <1>9, <2>1 DEF Compose
  <2>3. request' \in Works
    BY <1>9, <2>2 DEF Compose, Works, Accounts
  <2> QED
    BY <1>9, <2>2, <2>3 DEF Compose, FileMatchesPlace
<1>10. ASSUME NEW u \in Users, TypeUser(u) PROVE IInv'
  <2>1. account' \in Accounts
    BY <1>10 DEF TypeUser, Accounts
  <2> QED
    BY <1>10, <2>1 DEF TypeUser, FileMatchesPlace
<1>11. ASSUME NEW s \in Connections, TypeConnection(s) PROVE IInv'
  <2>1. account' \in Accounts
    BY <1>11 DEF TypeConnection, Accounts
  <2> QED
    BY <1>11, <2>1 DEF TypeConnection, FileMatchesPlace
<1>12. CASE SubmitAccount
  <2>1. data' \in Contents
    BY <1>12 DEF SubmitAccount, Contents
  <2> QED
    BY <1>12, <2>1 DEF SubmitAccount, FileMatchesPlace
<1>13. ASSUME NEW c \in NewCategories, AddCategory(c) PROVE IInv'
  <2>1. Append(data.categories, c) \in Seq(NewCategories)
    BY DEF Contents
  <2>2. PICK x \in Seq(NewCategories) : data' = [data EXCEPT !.categories = x]
    BY <1>13, <2>1 DEF AddCategory
  <2>3. data' \in Contents
    BY <2>2 DEF Contents
  <2> QED
    BY <1>13, <2>3 DEF AddCategory, FileMatchesPlace
<1>14. CASE Kill
  <2>1. kills' \in Nat
    BY <1>14 DEF Kill
  <2> QED
    BY <1>14, <2>1 DEF Kill, FileMatchesPlace
<1>15. CASE NewMainScreen
  BY <1>15 DEF NewMainScreen, FileMatchesPlace
<1>16. CASE Enqueue
  BY <1>16 DEF Enqueue, FileMatchesPlace
<1> QED
  BY <1>1, <1>2, <1>3, <1>4, <1>5, <1>6, <1>7, <1>8, <1>9, <1>10, <1>11, <1>12, <1>13, <1>14, <1>15,
     <1>16 DEF Next

(* The invariant holds in every reachable state.                           *)
LEMMA Inductive == Spec => []IInv
<1>1. Init => IInv
  <2>1. Init => TypeOK
    <3>1. NoFile \in Files /\ Assets \in Contents /\ NoAccount \in Accounts /\ NoWork \in Works
      BY RecordTypes
    <3>2. Init => firstLaunch \in BOOLEAN /\ applied \in BOOLEAN
      BY DEF Init
    <3>3. Init => pc \in Locations /\ kills \in Nat
      BY DEF Init, Locations
    <3> QED
      BY <3>1, <3>2, <3>3 DEF Init, TypeOK
  <2>2. Init => FileMatchesPlace
    BY DEF Init, FileMatchesPlace, NoFile
  <2> QED
    BY <2>1, <2>2 DEF IInv
<1>2. IInv /\ [Next]_vars => IInv'
  <2>1. IInv /\ UNCHANGED vars => IInv'
    BY DEF IInv, TypeOK, FileMatchesPlace, vars
  <2> QED
    BY <2>1, StepKeeps
<1> QED
  BY <1>1, <1>2, PTL DEF Spec

(* The file, the flag, WorkManager's record and the memory of the app keep *)
(* their types through every kill and restart.                             *)
THEOREM TypeCorrect == Spec => []TypeOK
<1>1. IInv => TypeOK
  BY DEF IInv
<1> QED
  BY <1>1, Inductive, PTL

(* Whenever the user can act the file holds what the app shows.            *)
THEOREM AlwaysSavedWhenIdle == Spec => []SavedWhenIdle
<1>1. IInv => SavedWhenIdle
  BY DEF IInv, FileMatchesPlace, SavedWhenIdle
<1> QED
  BY <1>1, Inductive, PTL

(* The first-launch flag is never cleared before the file exists.          *)
THEOREM FlagFollowsFile == Spec => []FlagAfterFile
<1>1. IInv => FlagAfterFile
  BY DEF IInv, FileMatchesPlace, FlagAfterFile
<1> QED
  BY <1>1, Inductive, PTL

(* A launch that reads the file gets the data of the last completed save.  *)
THEOREM RestartsKeepData == Spec => RestartKeepsData
<1>1. IInv /\ [Next]_vars => [pc = "load" /\ pc' = "compose" => data' = saved]_vars
  <2> SUFFICES ASSUME IInv, Next, pc = "load", pc' = "compose" PROVE data' = saved
    OBVIOUS
  <2>1. LoadFile
    BY DEF Next, Start, LoadAssets, LoadFails, Truncate, Write, ApplyFlag, FlushFlag, Compose,
           Enqueue, NewMainScreen, TypeUser, TypeConnection, SubmitAccount, AddCategory, Kill
  <2> QED
    BY <2>1 DEF LoadFile, IInv, FileMatchesPlace
<1> QED
  BY <1>1, Inductive, PTL DEF Spec, RestartKeepsData

(* As long as a process has made no request and there is no work, nothing  *)
(* has been typed, and on a first launch nothing but the assets loaded.    *)
Unasked ==
  ~work.scheduled /\ ~request.scheduled /\ pc # "dead" =>
    /\ pc \notin {"idle", "truncate", "write"}
    /\ account = NoAccount
    /\ firstLaunch => data = Assets

(* A connection string that may get into the work is that of an account    *)
(* in the file that can no longer change.                                  *)
Stored(w) ==
  w.connection # "" =>
    /\ ~firstLaunch
    /\ saved.account.user # DefaultUser /\ saved.account.connection # DefaultConnection
    /\ w.connection = saved.account.connection
    /\ pc \in {"dead", "load", "compose", "idle", "truncate", "write"}
    /\ pc \notin {"dead", "load"} => data.account = saved.account

Scheduling ==
  /\ Unasked
  /\ ~request.scheduled => request.connection = ""
  /\ Stored(IF work.scheduled THEN work ELSE request)
  /\ ~work.scheduled => work.connection = ""

(* The drawing that makes the first request finds the stored account or an *)
(* empty text field.                                                       *)
LEMMA DrawingKeeps ==
  ASSUME IInv, Scheduling, Compose
  PROVE  Scheduling'
<1>1. /\ pc' = "idle" /\ account' = IF AccountSetUp THEN data.account ELSE account
      /\ UNCHANGED <<firstLaunch, data, work, saved>>
      /\ pc \in {"compose", "idle"}
  BY DEF Compose
<1>2. saved = data
  BY <1>1 DEF IInv, FileMatchesPlace
<1>3. CASE request.scheduled
  <2>1. request' = request
    BY <1>3 DEF Compose
  <2> QED
    BY <1>1, <1>2, <1>3, <2>1 DEF Scheduling, Unasked, Stored
<1>4. CASE ~request.scheduled
  <2>1. request' = [scheduled |-> TRUE, connection |-> account'.connection]
    BY <1>4 DEF Compose
  <2>2. request'.scheduled /\ request'.connection = account'.connection
    BY <2>1
  <2>3. CASE work.scheduled
    BY <1>1, <1>2, <2>2, <2>3 DEF Scheduling, Unasked, Stored
  <2>4. CASE ~work.scheduled
    <3>1. /\ account = NoAccount /\ (firstLaunch => data = Assets)
          /\ work.connection = ""
      BY <1>1, <1>4, <2>4 DEF Scheduling, Unasked
    <3>2. NoAccount.connection = "" /\ Assets.account.user = DefaultUser
      BY DEF NoAccount, Assets
    <3>3. CASE AccountSetUp
      <4>1. /\ ~firstLaunch /\ data.account.user # DefaultUser /\ data.account.connection # DefaultConnection
        BY <3>1, <3>2, <3>3 DEF AccountSetUp
      <4> QED
        BY <1>1, <1>2, <2>2, <2>4, <3>1, <3>3, <4>1 DEF Scheduling, Unasked, Stored
    <3>4. CASE ~AccountSetUp
      BY <1>1, <2>2, <2>4, <3>1, <3>2, <3>4 DEF Scheduling, Unasked, Stored
    <3> QED
      BY <3>3, <3>4
  <2> QED
    BY <2>3, <2>4
<1> QED
  BY <1>3, <1>4

(* Every other step leaves the requests alone, or loses or records them,   *)
(* and changes an account only if there is none.                           *)
LEMMA OthersKeep ==
  ASSUME IInv, Scheduling, Next, ~Compose
  PROVE  Scheduling'
<1> USE DEF Scheduling, Unasked, Stored
<1>1. CASE Start
  BY <1>1 DEF Start
<1>2. CASE LoadAssets
  BY <1>2 DEF LoadAssets
<1>3. CASE LoadFile
  BY <1>3 DEF LoadFile, IInv, FileMatchesPlace
<1>4. CASE LoadFails
  BY <1>4 DEF LoadFails
<1>5. CASE Truncate
  BY <1>5 DEF Truncate
<1>6. CASE Write
  BY <1>6 DEF Write
<1>7. CASE ApplyFlag
  BY <1>7 DEF ApplyFlag
<1>8. CASE FlushFlag
  BY <1>8 DEF FlushFlag
<1>9. CASE Enqueue
  <2>1. NoWork.connection = "" /\ ~NoWork.scheduled
    BY DEF NoWork
  <2> QED
    BY <1>9, <2>1 DEF Enqueue
<1>10. CASE NewMainScreen
  BY <1>10 DEF NewMainScreen
<1>11. CASE SubmitAccount
  BY <1>11 DEF SubmitAccount, AccountSetUp
<1>12. CASE Kill
  <2>1. NoWork.connection = "" /\ ~NoWork.scheduled
    BY DEF NoWork
  <2> QED
    BY <1>12, <2>1 DEF Kill
<1>13. ASSUME NEW u \in Users, TypeUser(u) PROVE Scheduling'
  BY <1>13 DEF TypeUser
<1>14. ASSUME NEW c \in Connections, TypeConnection(c) PROVE Scheduling'
  BY <1>14 DEF TypeConnection
<1>15. ASSUME NEW c \in NewCategories, AddCategory(c) PROVE Scheduling'
  <2>1. PICK x : data' = [data EXCEPT !.categories = x]
    BY <1>15 DEF AddCategory
  <2>2. PICK a, b : data = [account |-> a, categories |-> b]
    BY DEF IInv, TypeOK, Contents
  <2>3. data' = [account |-> a, categories |-> x]
    BY <2>1, <2>2
  <2>4. data'.account = data.account
    BY <2>2, <2>3
  <2> QED
    BY <1>15, <2>4 DEF AddCategory
<1> QED
  BY <1>1, <1>2, <1>3, <1>4, <1>5, <1>6, <1>7, <1>8, <1>9, <1>10, <1>11, <1>12, <1>13, <1>14,
     <1>15 DEF Next

(* No connection string that is only typed ever gets into the scheduled    *)
(* work: it stays empty, or is that of the account in the file.            *)
THEOREM OnlyStoredAccountsAreScheduled == Spec => []OnlyStoredIsScheduled
<1>1. Init => Scheduling
  <2>1. NoWork.connection = "" /\ ~NoWork.scheduled
    BY DEF NoWork
  <2> QED
    BY <2>1 DEF Init, Scheduling, Unasked, Stored
<1>2. IInv /\ Scheduling /\ [Next]_vars => Scheduling'
  <2>1. ASSUME Scheduling, UNCHANGED vars PROVE Scheduling'
    <3>1. UNCHANGED <<firstLaunch, pc, data, account, work, request, saved>>
      BY <2>1 DEF vars
    <3> QED
      BY <2>1, <3>1 DEF Scheduling, Unasked, Stored
  <2> QED
    BY <2>1, DrawingKeeps, OthersKeep
<1>3. Scheduling => OnlyStoredIsScheduled
  BY DEF Scheduling, Stored, OnlyStoredIsScheduled
<1> QED
  BY <1>1, <1>2, <1>3, Inductive, PTL DEF Spec
=============================================================================
