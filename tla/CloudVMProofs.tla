--------------------------- MODULE CloudVMProofs ---------------------------
(***************************************************************************)
(* A prepared statement, for rowsets of any length and any number of       *)
(* calls.                                                                  *)
(***************************************************************************)
EXTENDS CloudVM, TLAPS

Kinds == {"none", "array", "rowset"}

Types ==
  /\ life \in {"none", "live", "freed"}
  /\ result \in [kind : Kinds, rows : Nat, id : Nat]
  /\ rowindex \in Nat /\ moved \in Nat /\ calls \in Nat
  /\ finalized \in BOOLEAN
  /\ verr \in Nat /\ blob \in Nat
  /\ stmt \in {"none", "prepared", "adrift", "finalized"}
  /\ outcome \in [fn : {"none", "compile", "bind", "step", "value", "close"},
                  status : {"none", "value", "false", "vm", "unhandled", "undefined"}, cause : Nat]

(* Nothing has been stepped, read or finished before there is a struct.    *)
Blank == life = "none" => rowindex = 0 /\ moved = 0 /\ ~finalized /\ blob = 0

(* Without an error a blob value belongs to the rowset the struct holds,   *)
(* which step() does not replace.                                          *)
BlobOfRowset ==
  life # "freed" /\ verr = 0 /\ blob # 0 => blob = result.id /\ result.kind = "rowset"

IInv == Types /\ Blank /\ RowsFollowSteps /\ HeldIsFinalized /\ BlobOfRowset

-----------------------------------------------------------------------------
(* The results a call may leave in the struct.                             *)
LEMMA ResultTypes ==
  ASSUME Types
  PROVE  /\ NoResult \in [kind : Kinds, rows : Nat, id : Nat] /\ NoResult.kind = "none"
         /\ Array \in [kind : Kinds, rows : Nat, id : Nat] /\ Array.kind = "array"
         /\ \A n \in RowCounts : /\ Rowset(n) \in [kind : Kinds, rows : Nat, id : Nat]
                                 /\ Rowset(n).kind = "rowset"
  BY VMAssumption DEF Types, Kinds, NoResult, Array, Rowset

(* A call that ends leaves a well typed outcome of its own kind.           *)
LEMMA EndsTypes ==
  ASSUME Types,
         NEW fn \in {"compile", "bind", "step", "value", "close"},
         NEW status \in {"value", "false", "vm", "unhandled", "undefined"},
         NEW cause \in Nat, Ends(fn, status, cause)
  PROVE  /\ calls' \in Nat /\ calls' # 0
         /\ outcome' \in [fn : {"none", "compile", "bind", "step", "value", "close"},
                          status : {"none", "value", "false", "vm", "unhandled", "undefined"},
                          cause : Nat]
         /\ outcome'.fn = fn /\ outcome'.status = status
  BY DEF Types, Ends

LEMMA InitIInv == Init => IInv
<1> SUFFICES ASSUME Init PROVE IInv
  OBVIOUS
<1>1. Types
  BY DEF Init, Types, Kinds, NoResult
<1>2. Blank /\ HeldIsFinalized
  BY DEF Init, Blank, HeldIsFinalized
<1>3. RowsFollowSteps /\ BlobOfRowset
  BY DEF Init, NoResult, RowsFollowSteps, BlobOfRowset
<1> QED
  BY <1>1, <1>2, <1>3 DEF IInv

-----------------------------------------------------------------------------
LEMMA CompileIInv ==
  ASSUME IInv, Compile
  PROVE  IInv'
<1> USE DEF IInv
<1>1. /\ life = "none" /\ rowindex = 0 /\ moved = 0 /\ finalized = FALSE /\ blob = 0
      /\ UNCHANGED <<rowindex, verr, moved, blob>>
  BY DEF Compile, Blank, Types
<1>2. calls' \in Nat /\ outcome' \in [fn : {"none", "compile", "bind", "step", "value", "close"},
         status : {"none", "value", "false", "vm", "unhandled", "undefined"}, cause : Nat]
      /\ outcome'.fn = "compile"
  BY EndsTypes DEF Compile, Returns
<1>3. CASE /\ \E done \in BOOLEAN :
                /\ finalized' = done
                /\ stmt' = IF done THEN "finalized" ELSE "prepared"
           /\ result' = Array /\ life' = "live"
  BY <1>1, <1>2, <1>3, ResultTypes
     DEF Types, Kinds, Blank, RowsFollowSteps, HeldIsFinalized, BlobOfRowset
<1>4. CASE /\ \E n \in RowCounts : result' = Rowset(n)
           /\ stmt' \in {"prepared", "adrift"} /\ life' = "live" /\ finalized' = finalized
  BY <1>1, <1>2, <1>4, ResultTypes
     DEF Types, Kinds, Blank, RowsFollowSteps, HeldIsFinalized, BlobOfRowset
<1>5. CASE stmt' \in {"none", "prepared"} /\ UNCHANGED <<life, result, finalized>>
  BY <1>1, <1>2, <1>5
     DEF Types, Kinds, Blank, RowsFollowSteps, HeldIsFinalized, BlobOfRowset
<1> QED
  BY <1>3, <1>4, <1>5 DEF Compile

LEMMA BindIInv ==
  ASSUME IInv, Bind
  PROVE  IInv'
<1> USE DEF IInv
<1>1. UNCHANGED <<life, rowindex, finalized, stmt, moved, blob>> /\ life = "live"
  BY DEF Bind
<1>2. calls' \in Nat /\ outcome' \in [fn : {"none", "compile", "bind", "step", "value", "close"},
         status : {"none", "value", "false", "vm", "unhandled", "undefined"}, cause : Nat]
      /\ outcome'.fn = "bind" /\ calls + 1 \in Nat /\ calls + 1 # 0
  BY EndsTypes DEF Bind, Returns, Types
<1>3. CASE UNCHANGED <<result, verr>>
  BY <1>1, <1>2, <1>3
     DEF Types, Kinds, Blank, RowsFollowSteps, HeldIsFinalized, BlobOfRowset
<1>4. CASE SetError
  BY <1>1, <1>2, <1>4, ResultTypes
     DEF SetError, Types, Kinds, Blank, RowsFollowSteps, HeldIsFinalized, BlobOfRowset
<1> QED
  BY <1>3, <1>4 DEF Bind

LEMMA NextRowIInv ==
  ASSUME IInv, NextRow
  PROVE  IInv'
<1> USE DEF IInv
<1>1. UNCHANGED <<life, result, finalized, verr, stmt, blob>> /\ life = "live"
  BY DEF NextRow
<1>2. calls' \in Nat /\ outcome' \in [fn : {"none", "compile", "bind", "step", "value", "close"},
         status : {"none", "value", "false", "vm", "unhandled", "undefined"}, cause : Nat]
      /\ outcome'.fn = "step"
  BY EndsTypes DEF NextRow, Returns
<1>3. rowindex' \in Nat /\ moved' \in Nat /\ result.rows \in Nat
  BY DEF NextRow, Types
<1>4. RowsFollowSteps'
  BY <1>1, <1>3 DEF NextRow, RowsFollowSteps, Types
<1>5. Types'
  BY <1>1, <1>2, <1>3 DEF Types
<1> QED
  BY <1>1, <1>2, <1>4, <1>5 DEF Blank, HeldIsFinalized, BlobOfRowset

LEMMA StepIInv ==
  ASSUME IInv, Step
  PROVE  IInv'
<1> USE DEF IInv
<1>1. UNCHANGED <<life, blob>> /\ life = "live" /\ result.kind # "rowset"
  BY DEF Step
<1>2. calls' \in Nat /\ outcome' \in [fn : {"none", "compile", "bind", "step", "value", "close"},
         status : {"none", "value", "false", "vm", "unhandled", "undefined"}, cause : Nat]
      /\ outcome'.fn = "step" /\ calls + 1 \in Nat /\ calls + 1 # 0
  BY EndsTypes DEF Step, StepRows, StepArray, StepError, StepOther, Returns, Types
<1>3. verr # 0 \/ blob = 0
  BY <1>1 DEF BlobOfRowset
<1>4. Done \in {"none", "prepared", "adrift", "finalized"}
      /\ Done # "prepared"
  BY DEF Done, Obeys, Types
<1>5. CASE StepRows
  BY <1>1, <1>2, <1>3, <1>4, <1>5, ResultTypes
     DEF StepRows, Types, Kinds, Blank, RowsFollowSteps, HeldIsFinalized, BlobOfRowset
<1>6. CASE StepArray
  BY <1>1, <1>2, <1>3, <1>4, <1>6, ResultTypes
     DEF StepArray, Unanswered, Types, Kinds, Blank, RowsFollowSteps, HeldIsFinalized, BlobOfRowset
<1>7. CASE StepError
  BY <1>1, <1>2, <1>3, <1>4, <1>7, ResultTypes
     DEF StepError, SetError, Unanswered, Types, Kinds, Blank, RowsFollowSteps, HeldIsFinalized, BlobOfRowset
<1>8. CASE StepOther
  BY <1>1, <1>2, <1>3, <1>4, <1>8
     DEF StepOther, Unanswered, Types, Kinds, Blank, RowsFollowSteps, HeldIsFinalized, BlobOfRowset
<1> QED
  BY <1>5, <1>6, <1>7, <1>8 DEF Step

LEMMA GetBlobIInv ==
  ASSUME IInv, GetBlob
  PROVE  IInv'
<1> USE DEF IInv
<1>1. UNCHANGED <<life, result, rowindex, finalized, verr, stmt, moved>> /\ life = "live"
  BY DEF GetBlob
<1>2. calls' \in Nat /\ outcome' \in [fn : {"none", "compile", "bind", "step", "value", "close"},
         status : {"none", "value", "false", "vm", "unhandled", "undefined"}, cause : Nat]
      /\ outcome'.fn = "value"
  BY EndsTypes DEF GetBlob, Returns
<1>3. blob' \in Nat /\ (blob' # 0 => blob' = result.id /\ result.kind = "rowset")
  BY DEF GetBlob, Types
<1> QED
  BY <1>1, <1>2, <1>3
     DEF Types, Kinds, Blank, RowsFollowSteps, HeldIsFinalized, BlobOfRowset

LEMMA CloseIInv ==
  ASSUME IInv, Close
  PROVE  IInv'
<1> USE DEF IInv
<1>1. /\ UNCHANGED <<rowindex, finalized, verr, moved, blob>>
      /\ life' = "freed" /\ result' = NoResult
  BY DEF Close
<1>2. calls' \in Nat /\ outcome' \in [fn : {"none", "compile", "bind", "step", "value", "close"},
         status : {"none", "value", "false", "vm", "unhandled", "undefined"}, cause : Nat]
  BY EndsTypes DEF Close, Returns
<1>3. Done \in {"none", "prepared", "adrift", "finalized"}
      /\ Done # "prepared"
  BY DEF Done, Obeys, Types
<1>4. stmt' \in {stmt, Done}
  BY DEF Close, Unanswered
<1>5. HeldIsFinalized'
  <2>1. CASE finalized /\ UNCHANGED stmt
    BY <1>1, <2>1 DEF HeldIsFinalized
  <2>2. CASE Obeys /\ stmt' = Done
    BY <2>2, <1>3 DEF HeldIsFinalized
  <2>3. CASE Ends("close", "undefined", 0)
    <3>1. outcome'.status = "undefined"
      BY <2>3, EndsTypes
    <3>2. finalized' => stmt' # "prepared"
      BY <1>1, <1>3, <1>4 DEF HeldIsFinalized
    <3> QED
      BY <3>1, <3>2 DEF HeldIsFinalized
  <2> QED
    BY <2>1, <2>2, <2>3 DEF Close
<1> QED
  BY <1>1, <1>2, <1>3, <1>4, <1>5, ResultTypes
     DEF Types, Kinds, Blank, RowsFollowSteps, BlobOfRowset

-----------------------------------------------------------------------------
(* The inductive invariant holds for any number of calls.                  *)
THEOREM Inductive == Spec => []IInv
<1>1. IInv /\ [Next]_vars => IInv'
  <2> SUFFICES ASSUME IInv, [Next]_vars PROVE IInv'
    OBVIOUS
  <2>1. CASE UNCHANGED vars
    BY <2>1 DEF vars, IInv, Types, Blank, RowsFollowSteps, HeldIsFinalized, BlobOfRowset
  <2> QED
    BY <2>1, CompileIInv, BindIInv, NextRowIInv, StepIInv, GetBlobIInv, CloseIInv DEF Next
<1> QED
  BY <1>1, InitIInv, PTL DEF Spec

(* Struct, statement and outcome are well typed, and a row that is read    *)
(* exists.                                                                 *)
THEOREM TypeCorrect == Spec => []TypeOK
<1>1. IInv => TypeOK
  BY DEF IInv, Types, Kinds, RowsFollowSteps, TypeOK
<1> QED
  BY <1>1, Inductive, PTL

(* SQCloudVMStep walks a rowset of any length row by row and stays on the  *)
(* last one.                                                               *)
THEOREM RowsAreWalked == Spec => []RowsFollowSteps
<1>1. IInv => RowsFollowSteps
  BY DEF IInv
<1> QED
  BY <1>1, Inductive, PTL

(* A statement the server holds under the index of the struct is never     *)
(* taken for finalized, whatever answers are lost, and SQCloudVMClose      *)
(* leaves none such behind when it succeeds.                               *)
THEOREM HeldFinalized == Spec => []HeldIsFinalized
<1>1. IInv => HeldIsFinalized
  BY DEF IInv
<1> QED
  BY <1>1, Inductive, PTL

(* The memory blobValue points into is freed by a close or an error only.  *)
THEOREM BlobsOutlived == Spec => []BlobOutlivedOnlyByFailure
<1>1. IInv => BlobOutlivedOnlyByFailure
  BY DEF IInv, BlobOfRowset, BlobOutlivedOnlyByFailure
<1> QED
  BY <1>1, Inductive, PTL
=============================================================================
