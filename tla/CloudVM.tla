------------------------------ MODULE CloudVM ------------------------------
(***************************************************************************)
(* A prepared statement: SQLiteCloudVM.kt over the SQCloudVM struct of     *)
(* sqcloud.c, for one caller.  The struct mirrors a statement the server   *)
(* keeps; the mirror is only as good as the answers that arrive.  Every    *)
(* command may fail before or after the server has carried it out (the     *)
(* answer is lost), and the server refuses commands for a statement that   *)
(* it has finalized (external).                                            *)
(***************************************************************************)
EXTENDS Integers, FiniteSets

CONSTANTS
  RowCounts,  \* the numbers of rows a rowset may have
  MaxCalls    \* bound on the calls of the caller

ASSUME VMAssumption == RowCounts \subseteq Nat /\ MaxCalls \in Nat

VARIABLES
  life,      \* of the struct: "none", "live" or "freed"
  result,    \* SQCloudVM.result: kind, rows, and the call that stored it
  rowindex,  \* SQCloudVM.rowindex
  finalized, \* SQCloudVM.finalized
  verr,      \* SQCloudVM.errcode: the call that caused it, 0 if none
  stmt,      \* the statement on the server: "none", "prepared", "adrift", "finalized"
  calls,     \* the calls made so far
  moved,     \* the steps since the rowset arrived
  blob,      \* the result whose memory the last blob value points into
  outcome    \* what the last call did

vars == <<life, result, rowindex, finalized, verr, stmt, calls, moved, blob, outcome>>

NoResult == [kind |-> "none", rows |-> 0, id |-> 0]
Array    == [kind |-> "array", rows |-> 0, id |-> calls + 1]
Rowset(n) == [kind |-> "rowset", rows |-> n, id |-> calls + 1]

(* A call ends; cause is the call whose error it reports.                  *)
Ends(fn, status, cause) ==
  /\ calls' = calls + 1
  /\ outcome' = [fn |-> fn, status |-> status, cause |-> cause]

Returns(fn) == Ends(fn, "value", 0)

May == calls < MaxCalls

(* The server obeys a command for a statement it has.  "adrift" is one     *)
(* that the struct has the wrong index for: the command goes to another.   *)
Obeys == stmt \in {"prepared", "adrift"}
Done  == IF stmt = "prepared" THEN "finalized" ELSE stmt

(* A command that did not succeed was refused, or its answer is lost.      *)
Unanswered == stmt' \in {stmt, Done}

-----------------------------------------------------------------------------
(* SQCloudVMCompile: the answer is an array, which also tells whether the  *)
(* statement is already finalized, or a rowset, which does not carry the   *)
(* index of the statement.                                                 *)
Compile ==
  /\ May /\ life = "none"
  /\ \/ /\ \E done \in BOOLEAN :
             /\ finalized' = done
             /\ stmt' = IF done THEN "finalized" ELSE "prepared"
        /\ result' = Array
        /\ life' = "live"
        /\ Returns("compile")
     \/ /\ \E n \in RowCounts : result' = Rowset(n)
        /\ stmt' \in {"prepared", "adrift"}
        /\ life' = "live"
        /\ Returns("compile")
        /\ UNCHANGED finalized
     \/ /\ stmt' \in {"none", "prepared"}
        /\ Ends("compile", "unhandled", 0)
        /\ UNCHANGED <<life, result, finalized>>
  /\ UNCHANGED <<rowindex, verr, moved, blob>>

(* SQCloudVMSetError: the result goes, the error stays.                    *)
SetError ==
  /\ result' = NoResult
  /\ verr' = calls + 1

(* The seven VM BIND commands, and bindParameterIndex and -Name.           *)
Bind ==
  /\ May /\ life = "live"
  /\ \/ /\ Obeys
        /\ Returns("bind")
        /\ UNCHANGED <<result, verr>>
     \/ /\ SetError
        /\ Ends("bind", "false", calls + 1)
  /\ UNCHANGED <<life, rowindex, finalized, stmt, moved, blob>>

-----------------------------------------------------------------------------
(* Seeded fault: the end is looked for one row too late.                   *)
NextRowPastEnd ==
  /\ May /\ life = "live"
  /\ result.kind = "rowset"
  /\ rowindex' = IF rowindex = result.rows THEN rowindex ELSE rowindex + 1
  /\ moved' = moved + 1
  /\ Returns("step")
  /\ UNCHANGED <<life, result, finalized, verr, stmt, blob>>

(* step() on a rowset: the next row, or RESULT_NULL at the last one.  Both *)
(* look the same to the caller.  A rowset without rows has no last one.    *)
NextRow ==
  /\ May /\ life = "live"
  /\ result.kind = "rowset"
  /\ rowindex' = IF rowindex + 1 = result.rows THEN rowindex ELSE rowindex + 1
  /\ moved' = moved + 1
  /\ Returns("step")
  /\ UNCHANGED <<life, result, finalized, verr, stmt, blob>>

(* VM STEP is answered with all the rows; the statement is done.           *)
StepRows ==
  /\ Obeys /\ stmt' = Done
  /\ \E n \in RowCounts : result' = Rowset(n)
  /\ finalized' = TRUE
  /\ rowindex' = 0 /\ moved' = 0
  /\ Returns("step")
  /\ UNCHANGED verr

(* Seeded fault: an array counts as the end, as a rowset does.             *)
StepArrayEnds ==
  /\ Obeys
  /\ \E done \in BOOLEAN : stmt' = IF done THEN Done ELSE stmt
  /\ finalized' = TRUE
  /\ result' = NoResult
  /\ Returns("step")
  /\ UNCHANGED <<rowindex, verr, moved>>

(* ... with an array: a statement without rows, done or not.  An array of  *)
(* a type that is not decoded tells nothing.                               *)
StepArray ==
  /\ Obeys
  /\ \/ \E done \in BOOLEAN :
          /\ finalized' = done
          /\ stmt' = IF done THEN Done ELSE stmt
     \/ Unanswered /\ UNCHANGED finalized
  /\ result' = NoResult
  /\ Returns("step")
  /\ UNCHANGED <<rowindex, verr, moved>>

StepError ==
  /\ Unanswered
  /\ SetError
  /\ Ends("step", "vm", calls + 1)
  /\ UNCHANGED <<rowindex, finalized, moved>>

(* "should never reach this point": RESULT_ERROR, and vmError reads what   *)
(* an earlier call may have left in the struct.                            *)
StepOther ==
  /\ Obeys /\ Unanswered
  /\ Ends("step", IF verr = 0 THEN "unhandled" ELSE "vm", verr)
  /\ UNCHANGED <<result, rowindex, finalized, verr, moved>>

(* Seeded fault: step() asks the server whatever it already has.           *)
StepAlways ==
  /\ May /\ life = "live"
  /\ StepRows \/ StepArray \/ StepError \/ StepOther
  /\ UNCHANGED <<life, blob>>

Step ==
  /\ May /\ life = "live"
  /\ result.kind # "rowset"
  /\ StepRows \/ StepArray \/ StepError \/ StepOther
  /\ UNCHANGED <<life, blob>>

-----------------------------------------------------------------------------
(* blobValue wraps the memory of the result in a ByteBuffer; a row that    *)
(* does not exist gives NULL.                                              *)
GetBlob ==
  /\ May /\ life = "live"
  /\ blob' = IF result.kind = "rowset" /\ rowindex < result.rows THEN result.id ELSE 0
  /\ Returns("value")
  /\ UNCHANGED <<life, result, rowindex, finalized, verr, stmt, moved>>

(* close(): VM FINALIZE unless the struct says it is done; the struct is   *)
(* freed in any case, and after a failure read for the error to throw,     *)
(* which is undefined.                                                     *)
Close ==
  /\ May /\ life = "live"
  /\ \/ /\ finalized
        /\ Returns("close")
        /\ UNCHANGED stmt
     \/ /\ ~finalized /\ Obeys
        /\ stmt' = Done
        /\ Returns("close")
     \/ /\ ~finalized
        /\ Unanswered
        /\ Ends("close", "undefined", 0)
  /\ life' = "freed"
  /\ result' = NoResult
  /\ UNCHANGED <<rowindex, finalized, verr, moved, blob>>

-----------------------------------------------------------------------------
Init ==
  /\ life = "none" /\ result = NoResult
  /\ rowindex = 0 /\ finalized = FALSE /\ verr = 0
  /\ stmt = "none"
  /\ calls = 0 /\ moved = 0 /\ blob = 0
  /\ outcome = [fn |-> "none", status |-> "none", cause |-> 0]

Next == Compile \/ Bind \/ NextRow \/ Step \/ GetBlob \/ Close

Spec == Init /\ [][Next]_vars

-----------------------------------------------------------------------------
(* The struct, the statement and the outcome are well typed, and a row     *)
(* that is read exists: rowindex stays inside a rowset that has rows.      *)
TypeOK ==
  /\ life \in {"none", "live", "freed"}
  /\ result \in [kind : {"none", "array", "rowset"}, rows : Nat, id : Nat]
  /\ rowindex \in Nat /\ moved \in Nat /\ calls \in Nat
  /\ finalized \in BOOLEAN
  /\ verr \in Nat /\ blob \in Nat
  /\ stmt \in {"none", "prepared", "adrift", "finalized"}
  /\ outcome \in [fn : {"none", "compile", "bind", "step", "value", "close"},
                  status : {"none", "value", "false", "vm", "unhandled", "undefined"}, cause : Nat]
  /\ result.kind = "rowset" /\ result.rows > 0 => rowindex < result.rows

(* step() walks a rowset row by row and then stays on the last one: after  *)
(* k further steps the current row is the k-th, never one beyond the end   *)
(* (SQCloudVMStep compares rowindex + 1 with the number of rows).          *)
RowsFollowSteps ==
  result.kind = "rowset" /\ result.rows > 0
    => rowindex = IF moved < result.rows THEN moved ELSE result.rows - 1

(* While the server holds the statement whose index the struct has, the    *)
(* struct does not call it finalized, whichever answers were lost: so      *)
(* close() sends VM FINALIZE, and returns only once that was obeyed.       *)
HeldIsFinalized ==
  /\ finalized => stmt # "prepared"
  /\ outcome.fn = "close" /\ outcome.status = "value" => stmt # "prepared"

(* The bytes of a blob value stay valid until close() or an error of a     *)
(* bind or step; stepping through the rows does not free them (blobValue   *)
(* copies nothing).                                                        *)
BlobOutlivedOnlyByFailure ==
  blob # 0 /\ blob # result.id => life = "freed" \/ verr # 0
=============================================================================
