---------------------------- MODULE MCCloudBlob ----------------------------
(* An instance of CloudBlob: two rows that updates fill, one that is read  *)
(* in chunks, one that is always empty, and the calls that take each path. *)
EXTENDS CloudBlob, TLC

Short == <<"a">>
Long  == <<"b", "c">>
Large == <<"b", "c", "d">>

MCRows == {1, 2, 3, 4}
MCForeign == (1 :> {Short}) @@ (2 :> {Short, Long}) @@ (3 :> {Large}) @@ (4 :> {<<>>})
MCWidth == (1 :> 1) @@ (2 :> 2) @@ (3 :> 3) @@ (4 :> 0)

Call(op, rows, data, io) ==
  [op |-> op, rows |-> rows, data |-> data, io |-> io,
   threshold |-> 2, one |-> FALSE, auto |-> TRUE]
Alone(c) == [c EXCEPT !.one = TRUE]

MCCalls ==
  { Call("sizes", <<1, 2>>, <<<<>>, <<>>>>, <<"buffer", "buffer">>),
    Call("sizes", <<>>, <<>>, <<>>),
    Call("read", <<2, 4>>, <<<<>>, <<>>>>, <<"buffer", "buffer">>),
    Call("read", <<1>>, <<<<>>>>, <<"file">>),
    Call("read", <<3>>, <<<<>>>>, <<"buffer">>),
    Alone(Call("read", <<3>>, <<<<>>>>, <<"buffer">>)),
    Call("update", <<1, 2>>, <<<<"d">>, <<"d", "e">>>>, <<"file", "buffer">>),
    Call("update", <<2>>, <<<<"d", "e">>>>, <<"nofile">>),
    [Call("update", <<4>>, <<<<>>>>, <<"buffer">>) EXCEPT !.auto = FALSE],
    Call("update", <<>>, <<>>, <<>>) }

(* A field above its threshold, read in two chunks.                        *)
MCCutRows == {1}
MCCutForeign == 1 :> {Short, Long}
MCCutWidth == 1 :> 2
MCCutCalls == { [Call("read", <<1>>, <<<<>>>>, <<"buffer">>) EXCEPT !.threshold = 1],
                Call("read", <<>>, <<>>, <<>>) }
=============================================================================
