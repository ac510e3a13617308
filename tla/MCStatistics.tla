---------------------------- MODULE MCStatistics ----------------------------
(* Model-checking wrapper of Statistics: a regular expense of last month,  *)
(* one of this month that is not regular, and an income of this month.     *)
(* The amounts are powers of two: a sum tells which rows are in it.        *)
EXTENDS Statistics

OldRegular == [id |-> 1, category |-> "Grocery", month |-> 1, amount |-> 1, regular |-> TRUE]
NewIrregular == [id |-> 2, category |-> "Fuel", month |-> 2, amount |-> 2, regular |-> FALSE]
NewIncome == [id |-> 3, category |-> "Income", month |-> 2, amount |-> 4, regular |-> TRUE]

MCItems == {OldRegular, NewIrregular, NewIncome}
MCTables == {{}, {OldRegular, NewIrregular}}
MCOneTable == {{OldRegular}}
MCCategories == <<"Grocery", "Fuel">>
MCNewCategories == {"Taxi"}
=============================================================================
