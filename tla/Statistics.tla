----------------------------- MODULE Statistics -----------------------------
(***************************************************************************)
(* StatisticsViewModel.kt: the sums, averages, category figures and        *)
(* periods shown for the expenses of the Room table.                       *)
(*                                                                         *)
(* Every navigation pushes an entry on the back stack and each entry has a *)
(* view model of its own (hiltViewModel()); they share the table and, by   *)
(* reference, the list of categories of JSonHandler.  updateStatistics()   *)
(* and updateSelectedPeriod() are coroutines on the main thread that       *)
(* suspend at each query of ItemDao; in between other coroutines, a write  *)
(* to the table or the user may run.                                       *)
(*                                                                         *)
(* A query, the resumption with its answer and the main thread's work up   *)
(* to the next query are one step: two answers that arrive in the other    *)
(* order are these steps in the other order.  An answer read before a      *)
(* write and resumed after it is not among them: such an update is not     *)
(* fresh (below), and no property is about the values of the sums of one   *)
(* that is not.  Leaving a screen takes effect at once.  The settings      *)
(* screen changes none of this state.                                      *)
(***************************************************************************)
EXTENDS Integers, Sequences, FiniteSets, FiniteSetsExt

CONSTANTS
  Items,         \* the rows that may be in the table
  Tables,        \* the contents the table may have at the start
  Now,           \* the current month; months are counted from 1
  Categories,    \* the categories of the app's asset the loops visit
  NewCategories, \* categories the user may add
  Coroutines,    \* bound on the coroutines of one view model at a time
  MaxDepth,      \* bound on the back stack
  MaxWrites,     \* bound on the insertions and deletions
  MaxCategories  \* bound on the categories added

ASSUME StatisticsAssumption ==
  /\ Now \in Nat \ {0}
  /\ IsFiniteSet(Items) /\ Tables \subseteq SUBSET Items
  /\ \A i \in Items : i.month \in 1..Now /\ i.amount \in Nat /\ i.regular \in BOOLEAN
  /\ Categories \in Seq(STRING) /\ NewCategories \subseteq STRING
  /\ \E n \in 1..Len(Categories) : Categories[n] = "Grocery"
  /\ Coroutines # {}
  /\ MaxDepth \in Nat \ {0} /\ MaxWrites \in Nat /\ MaxCategories \in Nat

VARIABLES
  table,      \* the rows of the table
  writes,     \* insertions and deletions Room has not made yet
  written,    \* how many of them the user asked for so far
  categories, \* the shared list, without "Income" and "Add new category"
  stack,      \* the back stack: the view model of each entry
  crash       \* the exception that ended the app, or "none"

vars == <<table, writes, written, categories, stack, crash>>

-----------------------------------------------------------------------------
(* The rows a query of ItemDao selects, and SUM(finalAmount).  SUM of no   *)
(* row is NULL, which Room reads as 0.                                     *)
Expenses(d) == {i \in d : i.category # "Income"}
Incomes(d)  == {i \in d : i.category = "Income"}
Regular(d)  == {i \in d : i.regular}
Since(d, m) == {i \in d : i.month >= m}
In(d, m)    == {i \in d : i.month = m}
Of(d, c)    == {i \in d : i.category = c}
Amount(d)   == MapThenSumSet(LAMBDA i : i.amount, d)

(* The first date of the table, 0 when there is none.                      *)
FirstMonth(d) == IF d = {} THEN 0 ELSE Min({i.month : i \in d})

(* Seeded fault: startDateUpdate() is not called.                          *)
ScriptWithoutStart == <<"total", "totalRegular", "totalIncome",
                        "periodTotal", "periodRegular", "periodIncome">>

(* The queries of updateStatistics in their order; then comes the loop.    *)
Script == <<"startDate", "total", "totalRegular", "totalIncome",
            "periodTotal", "periodRegular", "periodIncome">>
Loop == Len(Script) + 1

Answer(q) ==
  CASE q = "startDate"     -> FirstMonth(table)
    [] q = "total"         -> Amount(Expenses(table))
    [] q = "totalRegular"  -> Amount(Regular(Expenses(table)))
    [] q = "totalIncome"   -> Amount(Incomes(table))
    [] q = "periodTotal"   -> Amount(Since(Expenses(table), Now))
    [] q = "periodRegular" -> Amount(Regular(Since(Expenses(table), Now)))
    [] q = "periodIncome"  -> Amount(Since(Incomes(table), Now))

-----------------------------------------------------------------------------
(* A view model.  A quotient is kept as what is divided by what.  period 0 *)
(* is "AVG"; kind "none" is a coroutine that does not run.                 *)
All == 0
NoQuotient == [sum |-> 0, months |-> 1]
NoStat == [total |-> 0, average |-> NoQuotient, income |-> NoQuotient]
NoCoroutine == [kind |-> "none", step |-> 0, period |-> All, next |-> 0, size |-> 0,
                map |-> <<>>, old |-> NoStat]
NoSums == [total |-> 0, totalRegular |-> 0, totalIncome |-> 0,
           totalNonRegular |-> 0, totalBalance |-> 0,
           periodTotal |-> 0, periodRegular |-> 0, periodIncome |-> 0,
           periodNonRegular |-> 0, periodBalance |-> 0,
           averageRegular |-> NoQuotient, averageNonRegular |-> NoQuotient,
           averageIncome |-> NoQuotient]

Idle(e) == \A j \in Coroutines : e.co[j].kind = "none"
Months(e) == Now - e.startMonth + 1

(* updateStatistics(): the coroutine stands at its first query.  fresh     *)
(* records that it runs alone and the table has not changed since.         *)
StartUpdate(e, j) ==
  [e EXCEPT !.co[j] = [NoCoroutine EXCEPT !.kind = "update", !.step = 1],
            !.fresh = Idle(e)]

(* The init block of the view model starts the first update.  Two of the   *)
(* screens have none.                                                      *)
NewEntry(screen) ==
  LET e == [screen |-> screen, startMonth |-> Now, sums |-> NoSums, stats |-> <<>>,
            periods |-> {}, co |-> [j \in Coroutines |-> NoCoroutine], fresh |-> FALSE]
  IN IF screen \in {"nonregular", "all"} THEN e ELSE StartUpdate(e, CHOOSE j \in Coroutines : TRUE)

(* Seeded fault: a blank first date is taken over.                         *)
WithBlankStart(e, m) == [e EXCEPT !.startMonth = m]

(* What the answer to a query changes, with all that is computed from the  *)
(* state before the next query.  A blank first date keeps the old one.     *)
WithStart(e, m) == [e EXCEPT !.startMonth = IF m = 0 THEN e.startMonth ELSE m]

WithTotals(u) == [u EXCEPT !.totalNonRegular = u.total - u.totalRegular,
                           !.totalBalance = u.totalIncome - u.total]
WithPeriod(u) == [u EXCEPT !.periodNonRegular = u.periodTotal - u.periodRegular]
WithAverages(u, months) ==
  [u EXCEPT !.periodBalance = u.periodIncome - u.periodTotal,
            !.averageRegular = [sum |-> u.totalRegular, months |-> months],
            !.averageNonRegular = [sum |-> u.totalNonRegular, months |-> months],
            !.averageIncome = [sum |-> u.totalIncome, months |-> months]]

(* Seeded fault: the balance is computed before the income is read.        *)
ShownBalanceEarly(e, q, a) ==
  LET u == e.sums IN
  CASE q = "startDate"     -> WithStart(e, a)
    [] q = "total"         -> [e EXCEPT !.sums.total = a, !.sums.totalBalance = u.totalIncome - a]
    [] q = "totalRegular"  -> [e EXCEPT !.sums.totalRegular = a, !.sums.totalNonRegular = u.total - a]
    [] q = "totalIncome"   -> [e EXCEPT !.sums.totalIncome = a]
    [] q = "periodTotal"   -> [e EXCEPT !.sums.periodTotal = a]
    [] q = "periodRegular" -> [e EXCEPT !.sums = WithPeriod([u EXCEPT !.periodRegular = a])]
    [] q = "periodIncome"  ->
         [e EXCEPT !.sums = WithAverages([u EXCEPT !.periodIncome = a], Months(e))]

Shown(e, q, a) ==
  LET u == e.sums IN
  CASE q = "startDate"     -> WithStart(e, a)
    [] q = "total"         -> [e EXCEPT !.sums.total = a]
    [] q = "totalRegular"  -> [e EXCEPT !.sums.totalRegular = a]
    [] q = "totalIncome"   -> [e EXCEPT !.sums = WithTotals([u EXCEPT !.totalIncome = a])]
    [] q = "periodTotal"   -> [e EXCEPT !.sums.periodTotal = a]
    [] q = "periodRegular" -> [e EXCEPT !.sums = WithPeriod([u EXCEPT !.periodRegular = a])]
    [] q = "periodIncome"  ->
         [e EXCEPT !.sums = WithAverages([u EXCEPT !.periodIncome = a], Months(e))]

-----------------------------------------------------------------------------
(* The loops of the two updateCategoryStats over the shared list.          *)
NewLoop(kind, period) ==
  [kind |-> kind, step |-> Loop, period |-> period, next |-> 1, size |-> Len(categories),
   map |-> [c \in {"Grocery"} |-> NoStat], old |-> NoStat]

(* The iterator throws if the list grew since it was made; a month's loop  *)
(* needs the category's old figures (the !!).                              *)
LoopThrows(e, c) ==
  IF c.size # Len(categories) THEN "ConcurrentModificationException"
  ELSE IF c.next <= c.size /\ c.period # All /\ categories[c.next] \notin DOMAIN e.stats
  THEN "NullPointerException"
  ELSE "none"

(* A month's loop reads the old figures before its query.                  *)
LoopGoesOn(e, j, c) ==
  [e EXCEPT !.co[j] = [c EXCEPT !.old = IF c.period = All THEN NoStat
                                                         ELSE e.stats[categories[c.next]]]]

(* Seeded fault: a category with no expenses keeps its old figures.        *)
LoopEndsKeepsShown(e, j, c) ==
  [e EXCEPT !.co[j] = NoCoroutine,
            !.stats = [n \in DOMAIN c.map |->
                         IF c.map[n].total = 0 /\ n \in DOMAIN e.stats THEN e.stats[n] ELSE c.map[n]],
            !.periods = IF c.kind = "update" THEN e.periods \cup (e.startMonth..Now)
                                             ELSE e.periods]

(* The new map is published when the loop ends; an update goes on with     *)
(* updatePeriods, which only ever adds months.                             *)
LoopEnds(e, j, c) ==
  [e EXCEPT !.co[j] = NoCoroutine,
            !.stats = c.map,
            !.periods = IF c.kind = "update" THEN e.periods \cup (e.startMonth..Now)
                                             ELSE e.periods]

(* The head of the loop c of coroutine j; e is what entry k has become.    *)
LoopHead(k, j, e, c) ==
  LET thrown == LoopThrows(e, c) IN
  /\ crash' = thrown
  /\ stack' = IF thrown # "none" THEN stack
              ELSE [stack EXCEPT ![k] = IF c.next > c.size THEN LoopEnds(e, j, c)
                                                           ELSE LoopGoesOn(e, j, c)]

CategoryFigures(e, c) ==
  LET name == categories[c.next]
      total == Amount(Of(table, name))
  IN IF c.period = All
     THEN [total |-> total, average |-> [sum |-> total, months |-> Months(e)],
           income |-> e.sums.averageIncome]
     ELSE [c.old EXCEPT !.total = Amount(In(Of(table, name), c.period))]

-----------------------------------------------------------------------------
(* The coroutines.                                                         *)

(* The next query of updateStatistics before its loop.                     *)
Sum(k, j) ==
  LET c == stack[k].co[j]
      e == Shown(stack[k], Script[c.step], Answer(Script[c.step]))
  IN
  /\ c.step \in 1..Len(Script)
  /\ IF c.step < Len(Script)
     THEN /\ stack' = [stack EXCEPT ![k] = [e EXCEPT !.co[j].step = c.step + 1]]
          /\ UNCHANGED crash
     ELSE LoopHead(k, j, e, NewLoop("update", All))
  /\ UNCHANGED <<table, writes, written, categories>>

(* The query of a loop's category.                                         *)
Category(k, j) ==
  LET e == stack[k]
      c == e.co[j]
      name == categories[c.next]
      filled == [n \in DOMAIN c.map \cup {name} |->
                   IF n = name THEN CategoryFigures(e, c) ELSE c.map[n]]
  IN
  /\ c.step = Loop
  /\ LoopHead(k, j, e, [c EXCEPT !.map = filled, !.next = c.next + 1])
  /\ UNCHANGED <<table, writes, written, categories>>

-----------------------------------------------------------------------------
(* The user.  Only the screen on top of the stack is composed.             *)
Top == stack[Len(stack)]

(* updateSelectedPeriod(): a month is one of the chips shown.              *)
SelectPeriod(j, p) ==
  /\ Top.screen = "stats"
  /\ Top.co[j].kind = "none"
  /\ Top.periods # {} /\ p \in Top.periods \cup {All}
  /\ LoopHead(Len(stack), j, Top, NewLoop("select", p))
  /\ UNCHANGED <<table, writes, written, categories>>

Ask(op, i) ==
  /\ written < MaxWrites
  /\ \A w \in writes : w.item # i
  /\ writes' = writes \cup {[op |-> op, item |-> i, at |-> Len(stack)]}
  /\ written' = written + 1
  /\ UNCHANGED <<table, categories, stack, crash>>

(* The submit buttons of the main screen and of the screen for an expense  *)
(* that is not regular.                                                    *)
Submit(i) ==
  /\ i \notin table
  /\ Top.screen = IF i.regular THEN "home" ELSE "nonregular"
  /\ Ask("insert", i)

(* The menu of a row, which only the main screen shows.                    *)
Delete(i) ==
  /\ i \in table
  /\ Top.screen = "home"
  /\ Ask("delete", i)

(* addNewRegularCat adds to the very list the loops iterate over.          *)
AddCategory(c) ==
  /\ Top.screen = "home"
  /\ Len(categories) < Len(Categories) + MaxCategories
  /\ categories' = Append(categories, c)
  /\ UNCHANGED <<table, writes, written, stack, crash>>

(* A screen that is left takes its coroutines with it: the selections, and *)
(* what was to follow a write.  The view model and its updates stay.       *)
LeftBehind(e) ==
  [e EXCEPT !.co = [j \in Coroutines |-> IF e.co[j].kind = "select" THEN NoCoroutine ELSE e.co[j]]]

Push(screen) == Append([stack EXCEPT ![Len(stack)] = LeftBehind(Top)], NewEntry(screen))

Goes(from) ==
  CASE from = "home"       -> {"stats", "all", "nonregular"}
    [] from = "stats"      -> {"home", "all"}
    [] from = "all"        -> {"home", "stats"}
    [] from = "nonregular" -> {"home"}

Abandoned(ws) == {[w EXCEPT !.at = 0] : w \in ws}

Navigate(screen) ==
  /\ Len(stack) < MaxDepth
  /\ screen \in Goes(Top.screen)
  /\ stack' = Push(screen)
  /\ writes' = Abandoned(writes)
  /\ UNCHANGED <<table, written, categories, crash>>

(* The view model of the popped entry is cleared and its scope cancelled.  *)
Back ==
  /\ Len(stack) > 1
  /\ stack' = SubSeq(stack, 1, Len(stack) - 1)
  /\ writes' = Abandoned(writes)
  /\ UNCHANGED <<table, written, categories, crash>>

-----------------------------------------------------------------------------
(* Room makes a write and, if the screen that asked for it is still there, *)
(* its coroutine goes on: with updateStatistics(), or to the main screen   *)
(* from the other submit.  The row of a deleted item may be gone first.    *)
Stale(s) == [k \in 1..Len(s) |-> [s[k] EXCEPT !.fresh = FALSE]]

Commit(w) ==
  /\ w \in writes
  /\ table' = IF w.op = "insert" THEN table \cup {w.item} ELSE table \ {w.item}
  /\ \/ /\ w.at = 0 \/ w.op = "delete"
        /\ stack' = Stale(stack)
        /\ writes' = writes \ {w}
     \/ /\ w.at # 0 /\ Top.screen = "nonregular"
        /\ Len(stack) < MaxDepth
        /\ stack' = Append(Stale(stack), NewEntry("home"))
        /\ writes' = Abandoned(writes \ {w})
     \/ \E j \in Coroutines :
          /\ w.at # 0 /\ Top.screen # "nonregular"
          /\ Top.co[j].kind = "none"
          /\ stack' = [Stale(stack) EXCEPT ![Len(stack)] = StartUpdate(Top, j)]
          /\ writes' = writes \ {w}
  /\ UNCHANGED <<written, categories, crash>>

(* A write whose coroutine was cancelled before Room took it.              *)
Drop(w) ==
  /\ w \in writes /\ w.at = 0
  /\ writes' = writes \ {w}
  /\ UNCHANGED <<table, written, categories, stack, crash>>

-----------------------------------------------------------------------------
Init ==
  /\ table \in Tables
  /\ writes = {}
  /\ written = 0
  /\ categories = Categories
  /\ stack = <<NewEntry("home")>>
  /\ crash = "none"

Next ==
  /\ crash = "none"
  /\ \/ \E k \in 1..Len(stack), j \in Coroutines :
          /\ stack[k].co[j].kind # "none"
          /\ Sum(k, j) \/ Category(k, j)
     \/ \E j \in Coroutines, p \in 0..Now : SelectPeriod(j, p)
     \/ \E i \in Items : Submit(i) \/ Delete(i)
     \/ \E c \in NewCategories : AddCategory(c)
     \/ \E s \in {"home", "stats", "all", "nonregular"} : Navigate(s)
     \/ Back
     \/ \E w \in writes : Commit(w) \/ Drop(w)

Spec == Init /\ [][Next]_vars

-----------------------------------------------------------------------------
(* Properties.                                                             *)

Quotients == [sum : Int, months : 1..Now]
Figures == [total : Nat, average : Quotients, income : Quotients]

(* The view models, the table and the list are well formed (lines 56-76).  *)
TypeOK ==
  /\ table \subseteq Items
  /\ \A w \in writes : w.op \in {"insert", "delete"} /\ w.item \in Items /\ w.at \in {0, Len(stack)}
  /\ written \in 0..MaxWrites
  /\ categories \in Seq(STRING)
  /\ crash \in {"none", "NullPointerException", "ConcurrentModificationException"}
  /\ Len(stack) \in 1..MaxDepth
  /\ \A k \in 1..Len(stack) :
       LET e == stack[k] IN
       /\ e.startMonth \in 1..Now
       /\ e.periods \subseteq 1..Now
       /\ e.fresh \in BOOLEAN
       /\ \A n \in DOMAIN e.stats : e.stats[n] \in Figures
       /\ \A j \in Coroutines : e.co[j].step \in 0..Loop /\ e.co[j].old \in Figures

(* A view model with no coroutine under way that has finished an update.   *)
Settled(e) == Idle(e) /\ e.periods # {}

(* Whatever updates of a view model overlapped and whatever changed under  *)
(* them, once they are done the figures computed from the sums (balances,  *)
(* non-regular sums, averages: lines 100-115 and 168-203) are those of the *)
(* sums shown beside them.                                                 *)
DerivedAgree ==
  \A k \in 1..Len(stack) : Settled(stack[k]) =>
    LET e == stack[k] u == e.sums IN
    /\ u.totalBalance = u.totalIncome - u.total
    /\ u.totalNonRegular = u.total - u.totalRegular
    /\ u.periodBalance = u.periodIncome - u.periodTotal
    /\ u.periodNonRegular = u.periodTotal - u.periodRegular
    /\ u.averageRegular = [sum |-> u.totalRegular, months |-> Months(e)]
    /\ u.averageNonRegular = [sum |-> u.totalNonRegular, months |-> Months(e)]
    /\ u.averageIncome = [sum |-> u.totalIncome, months |-> Months(e)]

(* When the last update of a view model ran alone and the table has not    *)
(* changed since it began, the view model shows the table: every row has   *)
(* its month among the periods, and the sums are those of the rows         *)
(* (updateStatistics, lines 341-364).                                      *)
FreshShowsTable ==
  \A k \in 1..Len(stack) : Settled(stack[k]) /\ stack[k].fresh =>
    LET u == stack[k].sums IN
    /\ {i.month : i \in table} \subseteq stack[k].periods
    /\ u.total + u.totalIncome = Amount(table)
    /\ u.totalNonRegular = Amount({i \in table : i.category # "Income" /\ ~i.regular})
    /\ u.periodTotal + u.periodIncome = Amount(In(table, Now))
    /\ u.periodNonRegular =
         Amount({i \in In(table, Now) : i.category # "Income" /\ ~i.regular})

(* The category figures shown are never a mixture of two periods, however  *)
(* selections overlap: each loop publishes a map of its own (lines 214 and *)
(* 262), with the averages it took over from the last one.                 *)
OnePeriodShown ==
  \A k \in 1..Len(stack) : Settled(stack[k]) /\ stack[k].fresh =>
    LET e == stack[k]
        TotalOf(n, p) == Amount(IF p = All THEN Of(table, n) ELSE In(Of(table, n), p))
    IN
    /\ \E p \in e.periods \cup {All} :
         \A n \in DOMAIN e.stats : e.stats[n].total = TotalOf(n, p)
    /\ \A n \in DOMAIN e.stats :
         e.stats[n].average = [sum |-> TotalOf(n, All), months |-> Months(e)]

(* A month's loop makes the figures a category does not have yet: "Create  *)
(* a new instance if it doesn't exist" (line 274).                         *)
MissingFiguresAreMade == crash # "NullPointerException"
=============================================================================
