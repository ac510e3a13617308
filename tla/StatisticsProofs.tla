-------------------------- MODULE StatisticsProofs --------------------------
(***************************************************************************)
(* Proofs about Statistics, for any rows, categories, number of coroutines *)
(* and depth of the back stack.                                            *)
(*                                                                         *)
(* First, the derived figures of a settled view model always fit its sums. *)
(* The order of updateStatistics is what makes this true: whoever changes  *)
(* a sum will still compute what is derived from it.  So a figure may be   *)
(* wrong only while some update stands between the two.                    *)
(*                                                                         *)
(* Then the types, which figures a view model that no write has overtaken  *)
(* shows, and that they are of one period.  What carries these is EntryOK: *)
(* which sums of an entry its updates have already read from the table,    *)
(* and what their loops have put in their maps so far.                     *)
(***************************************************************************)
EXTENDS Statistics, SequenceTheorems, FiniteSetTheorems, TLAPS

(* Records by their fields, whatever the values.                           *)
IsSums(u) ==
  u = [total |-> u.total, totalRegular |-> u.totalRegular, totalIncome |-> u.totalIncome,
       totalNonRegular |-> u.totalNonRegular, totalBalance |-> u.totalBalance,
       periodTotal |-> u.periodTotal, periodRegular |-> u.periodRegular,
       periodIncome |-> u.periodIncome,
       periodNonRegular |-> u.periodNonRegular, periodBalance |-> u.periodBalance,
       averageRegular |-> u.averageRegular, averageNonRegular |-> u.averageNonRegular,
       averageIncome |-> u.averageIncome]

IsCoroutine(c) ==
  c = [kind |-> c.kind, step |-> c.step, period |-> c.period, next |-> c.next,
       size |-> c.size, map |-> c.map, old |-> c.old]

IsEntry(e) ==
  e = [screen |-> e.screen, startMonth |-> e.startMonth, sums |-> e.sums, stats |-> e.stats,
       periods |-> e.periods, co |-> e.co, fresh |-> e.fresh]

(* Where a coroutine may be.                                               *)
Placed(c) ==
  \/ c.kind = "none" /\ c.step = 0
  \/ c.kind = "select" /\ c.step = 8
  \/ c.kind = "update" /\ c.step \in 1..8

(* No coroutine of e stands at a query from one to another.                *)
None(e, from, to) == \A j \in Coroutines : e.co[j].step \notin from..to

TotalsFit(u) ==
  /\ u.totalBalance = u.totalIncome - u.total
  /\ u.totalNonRegular = u.total - u.totalRegular

PeriodFits(u) == u.periodNonRegular = u.periodTotal - u.periodRegular

AveragesFit(u, months) ==
  /\ u.periodBalance = u.periodIncome - u.periodTotal
  /\ u.averageRegular = [sum |-> u.totalRegular, months |-> months]
  /\ u.averageNonRegular = [sum |-> u.totalNonRegular, months |-> months]
  /\ u.averageIncome = [sum |-> u.totalIncome, months |-> months]

Shape(e) ==
  /\ IsEntry(e) /\ IsSums(e.sums)
  /\ e.co = [j \in Coroutines |-> e.co[j]]
  /\ \A j \in Coroutines : IsCoroutine(e.co[j]) /\ Placed(e.co[j])

Fits(e) ==
  /\ None(e, 3, 4) => TotalsFit(e.sums)
  /\ None(e, 6, 6) => PeriodFits(e.sums)
  /\ None(e, 2, 7) => AveragesFit(e.sums, Months(e))

Good(e) == Shape(e) /\ Fits(e)

(* f is e with its coroutine j moved to c.                                 *)
Onward(e, f, j, c) ==
  IsEntry(f) /\ IsCoroutine(c) /\ Placed(c) /\ f.co = [e.co EXCEPT ![j] = c]

SameSums(e, f) == f.sums = e.sums /\ f.startMonth = e.startMonth

(* What comes after the query i of the script.                             *)
Follows(i, c) == IF i = 7 THEN c.step \in {0, 8} ELSE c.step = i + 1

InLoop(c) == IsCoroutine(c) /\ c.kind \in {"update", "select"} /\ c.step = 8

AfterHead(e, j, c, f) == f = LoopEnds(e, j, c) \/ f = LoopGoesOn(e, j, c)

(* A back stack of good entries, not empty.                                *)
IsStack(s) ==
  /\ s \in Seq({s[k] : k \in 1..Len(s)})
  /\ Len(s) # 0
  /\ \A k \in 1..Len(s) : Good(s[k])

IInv == IsStack(stack)

-----------------------------------------------------------------------------
(* The script has seven queries.                                           *)
LEMMA SevenQueries ==
  /\ Len(Script) = 7 /\ Loop = 8
  /\ Script[1] = "startDate" /\ Script[2] = "total" /\ Script[3] = "totalRegular"
  /\ Script[4] = "totalIncome" /\ Script[5] = "periodTotal" /\ Script[6] = "periodRegular"
  /\ Script[7] = "periodIncome"
BY DEF Script, Loop

(* A sequence is one over the set of its own elements.                     *)
LEMMA OwnElements ==
  ASSUME NEW S, NEW t \in Seq(S)
  PROVE  t \in Seq({t[i] : i \in 1..Len(t)})
<1> DEFINE T == {t[i] : i \in 1..Len(t)}
<1>1. t \in [1..Len(t) -> S] /\ Len(t) \in Nat
  BY LenProperties
<1>2. t \in [1..Len(t) -> T]
  BY <1>1
<1>3. t \in UNION {[1..n -> T] : n \in Nat}
  BY <1>1, <1>2
<1> QED
  BY <1>3, SeqDef

(* Changing, adding and removing entries keeps a stack a stack.            *)
LEMMA StackExcept ==
  ASSUME NEW s, IsStack(s), NEW k \in 1..Len(s), NEW e, Good(e)
  PROVE  IsStack([s EXCEPT ![k] = e])
<1> DEFINE S == {s[i] : i \in 1..Len(s)} \cup {e}
<1>1. s \in Seq(S) /\ e \in S
  BY SeqMonotonic DEF IsStack
<1> HIDE DEF S
<1>2. PICK t : t = [s EXCEPT ![k] = e]
  OBVIOUS
<1>3. t \in Seq(S) /\ Len(t) = Len(s) /\ \A j \in 1..Len(s) : t[j] = IF j = k THEN e ELSE s[j]
  BY <1>1, <1>2, ExceptSeq
<1>4. \A j \in 1..Len(t) : Good(t[j])
  BY <1>3 DEF IsStack
<1>5. t \in Seq({t[j] : j \in 1..Len(t)})
  BY <1>3, OwnElements
<1> QED
  BY <1>2, <1>3, <1>4, <1>5 DEF IsStack

LEMMA StackAppend ==
  ASSUME NEW s, IsStack(s), NEW e, Good(e)
  PROVE  IsStack(Append(s, e))
<1> DEFINE S == {s[i] : i \in 1..Len(s)} \cup {e}
<1>1. s \in Seq(S) /\ e \in S
  BY SeqMonotonic DEF IsStack
<1> HIDE DEF S
<1>2. PICK t : t = Append(s, e)
  OBVIOUS
<1>3. t \in Seq(S) /\ Len(t) = Len(s) + 1 /\ Len(s) \in Nat
  BY <1>1, <1>2, AppendProperties, LenProperties
<1>4. \A j \in 1..Len(s) + 1 : t[j] = IF j = Len(s) + 1 THEN e ELSE s[j]
  BY <1>1, <1>2
<1>5. \A j \in 1..Len(t) : Good(t[j])
  BY <1>3, <1>4 DEF IsStack
<1>6. t \in Seq({t[j] : j \in 1..Len(t)})
  BY <1>3, OwnElements
<1>7. IsStack(t)
  BY <1>3, <1>5, <1>6 DEF IsStack
<1> QED
  BY <1>2, <1>7

LEMMA StackPop ==
  ASSUME NEW s, IsStack(s), Len(s) > 1
  PROVE  IsStack(SubSeq(s, 1, Len(s) - 1))
<1> DEFINE S == {s[i] : i \in 1..Len(s)}
<1>1. s \in Seq(S) /\ Len(s) \in Nat
  BY LenProperties DEF IsStack
<1> HIDE DEF S
<1>2. PICK t : t = SubSeq(s, 1, Len(s) - 1)
  OBVIOUS
<1>3. t \in Seq(S) /\ Len(t) = Len(s) - 1 /\ \A j \in 1..Len(s) - 1 : t[j] = s[j]
  BY <1>1, <1>2
<1>4. \A j \in 1..Len(t) : Good(t[j])
  BY <1>1, <1>3 DEF IsStack
<1>5. t \in Seq({t[j] : j \in 1..Len(t)})
  BY <1>3, OwnElements
<1>6. IsStack(t)
  BY <1>1, <1>3, <1>4, <1>5 DEF IsStack
<1> QED
  BY <1>2, <1>6
-----------------------------------------------------------------------------
(* An entry of which one coroutine moved is good if its figures fit.       *)
LEMMA Moved ==
  ASSUME NEW e, Shape(e), NEW f, IsSums(f.sums), Fits(f),
         NEW j \in Coroutines, NEW c, Onward(e, f, j, c)
  PROVE  Good(f)
<1>1. f.co = [i \in Coroutines |-> f.co[i]] /\ \A i \in Coroutines : f.co[i] = IF i = j THEN c ELSE e.co[i]
  BY DEF Shape, Onward
<1> QED
  BY <1>1 DEF Good, Shape, Onward

(* The effect of the answer to each query.                                 *)
LEMMA ShownStart ==
  ASSUME NEW e, Shape(e), NEW a
  PROVE  LET f == Shown(e, "startDate", a) IN
         IsEntry(f) /\ f.sums = e.sums /\ f.co = e.co
BY DEF Shown, WithStart, Shape, IsEntry

LEMMA ShownTotal ==
  ASSUME NEW e, Shape(e), NEW a
  PROVE  LET f == Shown(e, "total", a) IN
         /\ IsEntry(f) /\ f.co = e.co /\ f.startMonth = e.startMonth
         /\ f.sums = [e.sums EXCEPT !.total = a]
BY DEF Shown, Shape, IsEntry

LEMMA ShownTotalIncome ==
  ASSUME NEW e, Shape(e), NEW a
  PROVE  LET f == Shown(e, "totalIncome", a) IN
         /\ IsEntry(f) /\ f.co = e.co /\ f.startMonth = e.startMonth
         /\ IsSums(f.sums) /\ TotalsFit(f.sums)
         /\ f.sums.periodNonRegular = e.sums.periodNonRegular
         /\ f.sums.periodTotal = e.sums.periodTotal
         /\ f.sums.periodRegular = e.sums.periodRegular
BY DEF Shown, Shape, IsEntry, WithTotals, TotalsFit, IsSums

LEMMA ShownPeriodIncome ==
  ASSUME NEW e, Shape(e), NEW a
  PROVE  LET f == Shown(e, "periodIncome", a) IN
         /\ IsEntry(f) /\ f.co = e.co /\ f.startMonth = e.startMonth
         /\ IsSums(f.sums) /\ AveragesFit(f.sums, Months(e))
         /\ TotalsFit(e.sums) => TotalsFit(f.sums)
         /\ PeriodFits(e.sums) => PeriodFits(f.sums)
BY DEF Shown, Shape, IsEntry, WithAverages, TotalsFit, PeriodFits, AveragesFit, IsSums

LEMMA ShownTotalRegular ==
  ASSUME NEW e, Shape(e), NEW a
  PROVE  LET f == Shown(e, "totalRegular", a) IN
         /\ IsEntry(f) /\ f.co = e.co /\ f.startMonth = e.startMonth
         /\ f.sums = [e.sums EXCEPT !.totalRegular = a]
BY DEF Shown, Shape, IsEntry

LEMMA ShownPeriodTotal ==
  ASSUME NEW e, Shape(e), NEW a
  PROVE  LET f == Shown(e, "periodTotal", a) IN
         /\ IsEntry(f) /\ f.co = e.co /\ f.startMonth = e.startMonth
         /\ f.sums = [e.sums EXCEPT !.periodTotal = a]
BY DEF Shown, Shape, IsEntry

LEMMA ShownPeriodRegular ==
  ASSUME NEW e, Shape(e), NEW a
  PROVE  LET f == Shown(e, "periodRegular", a) IN
         /\ IsEntry(f) /\ f.co = e.co /\ f.startMonth = e.startMonth
         /\ IsSums(f.sums) /\ PeriodFits(f.sums)
         /\ TotalsFit(e.sums) => TotalsFit(f.sums)
BY DEF Shown, Shape, IsEntry, WithPeriod, TotalsFit, PeriodFits, IsSums

(* Once its query is answered and its coroutine has gone on to the next    *)
(* one, or from the last to the loop or out of it, an entry is as good.    *)
LEMMA Answered ==
  ASSUME NEW e, Good(e), NEW j \in Coroutines, NEW i \in 1..7, e.co[j].step = i,
         NEW a, NEW g, g = Shown(e, Script[i], a),
         NEW f, SameSums(g, f), NEW c, Onward(e, f, j, c), Follows(i, c)
  PROVE  Good(f)
<1> USE SevenQueries
<1> USE DEF SameSums, Follows
<1>1. Shape(e) /\ Fits(e)
  BY DEF Good
<1>2. \A l \in Coroutines : f.co[l] = IF l = j THEN c ELSE e.co[l]
  BY <1>1 DEF Shape, Onward
<1>3. /\ i \notin 3..4 /\ None(f, 3, 4) => None(e, 3, 4)
      /\ i \notin {6} /\ None(f, 6, 6) => None(e, 6, 6)
      /\ i # 7 => ~None(f, 2, 7)
      /\ i \in {2, 3} => ~None(f, 3, 4)
      /\ i = 5 => ~None(f, 6, 6)
  BY <1>2 DEF None
<1>4. i \in {1, 2, 3, 4, 5, 6, 7}
  OBVIOUS
<1>5. IsSums(f.sums) /\ Fits(f)
  <2>1. CASE i = 1
    BY <1>1, <1>3, <2>1, ShownStart DEF Fits, Shape
  <2>2. CASE i = 2
    <3>1. f.sums = [e.sums EXCEPT !.total = a]
      BY <1>1, <2>2, ShownTotal
    <3> QED
      BY <1>1, <1>3, <2>2, <3>1 DEF Fits, Shape, IsSums, PeriodFits
  <2>3. CASE i = 3
    <3>1. f.sums = [e.sums EXCEPT !.totalRegular = a]
      BY <1>1, <2>3, ShownTotalRegular
    <3> QED
      BY <1>1, <1>3, <2>3, <3>1 DEF Fits, Shape, IsSums, PeriodFits
  <2>4. CASE i = 4
    <3>1. /\ IsSums(f.sums) /\ TotalsFit(f.sums)
          /\ PeriodFits(e.sums) => PeriodFits(f.sums)
      BY <1>1, <2>4, ShownTotalIncome DEF PeriodFits
    <3> QED
      BY <1>1, <1>3, <2>4, <3>1 DEF Fits
  <2>5. CASE i = 5
    <3>1. f.sums = [e.sums EXCEPT !.periodTotal = a]
      BY <1>1, <2>5, ShownPeriodTotal
    <3> QED
      BY <1>1, <1>3, <2>5, <3>1 DEF Fits, Shape, IsSums, TotalsFit
  <2>6. CASE i = 6
    BY <1>1, <1>3, <2>6, ShownPeriodRegular DEF Fits
  <2>7. CASE i = 7
    <3>1. /\ IsSums(f.sums) /\ AveragesFit(f.sums, Months(e))
          /\ TotalsFit(e.sums) => TotalsFit(f.sums)
          /\ PeriodFits(e.sums) => PeriodFits(f.sums)
          /\ f.startMonth = e.startMonth
      BY <1>1, <2>7, ShownPeriodIncome
    <3>2. Months(f) = Months(e)
      BY <3>1 DEF Months
    <3> QED
      BY <1>1, <1>3, <2>7, <3>1, <3>2 DEF Fits
  <2> QED
    BY <1>4, <2>1, <2>2, <2>3, <2>4, <2>5, <2>6, <2>7
<1> QED
  BY <1>1, <1>5, Moved

(* An answer changes neither the coroutines nor what an entry is.          *)
LEMMA ShownEntry ==
  ASSUME NEW e, Shape(e), NEW i \in 1..7, NEW a
  PROVE  IsEntry(Shown(e, Script[i], a)) /\ Shown(e, Script[i], a).co = e.co
<1>1. PICK q : q = Script[i]
  OBVIOUS
<1>2. PICK f : f = Shown(e, q, a)
  OBVIOUS
<1>3. i \in {1, 2, 3, 4, 5, 6, 7}
  OBVIOUS
<1>4. q \in {"startDate", "total", "totalRegular", "totalIncome",
             "periodTotal", "periodRegular", "periodIncome"}
  BY <1>1, <1>3, SevenQueries
<1>5. q = "startDate" => IsEntry(f) /\ f.co = e.co
  BY <1>2, ShownStart
<1>6. q = "total" => IsEntry(f) /\ f.co = e.co
  BY <1>2, ShownTotal
<1>7. q = "totalRegular" => IsEntry(f) /\ f.co = e.co
  BY <1>2, ShownTotalRegular
<1>8. q = "totalIncome" => IsEntry(f) /\ f.co = e.co
  BY <1>2, ShownTotalIncome
<1>9. q = "periodTotal" => IsEntry(f) /\ f.co = e.co
  BY <1>2, ShownPeriodTotal
<1>10. q = "periodRegular" => IsEntry(f) /\ f.co = e.co
  BY <1>2, ShownPeriodRegular
<1>11. q = "periodIncome" => IsEntry(f) /\ f.co = e.co
  BY <1>2, ShownPeriodIncome
<1> QED
  BY <1>1, <1>2, <1>4, <1>5, <1>6, <1>7, <1>8, <1>9, <1>10, <1>11

-----------------------------------------------------------------------------
(* A loop that ends, or that goes on, changes no sum.                      *)
LEMMA LoopEntry ==
  ASSUME NEW e, IsEntry(e), NEW j \in Coroutines, NEW c, InLoop(c),
         NEW f, AfterHead(e, j, c, f)
  PROVE  SameSums(e, f) /\ \E d : Onward(e, f, j, d) /\ d.step \in {0, 8}
<1>1. CASE f = LoopEnds(e, j, c)
  <2>1. IsEntry(f) /\ SameSums(e, f)
    BY <1>1 DEF LoopEnds, IsEntry, SameSums
  <2>2. f.co = [e.co EXCEPT ![j] = NoCoroutine]
    BY <1>1 DEF LoopEnds, IsEntry
  <2>3. IsCoroutine(NoCoroutine) /\ Placed(NoCoroutine) /\ NoCoroutine.step = 0
    BY DEF NoCoroutine, IsCoroutine, Placed
  <2>4. Onward(e, f, j, NoCoroutine)
    BY <2>1, <2>2, <2>3 DEF Onward
  <2> QED
    BY <2>1, <2>3, <2>4
<1>2. CASE f = LoopGoesOn(e, j, c)
  <2>1. PICK o : f = [e EXCEPT !.co[j] = [c EXCEPT !.old = o]]
    BY <1>2 DEF LoopGoesOn
  <2>2. PICK d : d = [c EXCEPT !.old = o]
    OBVIOUS
  <2>3. IsCoroutine(d) /\ Placed(d) /\ d.step = 8
    BY <2>2 DEF IsCoroutine, Placed, InLoop
  <2>4. IsEntry(f) /\ SameSums(e, f) /\ f.co = [e.co EXCEPT ![j] = d]
    BY <2>1, <2>2 DEF IsEntry, SameSums
  <2>5. Onward(e, f, j, d)
    BY <2>3, <2>4 DEF Onward
  <2> QED
    BY <2>3, <2>4, <2>5
<1> QED
  BY <1>1, <1>2 DEF AfterHead

(* A coroutine that starts, goes on with or ends its loop keeps an entry   *)
(* good.                                                                   *)
LEMMA LoopKeepsGood ==
  ASSUME NEW e, Good(e), NEW j \in Coroutines, e.co[j].step \notin 1..7,
         NEW c, InLoop(c), NEW f, AfterHead(e, j, c, f)
  PROVE  Good(f)
<1>1. Shape(e) /\ Fits(e) /\ IsEntry(e) /\ IsSums(e.sums)
  BY DEF Good, Shape
<1>2. PICK d : SameSums(e, f) /\ Onward(e, f, j, d) /\ d.step \in {0, 8}
  BY <1>1, LoopEntry
<1>3. \A l \in Coroutines : f.co[l] = IF l = j THEN d ELSE e.co[l]
  BY <1>1, <1>2 DEF Shape, Onward
<1>4. Fits(f) /\ IsSums(f.sums)
  <2>1. /\ None(f, 3, 4) => None(e, 3, 4)
        /\ None(f, 6, 6) => None(e, 6, 6)
        /\ None(f, 2, 7) => None(e, 2, 7)
    BY <1>3 DEF None
  <2>2. Months(f) = Months(e) /\ f.sums = e.sums
    BY <1>2 DEF Months, SameSums
  <2> QED
    BY <1>1, <2>1, <2>2 DEF Fits
<1> QED
  BY <1>1, <1>2, <1>4, Moved

(* The head of a loop changes nothing but the entry it is the loop of.     *)
LEMMA LoopHeadSteps ==
  ASSUME NEW k, NEW j, NEW e, NEW c, LoopHead(k, j, e, c)
  PROVE  \/ stack' = stack
         \/ \E f : AfterHead(e, j, c, f) /\ stack' = [stack EXCEPT ![k] = f]
BY DEF LoopHead, AfterHead

(* The coroutines' actions keep every entry good.                          *)
LEMMA SumKeeps ==
  ASSUME IInv, NEW k \in 1..Len(stack), NEW j \in Coroutines, Sum(k, j)
  PROVE  IInv'
<1>1. IsStack(stack) /\ Good(stack[k]) /\ Shape(stack[k])
  BY DEF IInv, IsStack, Good
<1>2. PICK s : s = stack[k]
  OBVIOUS
<1>3. PICK c : c = s.co[j]
  OBVIOUS
<1>4. PICK i : i = c.step
  OBVIOUS
<1>5. IsCoroutine(c) /\ Placed(c)
  BY <1>1, <1>2, <1>3 DEF Shape
<1>6. i \in 1..7
  BY <1>2, <1>3, <1>4, SevenQueries DEF Sum
<1>7. c.kind = "update"
  BY <1>4, <1>5, <1>6 DEF Placed
<1>8. PICK a : a = Answer(Script[i])
  OBVIOUS
<1>9. PICK e : e = Shown(s, Script[i], a)
  OBVIOUS
<1>10. IsEntry(e) /\ e.co = s.co
  BY <1>1, <1>2, <1>6, <1>9, ShownEntry
<1>11. s.co[j].step = i /\ Good(s) /\ s.co = [l \in Coroutines |-> s.co[l]]
  BY <1>1, <1>2, <1>3, <1>4 DEF Shape
<1>12. CASE i < 7
  <2>1. PICK f : f = [e EXCEPT !.co[j].step = i + 1]
    OBVIOUS
  <2>2. stack' = [stack EXCEPT ![k] = f]
    BY <1>2, <1>3, <1>4, <1>8, <1>9, <1>12, <2>1, SevenQueries DEF Sum
  <2>3. PICK d : d = [c EXCEPT !.step = i + 1]
    OBVIOUS
  <2>4. IsCoroutine(d) /\ Placed(d) /\ d.step = i + 1
    <3>1. d.kind = "update" /\ d.step = i + 1 /\ IsCoroutine(d)
      BY <1>5, <1>7, <2>3 DEF IsCoroutine
    <3> QED
      BY <1>6, <1>12, <3>1 DEF Placed
  <2>5. IsEntry(f) /\ SameSums(e, f)
    BY <1>10, <2>1 DEF IsEntry, SameSums
  <2>6. f.co = [s.co EXCEPT ![j] = d]
    BY <1>3, <1>10, <1>11, <2>1, <2>3 DEF IsEntry
  <2>7. Onward(s, f, j, d) /\ Follows(i, d)
    BY <1>12, <2>4, <2>5, <2>6 DEF Onward, Follows
  <2>8. Good(f)
    BY <1>6, <1>9, <1>11, <2>5, <2>7, Answered
  <2> QED
    BY <1>1, <2>2, <2>8, StackExcept DEF IInv
<1>13. CASE i = 7
  <2>1. PICK l : l = NewLoop("update", All)
    OBVIOUS
  <2>2. InLoop(l)
    BY <2>1, SevenQueries DEF NewLoop, IsCoroutine, InLoop
  <2>3. LoopHead(k, j, e, l)
    BY <1>2, <1>3, <1>4, <1>8, <1>9, <1>13, <2>1, SevenQueries DEF Sum
  <2>4. ASSUME NEW f, AfterHead(e, j, l, f), stack' = [stack EXCEPT ![k] = f]
        PROVE  IInv'
    <3>1. PICK d : SameSums(e, f) /\ Onward(e, f, j, d) /\ d.step \in {0, 8}
      BY <1>10, <2>2, <2>4, LoopEntry
    <3>2. Onward(s, f, j, d) /\ Follows(i, d)
      BY <1>10, <1>13, <3>1 DEF Onward, Follows
    <3>3. Good(f)
      BY <1>6, <1>9, <1>11, <3>1, <3>2, Answered
    <3> QED
      BY <1>1, <2>4, <3>3, StackExcept DEF IInv
  <2>5. CASE stack' = stack
    BY <1>1, <2>5 DEF IInv
  <2> QED
    BY <2>3, <2>4, <2>5, LoopHeadSteps
<1> QED
  BY <1>6, <1>12, <1>13

LEMMA CategoryKeeps ==
  ASSUME IInv, NEW k \in 1..Len(stack), NEW j \in Coroutines, Category(k, j)
  PROVE  IInv'
<1>1. IsStack(stack) /\ Good(stack[k]) /\ Shape(stack[k])
  BY DEF IInv, IsStack, Good
<1>2. PICK s : s = stack[k]
  OBVIOUS
<1>3. PICK c : c = s.co[j]
  OBVIOUS
<1>4. IsCoroutine(c) /\ Placed(c) /\ c.step = 8
  BY <1>1, <1>2, <1>3, SevenQueries DEF Category, Shape
<1>5. c.kind \in {"update", "select"}
  BY <1>4 DEF Placed
<1>6. PICK m : LoopHead(k, j, s, [c EXCEPT !.map = m, !.next = c.next + 1])
  BY <1>2, <1>3 DEF Category
<1>7. PICK l : l = [c EXCEPT !.map = m, !.next = c.next + 1]
  OBVIOUS
<1>8. InLoop(l)
  BY <1>4, <1>5, <1>7 DEF IsCoroutine, InLoop
<1>9. ASSUME NEW f, AfterHead(s, j, l, f), stack' = [stack EXCEPT ![k] = f]
      PROVE  IInv'
  <2>1. s.co[j].step \notin 1..7 /\ Good(s)
    BY <1>1, <1>2, <1>3, <1>4
  <2>2. Good(f)
    BY <1>8, <1>9, <2>1, LoopKeepsGood
  <2> QED
    BY <1>1, <1>9, <2>2, StackExcept DEF IInv
<1>10. CASE stack' = stack
  BY <1>1, <1>10 DEF IInv
<1> QED
  BY <1>6, <1>7, <1>9, <1>10, LoopHeadSteps

(* The entry on top of the stack is one of its entries.                    *)
LEMMA TopIsGood ==
  ASSUME IInv
  PROVE  IsStack(stack) /\ Len(stack) \in 1..Len(stack) /\ Good(Top) /\ Shape(Top)
<1>1. IsStack(stack) /\ Len(stack) \in Nat /\ Len(stack) # 0
  BY LenProperties DEF IInv, IsStack
<1>2. Len(stack) \in 1..Len(stack)
  BY <1>1
<1> QED
  BY <1>1, <1>2 DEF IsStack, Top, Good

LEMMA SelectPeriodKeeps ==
  ASSUME IInv, NEW j \in Coroutines, NEW p, SelectPeriod(j, p)
  PROVE  IInv'
<1>1. IsStack(stack) /\ Len(stack) \in 1..Len(stack)
  BY TopIsGood
<1>2. PICK e : e = Top
  OBVIOUS
<1>3. Good(e) /\ Placed(e.co[j])
  BY <1>2, TopIsGood DEF Shape
<1>4. e.co[j].step \notin 1..7
  BY <1>2, <1>3 DEF SelectPeriod, Placed
<1>5. PICK l : l = NewLoop("select", p)
  OBVIOUS
<1>6. InLoop(l)
  BY <1>5, SevenQueries DEF NewLoop, IsCoroutine, InLoop
<1>7. LoopHead(Len(stack), j, e, l)
  BY <1>2, <1>5 DEF SelectPeriod
<1>8. ASSUME NEW f, AfterHead(e, j, l, f),
             stack' = [stack EXCEPT ![Len(stack)] = f]
      PROVE  IInv'
  <2>1. Good(f)
    BY <1>3, <1>4, <1>6, <1>8, LoopKeepsGood
  <2> QED
    BY <1>1, <1>8, <2>1, StackExcept DEF IInv
<1>9. CASE stack' = stack
  BY <1>1, <1>9 DEF IInv
<1> QED
  BY <1>7, <1>8, <1>9, LoopHeadSteps

-----------------------------------------------------------------------------
(* An entry whose sums and running queries stay stays good.                *)
LEMMA Undisturbed ==
  ASSUME NEW e, Good(e), NEW f, IsEntry(f), SameSums(e, f),
         f.co = [l \in Coroutines |-> f.co[l]],
         \A l \in Coroutines : IsCoroutine(f.co[l]) /\ Placed(f.co[l]),
         \A l \in Coroutines : e.co[l].step \in 1..7 => f.co[l].step = e.co[l].step
  PROVE  Good(f)
<1>1. Shape(e) /\ Fits(e) /\ f.sums = e.sums
  BY DEF Good, SameSums
<1>2. Shape(f)
  BY <1>1 DEF Shape
<1>3. /\ None(f, 3, 4) => None(e, 3, 4)
      /\ None(f, 6, 6) => None(e, 6, 6)
      /\ None(f, 2, 7) => None(e, 2, 7)
  BY DEF None
<1>4. Months(f) = Months(e)
  BY DEF Months, SameSums
<1> QED
  BY <1>1, <1>2, <1>3, <1>4 DEF Fits, Good

LEMMA StaleEntry ==
  ASSUME NEW e, Good(e)
  PROVE  Good([e EXCEPT !.fresh = FALSE])
<1>1. PICK f : f = [e EXCEPT !.fresh = FALSE]
  OBVIOUS
<1>2. Shape(e)
  BY DEF Good
<1>3. IsEntry(f) /\ SameSums(e, f) /\ f.co = e.co
  BY <1>1, <1>2 DEF Shape, IsEntry, SameSums
<1>4. Good(f)
  BY <1>2, <1>3, Undisturbed DEF Shape
<1> QED
  BY <1>1, <1>4

LEMMA LeftBehindEntry ==
  ASSUME NEW e, Good(e)
  PROVE  Good(LeftBehind(e))
<1>1. PICK f : f = LeftBehind(e)
  OBVIOUS
<1>2. Shape(e)
  BY DEF Good
<1>3. IsEntry(f) /\ SameSums(e, f)
  BY <1>1, <1>2 DEF Shape, IsEntry, SameSums, LeftBehind
<1>4. f.co = [l \in Coroutines |-> IF e.co[l].kind = "select" THEN NoCoroutine ELSE e.co[l]]
  BY <1>1, <1>2 DEF Shape, IsEntry, LeftBehind
<1>5. IsCoroutine(NoCoroutine) /\ Placed(NoCoroutine)
  BY DEF NoCoroutine, IsCoroutine, Placed
<1>6. \A l \in Coroutines : IsCoroutine(f.co[l]) /\ Placed(f.co[l])
  BY <1>2, <1>4, <1>5 DEF Shape
<1>7. \A l \in Coroutines : e.co[l].step \in 1..7 => f.co[l].step = e.co[l].step
  BY <1>2, <1>4 DEF Shape, Placed
<1>8. f.co = [l \in Coroutines |-> f.co[l]]
  BY <1>4
<1>9. Good(f)
  BY <1>3, <1>6, <1>7, <1>8, Undisturbed
<1> QED
  BY <1>1, <1>9

LEMMA StartEntry ==
  ASSUME NEW e, Good(e), NEW j, j \in Coroutines => e.co[j].step \notin 1..7
  PROVE  Good(StartUpdate(e, j))
<1>1. PICK d : d = [NoCoroutine EXCEPT !.kind = "update", !.step = 1]
  OBVIOUS
<1>2. IsCoroutine(d) /\ Placed(d)
  <2>1. d.kind = "update" /\ d.step = 1 /\ IsCoroutine(d)
    BY <1>1 DEF NoCoroutine, IsCoroutine
  <2> QED
    BY <2>1 DEF Placed
<1>3. PICK b : b = Idle(e)
  OBVIOUS
<1>4. PICK f : f = [e EXCEPT !.co[j] = d, !.fresh = b]
  OBVIOUS
<1>5. f = StartUpdate(e, j)
  BY <1>1, <1>3, <1>4 DEF StartUpdate
<1>6. Shape(e)
  BY DEF Good
<1>7. IsEntry(f) /\ SameSums(e, f) /\ f.co = [e.co EXCEPT ![j] = d]
  BY <1>4, <1>6 DEF Shape, IsEntry, SameSums
<1>8. \A l \in Coroutines : f.co[l] = IF l = j THEN d ELSE e.co[l]
  BY <1>6, <1>7 DEF Shape
<1>9. f.co = [l \in Coroutines |-> f.co[l]]
  BY <1>6, <1>7 DEF Shape
<1>10. Good(f)
  BY <1>2, <1>6, <1>7, <1>8, <1>9, Undisturbed DEF Shape
<1> QED
  BY <1>5, <1>10

(* The view model of a new entry is good, its update just started.         *)
LEMMA NewEntryIsGood ==
  ASSUME NEW screen
  PROVE  Good(NewEntry(screen))
<1>1. PICK e : e = [screen |-> screen, startMonth |-> Now, sums |-> NoSums, stats |-> <<>>,
                    periods |-> {}, co |-> [j \in Coroutines |-> NoCoroutine], fresh |-> FALSE]
  OBVIOUS
<1>2. IsCoroutine(NoCoroutine) /\ Placed(NoCoroutine) /\ NoCoroutine.step = 0
  BY DEF NoCoroutine, IsCoroutine, Placed
<1>3. IsSums(NoSums)
  BY DEF NoSums, IsSums
<1>4. Shape(e)
  BY <1>1, <1>2, <1>3 DEF Shape, IsEntry
<1>5. Months(e) = 1
  BY <1>1, StatisticsAssumption DEF Months
<1>6. TotalsFit(NoSums) /\ PeriodFits(NoSums)
  BY DEF NoSums, TotalsFit, PeriodFits
<1>7. AveragesFit(NoSums, 1)
  BY DEF NoSums, NoQuotient, AveragesFit
<1>8. Good(e)
  BY <1>1, <1>4, <1>5, <1>6, <1>7 DEF Fits, Good
<1>9. \A j \in Coroutines : e.co[j].step \notin 1..7
  BY <1>1, <1>2
<1>10. PICK j : j = CHOOSE l \in Coroutines : TRUE
  OBVIOUS
<1>11. NewEntry(screen) = IF screen \in {"nonregular", "all"} THEN e ELSE StartUpdate(e, j)
  BY <1>1, <1>10 DEF NewEntry
<1>12. Good(StartUpdate(e, j))
  BY <1>8, <1>9, StartEntry
<1> QED
  BY <1>8, <1>11, <1>12

(* A write leaves a stack a stack of the same length.                      *)
LEMMA StaleStack ==
  ASSUME NEW s, IsStack(s)
  PROVE  IsStack(Stale(s)) /\ Len(Stale(s)) = Len(s)
<1>1. PICK t : t = Stale(s)
  OBVIOUS
<1>2. Len(s) \in Nat /\ Len(s) # 0
  BY LenProperties DEF IsStack
<1>3. DOMAIN t = 1..Len(s) /\ \A k \in 1..Len(s) : t[k] = [s[k] EXCEPT !.fresh = FALSE]
  BY <1>1 DEF Stale
<1>4. t = [k \in 1..Len(s) |-> t[k]]
  BY <1>1 DEF Stale
<1>5. PICK T : T = {t[k] : k \in 1..Len(s)}
  OBVIOUS
<1>6. t \in [1..Len(s) -> T]
  BY <1>4, <1>5
<1>7. t \in UNION {[1..n -> T] : n \in Nat}
  BY <1>2, <1>6
<1>8. t \in Seq(T)
  BY <1>7, SeqDef
<1>9. Len(t) = Len(s)
  BY <1>2, <1>3, <1>8, LenProperties
<1>10. \A k \in 1..Len(t) : Good(t[k])
  BY <1>3, <1>9, StaleEntry DEF IsStack
<1>11. IsStack(t)
  BY <1>2, <1>5, <1>8, <1>9, <1>10 DEF IsStack
<1> QED
  BY <1>1, <1>9, <1>11

LEMMA NavigateKeeps ==
  ASSUME IInv, NEW screen, Navigate(screen)
  PROVE  IInv'
<1>1. IsStack(stack) /\ Len(stack) \in 1..Len(stack) /\ Good(Top)
  BY TopIsGood
<1>2. PICK e : e = LeftBehind(Top)
  OBVIOUS
<1>3. Good(e)
  BY <1>1, <1>2, LeftBehindEntry
<1>4. PICK t : t = [stack EXCEPT ![Len(stack)] = e]
  OBVIOUS
<1>5. IsStack(t)
  BY <1>1, <1>3, <1>4, StackExcept
<1>6. PICK f : f = NewEntry(screen)
  OBVIOUS
<1>7. stack' = Append(t, f)
  BY <1>2, <1>4, <1>6 DEF Navigate, Push
<1>8. IsStack(Append(t, f))
  BY <1>5, <1>6, NewEntryIsGood, StackAppend
<1> QED
  BY <1>7, <1>8 DEF IInv

LEMMA BackKeeps ==
  ASSUME IInv, Back
  PROVE  IInv'
<1>1. IsStack(stack) /\ Len(stack) > 1 /\ stack' = SubSeq(stack, 1, Len(stack) - 1)
  BY DEF IInv, Back
<1>2. IsStack(SubSeq(stack, 1, Len(stack) - 1))
  BY <1>1, StackPop
<1> QED
  BY <1>1, <1>2 DEF IInv

LEMMA CommitKeeps ==
  ASSUME IInv, NEW w, Commit(w)
  PROVE  IInv'
<1>1. IsStack(stack) /\ Len(stack) \in 1..Len(stack) /\ Good(Top) /\ Shape(Top)
  BY TopIsGood
<1>2. PICK t : t = Stale(stack)
  OBVIOUS
<1>3. IsStack(t) /\ Len(t) = Len(stack)
  BY <1>1, <1>2, StaleStack
<1>4. PICK f : f = NewEntry("home")
  OBVIOUS
<1>5. \/ stack' = t
      \/ stack' = Append(t, f)
      \/ \E j \in Coroutines :
           Top.co[j].kind = "none" /\ stack' = [t EXCEPT ![Len(stack)] = StartUpdate(Top, j)]
  BY <1>2, <1>4 DEF Commit
<1>6. CASE stack' = t
  BY <1>3, <1>6 DEF IInv
<1>7. CASE stack' = Append(t, f)
  <2>1. IsStack(Append(t, f))
    BY <1>3, <1>4, NewEntryIsGood, StackAppend
  <2> QED
    BY <1>7, <2>1 DEF IInv
<1>8. ASSUME NEW j \in Coroutines, Top.co[j].kind = "none",
             stack' = [t EXCEPT ![Len(stack)] = StartUpdate(Top, j)]
      PROVE  IInv'
  <2>1. Placed(Top.co[j])
    BY <1>1 DEF Shape
  <2>2. Top.co[j].step \notin 1..7
    BY <1>8, <2>1 DEF Placed
  <2>3. PICK e : e = StartUpdate(Top, j)
    OBVIOUS
  <2>4. Good(e)
    BY <1>1, <2>2, <2>3, StartEntry
  <2>5. IsStack([t EXCEPT ![Len(stack)] = e])
    BY <1>1, <1>3, <2>4, StackExcept
  <2> QED
    BY <1>8, <2>3, <2>5 DEF IInv
<1> QED
  BY <1>5, <1>6, <1>7, <1>8

(* The first entry is good, and every step keeps all entries so.           *)
LEMMA IInvInit ==
  Init => IInv
<1> SUFFICES ASSUME Init PROVE IInv
  OBVIOUS
<1>1. PICK e : e = NewEntry("home")
  OBVIOUS
<1>2. stack = <<e>> /\ Good(e)
  BY <1>1, NewEntryIsGood DEF Init
<1>3. Len(stack) = 1 /\ stack[1] = e /\ stack \in Seq({e})
  BY <1>2
<1>4. \A k \in 1..Len(stack) : Good(stack[k])
  BY <1>2, <1>3
<1>5. stack \in Seq({stack[k] : k \in 1..Len(stack)})
  BY <1>3, OwnElements
<1> QED
  BY <1>3, <1>4, <1>5 DEF IInv, IsStack

LEMMA IInvStep ==
  IInv /\ [Next]_vars => IInv'
<1> SUFFICES ASSUME IInv, [Next]_vars PROVE IInv'
  OBVIOUS
<1>1. CASE UNCHANGED stack
  BY <1>1 DEF IInv
<1>2. ASSUME NEW k \in 1..Len(stack), NEW j \in Coroutines, Sum(k, j) \/ Category(k, j)
      PROVE  IInv'
  BY <1>2, SumKeeps, CategoryKeeps
<1>3. ASSUME NEW j \in Coroutines, NEW p, SelectPeriod(j, p) PROVE IInv'
  BY <1>3, SelectPeriodKeeps
<1>4. ASSUME NEW s, Navigate(s) PROVE IInv'
  BY <1>4, NavigateKeeps
<1>5. CASE Back
  BY <1>5, BackKeeps
<1>6. ASSUME NEW w, Commit(w) PROVE IInv'
  BY <1>6, CommitKeeps
<1>7. ASSUME NEW i, Submit(i) \/ Delete(i) PROVE UNCHANGED stack
  BY <1>7 DEF Submit, Delete, Ask
<1>8. ASSUME NEW c, AddCategory(c) PROVE UNCHANGED stack
  BY <1>8 DEF AddCategory
<1>9. ASSUME NEW w, Drop(w) PROVE UNCHANGED stack
  BY <1>9 DEF Drop
<1>10. CASE UNCHANGED vars
  BY <1>1, <1>10 DEF vars
<1>11. CASE Next
  BY <1>1, <1>2, <1>3, <1>4, <1>5, <1>6, <1>7, <1>8, <1>9, <1>11 DEF Next
<1> QED
  BY <1>10, <1>11

(* On every screen of the back stack the figures computed from the sums    *)
(* are those of the sums shown, once its coroutines are done, whatever     *)
(* updates overlapped and whatever the user did meanwhile.                 *)
THEOREM DerivedFiguresAgree == Spec => []DerivedAgree
<1>1. IInv => DerivedAgree
  <2> SUFFICES ASSUME IInv, NEW k \in 1..Len(stack), Settled(stack[k])
               PROVE  LET e == stack[k] IN
                      TotalsFit(e.sums) /\ PeriodFits(e.sums) /\ AveragesFit(e.sums, Months(e))
    BY DEF DerivedAgree, TotalsFit, PeriodFits, AveragesFit
  <2>1. PICK e : e = stack[k]
    OBVIOUS
  <2>2. Shape(e) /\ Fits(e)
    BY <2>1 DEF IInv, IsStack, Good
  <2>3. \A j \in Coroutines : e.co[j].step = 0
    BY <2>1, <2>2 DEF Shape, Placed, Settled, Idle
  <2>4. None(e, 3, 4) /\ None(e, 6, 6) /\ None(e, 2, 7)
    BY <2>3 DEF None
  <2> QED
    BY <2>1, <2>2, <2>4 DEF Fits
<1> QED
  BY <1>1, IInvInit, IInvStep, PTL DEF Spec
-----------------------------------------------------------------------------
(* A set of subsets of a finite set has a least one.                       *)
LEMMA LeastSubset ==
  ASSUME NEW D, IsFiniteSet(D), NEW B, B \subseteq SUBSET D, B # {}
  PROVE  \E s \in B : \A u \in B : u \subseteq s => u = s
<1>1. PICK R : R = StrictSubsetOrdering(D)
  OBVIOUS
<1>2. PICK P : P = SUBSET D
  OBVIOUS
<1>3. IsWellFoundedOn(R, P)
  BY <1>1, <1>2, FS_StrictSubsetOrderingWellFounded, FS_FiniteSubsetsOfFinite, Zenon
<1>4. \A u, s \in P : u \subseteq s /\ u # s => <<u, s>> \in R
  BY <1>1, <1>2 DEF StrictSubsetOrdering
<1>5. B \subseteq P
  BY <1>2
<1>6. PICK s \in B : \A u \in B : ~(<<u, s>> \in R)
  BY <1>3, <1>5, WFMin, Zenon
<1> QED
  BY <1>4, <1>5, <1>6

(* Induction over the subsets of a finite set, with a set of them in place *)
(* of a predicate.                                                         *)
LEMMA SubsetInduction ==
  ASSUME NEW D, IsFiniteSet(D), NEW G,
         \A s \in SUBSET D : (\A u \in SUBSET s : u # s => u \in G) => s \in G
  PROVE  SUBSET D \subseteq G
<1> SUFFICES ASSUME (SUBSET D) \ G # {} PROVE FALSE
  OBVIOUS
<1>1. PICK B : B = (SUBSET D) \ G
  OBVIOUS
<1>2. B \subseteq SUBSET D /\ B # {}
  BY <1>1
<1>3. PICK s \in B : \A u \in B : u \subseteq s => u = s
  BY <1>2, LeastSubset
<1> QED
  BY <1>1, <1>3

(* The recursion of a sum over the subsets of d.                           *)
Pick(s) == CHOOSE x \in s : TRUE
Adds(f, d) ==
  f = [s \in SUBSET d |-> IF s = {} THEN 0 ELSE Pick(s).amount + f[s \ {Pick(s)}]]

LEMMA AmountIs ==
  ASSUME NEW d
  PROVE  Amount(d) = (CHOOSE f : Adds(f, d))[d]
BY Zenon DEF Amount, MapThenSumSet, MapThenFoldSet, Adds, Pick

LEMMA PickIn ==
  ASSUME NEW s, s # {}
  PROVE  Pick(s) \in s
BY Zenon DEF Pick

(* Two such sums agree wherever both are defined.                          *)
LEMMA AddsUnique ==
  ASSUME NEW D, IsFiniteSet(D), NEW d \in SUBSET D, NEW f, Adds(f, D), NEW g, Adds(g, d)
  PROVE  \A s \in SUBSET d : f[s] = g[s]
<1> DEFINE G == {s \in SUBSET d : f[s] = g[s]}
<1>1. IsFiniteSet(d)
  BY FS_Subset
<1>2. ASSUME NEW s \in SUBSET d, \A u \in SUBSET s : u # s => u \in G PROVE s \in G
  <2>1. CASE s = {}
    BY <2>1 DEF Adds
  <2>2. CASE s # {}
    <3>1. PICK x : x = Pick(s)
      OBVIOUS
    <3>2. x \in s
      BY <2>2, <3>1, PickIn
    <3>3. f[s \ {x}] = g[s \ {x}]
      BY <1>2, <3>2
    <3>4. f[s] = x.amount + f[s \ {x}]
      BY <2>2, <3>1 DEF Adds
    <3>5. g[s] = x.amount + g[s \ {x}]
      BY <2>2, <3>1 DEF Adds
    <3> QED
      BY <3>3, <3>4, <3>5
  <2> QED
    BY <2>1, <2>2
<1>3. SUBSET d \subseteq G
  <2> HIDE DEF G
  <2> QED
    BY <1>1, <1>2, SubsetInduction
<1> QED
  BY <1>3

(* A finite set has such a sum.                                            *)
LEMMA AddsExists ==
  ASSUME NEW D, IsFiniteSet(D)
  PROVE  \E f : Adds(f, D)
<1> DEFINE G == {s \in SUBSET D : \E f : Adds(f, s)}
<1>1. ASSUME NEW s \in SUBSET D, \A u \in SUBSET s : u # s => u \in G PROVE s \in G
  <2> DEFINE Of1(u) == (CHOOSE f : Adds(f, u))[u]
             f == [u \in SUBSET s |-> IF u = {} THEN 0 ELSE Pick(u).amount + Of1(u \ {Pick(u)})]
  <2>1. ASSUME NEW u \in SUBSET s, u # s PROVE Adds(CHOOSE g : Adds(g, u), u)
    BY <1>1, <2>1
  <2>2. ASSUME NEW u \in SUBSET s, u # {} PROVE f[u \ {Pick(u)}] = Of1(u \ {Pick(u)})
    <3>1. PICK v : v = u \ {Pick(u)}
      OBVIOUS
    <3>2. v \in SUBSET s /\ v # s
      BY <2>2, <3>1, PickIn
    <3>3. PICK g : g = CHOOSE h : Adds(h, v)
      OBVIOUS
    <3>4. Adds(g, v) /\ Of1(v) = g[v]
      BY <2>1, <3>2, <3>3
    <3>5. CASE v = {}
      BY <3>1, <3>4, <3>5 DEF Adds
    <3>6. CASE v # {}
      <4>1. PICK w : w = v \ {Pick(v)}
        OBVIOUS
      <4>2. w \in SUBSET v /\ w \in SUBSET s /\ w # s
        BY <3>2, <3>6, <4>1, PickIn
      <4>3. PICK h : h = CHOOSE k : Adds(k, w)
        OBVIOUS
      <4>4. Adds(h, w) /\ Of1(w) = h[w]
        BY <2>1, <4>2, <4>3
      <4>5. g[w] = h[w]
        <5>1. IsFiniteSet(v)
          BY <3>2, FS_Subset
        <5> QED
          BY <3>4, <4>2, <4>4, <5>1, AddsUnique
      <4>6. g[v] = Pick(v).amount + g[w]
        BY <3>4, <3>6, <4>1 DEF Adds
      <4>7. f[v] = Pick(v).amount + Of1(w)
        BY <3>2, <3>6, <4>1
      <4> QED
        BY <3>1, <3>4, <4>4, <4>5, <4>6, <4>7
    <3> QED
      BY <3>5, <3>6
  <2>3. Adds(f, s)
    <3> HIDE DEF Of1
    <3>1. \A u \in SUBSET s : (IF u = {} THEN 0 ELSE Pick(u).amount + Of1(u \ {Pick(u)}))
                             = (IF u = {} THEN 0 ELSE Pick(u).amount + f[u \ {Pick(u)}])
      BY <2>2
    <3> QED
      BY <3>1 DEF Adds
  <2> QED
    BY <2>3
<1>2. SUBSET D \subseteq G
  <2> HIDE DEF G
  <2> QED
    BY <1>1, SubsetInduction
<1> QED
  BY <1>2

(* The sum of a finite set is that of the recursion on any larger one.     *)
LEMMA AmountAdds ==
  ASSUME NEW D, IsFiniteSet(D)
  PROVE  \E f : Adds(f, D) /\ \A d \in SUBSET D : Amount(d) = f[d]
<1>1. PICK f : Adds(f, D)
  BY AddsExists
<1>2. ASSUME NEW d \in SUBSET D PROVE Amount(d) = f[d]
  <2>1. IsFiniteSet(d)
    BY FS_Subset
  <2>2. PICK g : g = CHOOSE h : Adds(h, d)
    OBVIOUS
  <2>3. Adds(g, d)
    BY <2>1, <2>2, AddsExists
  <2>4. Amount(d) = g[d]
    BY <2>2, AmountIs
  <2> QED
    BY <1>1, <2>3, <2>4, AddsUnique
<1> QED
  BY <1>1, <1>2

(* Rows of the table: a finite set with amounts.                           *)
LEMMA AmountStep ==
  ASSUME NEW d \in SUBSET Items
  PROVE  /\ d = {} => Amount(d) = 0
         /\ d # {} => Amount(d) = Pick(d).amount + Amount(d \ {Pick(d)})
<1>1. PICK f : Adds(f, Items) /\ \A u \in SUBSET Items : Amount(u) = f[u]
  BY AmountAdds, StatisticsAssumption
<1>2. CASE d = {}
  <2>1. f[d] = 0
    BY <1>1, <1>2 DEF Adds
  <2> QED
    BY <1>1, <1>2, <2>1
<1>3. CASE d # {}
  <2>1. PICK x : x = Pick(d)
    OBVIOUS
  <2>2. f[d] = x.amount + f[d \ {x}]
    BY <1>1, <1>3, <2>1 DEF Adds
  <2>3. d \ {x} \in SUBSET Items
    OBVIOUS
  <2> QED
    BY <1>1, <1>3, <2>1, <2>2, <2>3
<1> QED
  BY <1>2, <1>3

LEMMA AmountIsNat ==
  ASSUME NEW d \in SUBSET Items
  PROVE  Amount(d) \in Nat
<1> DEFINE G == {s \in SUBSET Items : Amount(s) \in Nat}
<1>1. ASSUME NEW s \in SUBSET Items, \A u \in SUBSET s : u # s => u \in G PROVE s \in G
  <2>1. CASE s = {}
    <3>1. Amount(s) = 0
      BY <2>1, AmountStep
    <3> QED
      BY <3>1
  <2>2. CASE s # {}
    <3>1. PICK x : x = Pick(s)
      OBVIOUS
    <3>2. x \in s /\ x.amount \in Nat
      BY <2>2, <3>1, PickIn, StatisticsAssumption
    <3>3. Amount(s \ {x}) \in Nat
      BY <1>1, <3>2
    <3>4. Amount(s) = x.amount + Amount(s \ {x})
      BY <2>2, <3>1, AmountStep
    <3> QED
      BY <3>2, <3>3, <3>4
  <2> QED
    BY <2>1, <2>2
<1>2. SUBSET Items \subseteq G
  <2> HIDE DEF G
  <2> QED
    BY <1>1, SubsetInduction, StatisticsAssumption
<1> QED
  BY <1>2

(* Any row may be taken out first.                                         *)
LEMMA AmountRemove ==
  ASSUME NEW d \in SUBSET Items, NEW y \in d
  PROVE  Amount(d) = y.amount + Amount(d \ {y})
<1> DEFINE G == {s \in SUBSET Items : \A z \in s : Amount(s) = z.amount + Amount(s \ {z})}
<1>1. ASSUME NEW s \in SUBSET Items, \A u \in SUBSET s : u # s => u \in G PROVE s \in G
  <2> SUFFICES ASSUME NEW z \in s PROVE Amount(s) = z.amount + Amount(s \ {z})
    OBVIOUS
  <2>1. PICK x : x = Pick(s)
    OBVIOUS
  <2>2. x \in s /\ Amount(s) = x.amount + Amount(s \ {x})
    BY <2>1, PickIn, AmountStep
  <2>3. CASE x = z
    BY <2>2, <2>3
  <2>4. CASE x # z
    <3>1. s \ {x} \in G /\ s \ {z} \in G /\ z \in s \ {x} /\ x \in s \ {z}
      BY <1>1, <2>2, <2>4
    <3>2. Amount(s \ {x}) = z.amount + Amount((s \ {x}) \ {z})
      BY <3>1
    <3>3. Amount(s \ {z}) = x.amount + Amount((s \ {z}) \ {x})
      BY <3>1
    <3>4. (s \ {x}) \ {z} = (s \ {z}) \ {x}
      OBVIOUS
    <3>5. PICK v : v = (s \ {x}) \ {z}
      OBVIOUS
    <3>6. Amount(v) \in Nat
      BY <3>5, AmountIsNat
    <3>7. x.amount \in Nat /\ z.amount \in Nat
      BY <2>2, StatisticsAssumption
    <3>8. Amount(s \ {x}) = z.amount + Amount(v) /\ Amount(s \ {z}) = x.amount + Amount(v)
      BY <3>2, <3>3, <3>4, <3>5
    <3> QED
      BY <2>2, <3>6, <3>7, <3>8
  <2> QED
    BY <2>3, <2>4
<1>2. SUBSET Items \subseteq G
  <2> HIDE DEF G
  <2> QED
    BY <1>1, SubsetInduction, StatisticsAssumption
<1> QED
  BY <1>2

(* The amount of rows split in two is that of the parts.                   *)
LEMMA AmountSplits ==
  ASSUME NEW d \in SUBSET Items, NEW a \in SUBSET d, NEW b, b = d \ a
  PROVE  Amount(d) = Amount(a) + Amount(b)
<1> DEFINE G == {s \in SUBSET Items : Amount(s) = Amount(s \cap a) + Amount(s \ a)}
<1>1. ASSUME NEW s \in SUBSET Items, \A u \in SUBSET s : u # s => u \in G PROVE s \in G
  <2>1. CASE s = {}
    <3>1. s \cap a = {} /\ s \ a = {} /\ Amount({}) = 0
      BY <2>1, AmountStep
    <3> QED
      BY <2>1, <3>1
  <2>2. CASE s # {}
    <3>1. PICK x \in s : TRUE
      BY <2>2
    <3>2. PICK r : r = s \ {x}
      OBVIOUS
    <3>3. r \in SUBSET Items /\ Amount(r) = Amount(r \cap a) + Amount(r \ a)
      BY <1>1, <3>2
    <3>4. Amount(s) = x.amount + Amount(r) /\ x.amount \in Nat
      BY <3>2, AmountRemove, StatisticsAssumption
    <3>5. PICK p : p = Amount(r \cap a)
      OBVIOUS
    <3>6. PICK q : q = Amount(r \ a)
      OBVIOUS
    <3>7. p \in Nat /\ q \in Nat
      BY <3>3, <3>5, <3>6, AmountIsNat
    <3>8. CASE x \in a
      <4>1. s \ a = r \ a /\ (s \cap a) \ {x} = r \cap a /\ x \in s \cap a
        BY <3>2, <3>8
      <4>2. Amount(s \cap a) = x.amount + p
        BY <3>5, <4>1, AmountRemove
      <4>3. Amount(s \ a) = q /\ Amount(s) = x.amount + (p + q)
        BY <3>3, <3>4, <3>5, <3>6, <4>1
      <4>4. Amount(s) = Amount(s \cap a) + Amount(s \ a)
        BY <3>4, <3>7, <4>2, <4>3
      <4> QED
        BY <4>4
    <3>9. CASE x \notin a
      <4>1. s \cap a = r \cap a /\ (s \ a) \ {x} = r \ a /\ x \in s \ a
        BY <3>2, <3>9
      <4>2. Amount(s \ a) = x.amount + q
        BY <3>6, <4>1, AmountRemove
      <4>3. Amount(s \cap a) = p /\ Amount(s) = x.amount + (p + q)
        BY <3>3, <3>4, <3>5, <3>6, <4>1
      <4>4. Amount(s) = Amount(s \cap a) + Amount(s \ a)
        BY <3>4, <3>7, <4>2, <4>3
      <4> QED
        BY <4>4
    <3> QED
      BY <3>8, <3>9
  <2> QED
    BY <2>1, <2>2
<1>2. SUBSET Items \subseteq G
  <2> HIDE DEF G
  <2> QED
    BY <1>1, SubsetInduction, StatisticsAssumption
<1>3. d \cap a = a
  OBVIOUS
<1> QED
  BY <1>2, <1>3

(* The first month of some rows is one of theirs, and none is earlier.     *)
LEMMA FirstMonthIs ==
  ASSUME NEW d \in SUBSET Items
  PROVE  /\ d = {} => FirstMonth(d) = 0
         /\ d # {} => FirstMonth(d) \in 1..Now /\ \A i \in d : FirstMonth(d) <= i.month
<1>1. CASE d = {}
  BY <1>1 DEF FirstMonth
<1>2. CASE d # {}
  <2> DEFINE M == {i.month : i \in d}
  <2>1. M # {} /\ M \subseteq 1..Now /\ M \subseteq Nat /\ 0 \notin M
    BY <1>2, StatisticsAssumption
  <2>2. \A i \in d : i.month \in M
    OBVIOUS
  <2>3. FirstMonth(d) = Min(M)
    BY <1>2 DEF FirstMonth
  <2> HIDE DEF M
  <2> DEFINE R == {ss \in Nat \X Nat : ss[1] < ss[2]}
  <2>4. IsWellFoundedOn(R, Nat)
    <3>1. R = OpToRel(<, Nat)
      BY Zenon DEF OpToRel
    <3> QED
      BY <3>1, NatLessThanWellFounded, Zenon
  <2>5. \A a, b \in Nat : a < b => <<a, b>> \in R
    OBVIOUS
  <2> HIDE DEF R
  <2>6. PICK m \in M : \A n \in M : ~(<<n, m>> \in R)
    BY <2>1, <2>4, WFMin, Zenon
  <2>7. ASSUME NEW n \in M PROVE m <= n
    <3>1. m \in Nat /\ n \in Nat /\ ~(<<n, m>> \in R)
      BY <2>1, <2>6
    <3>2. ~(n < m)
      BY <2>5, <3>1
    <3> QED
      BY <3>1, <3>2
  <2>8. Min(M) \in M /\ \A n \in M : Min(M) <= n
    BY <2>7, Zenon DEF Min
  <2> QED
    BY <1>2, <2>1, <2>2, <2>3, <2>8
<1> QED
  BY <1>1, <1>2
-----------------------------------------------------------------------------
(* The rest of the invariant: what an entry's loops, figures and sums are  *)
(* for the list of categories and the table at hand.                       *)

(* The name is one a loop over cats has seen.                              *)
Seen(n, c, cats) == \E i \in 1..(c.next - 1) : cats[i] = n

(* A loop under way: over a list that only grew since, with a figure for   *)
(* each category it has seen and for "Grocery".                            *)
Going(e, c, cats) ==
  /\ c.size \in Len(Categories)..Len(cats) /\ c.next \in 1..c.size
  /\ \A i \in 1..(c.next - 1) : cats[i] \in DOMAIN c.map
  /\ \A n \in DOMAIN c.map : n = "Grocery" \/ Seen(n, c, cats)
  /\ c.period \in e.periods \cup {All}
  /\ c.kind = "update" => c.period = All

(* Once an update has ended every category of the asset has its figures.   *)
Known(e, cats) ==
  /\ e.periods # {} => \A i \in 1..Len(Categories) : cats[i] \in DOMAIN e.stats
  /\ \A j \in Coroutines : e.co[j].step = 8 => Going(e, e.co[j], cats)

(* The list begins with the categories of the asset.                       *)
CatsOK(cats) ==
  /\ cats \in Seq(STRING) /\ Len(Categories) <= Len(cats)
  /\ \A i \in 1..Len(Categories) : cats[i] = Categories[i]

(* The types of what an entry holds.                                       *)
Typed(e) ==
  /\ e.startMonth \in 1..Now /\ e.periods \subseteq 1..Now /\ e.fresh \in BOOLEAN
  /\ e.sums.totalIncome \in Nat /\ e.sums.averageIncome \in Quotients
  /\ \A n \in DOMAIN e.stats : e.stats[n] \in Figures
  /\ \A j \in Coroutines :
       e.co[j].old \in Figures /\ \A n \in DOMAIN e.co[j].map : e.co[j].map[n] \in Figures

Updating(e) == \E j \in Coroutines : e.co[j].kind = "update"

(* What query q of the script reads is what the rows d have.               *)
Right(e, d, q) ==
  /\ q = 1 => \A i \in d : e.startMonth <= i.month
  /\ q = 2 => e.sums.total = Amount(Expenses(d))
  /\ q = 3 => e.sums.totalRegular = Amount(Regular(Expenses(d)))
  /\ q = 4 => e.sums.totalIncome = Amount(Incomes(d))
  /\ q = 5 => e.sums.periodTotal = Amount(Since(Expenses(d), Now))
  /\ q = 6 => e.sums.periodRegular = Amount(Regular(Since(Expenses(d), Now)))
  /\ q = 7 => e.sums.periodIncome = Amount(Since(Incomes(d), Now))

(* A fresh entry shows the rows d as far as its updates have come; with no *)
(* update left, the months of d are among the periods.                     *)
Current(e, d) ==
  e.fresh =>
    /\ \A q \in 1..7 : None(e, 1, q) => Right(e, d, q)
    /\ ~Updating(e) => \A i \in d : i.month \in e.periods

(* Selections run on the screen of the statistics only, and there only     *)
(* after its one update; a fresh entry has one update at most.             *)
Orderly(e) ==
  /\ \A j \in Coroutines : e.co[j].kind = "select" => e.screen = "stats" /\ e.periods # {}
  /\ Updating(e) => e.screen # "stats" \/ e.periods = {}
  /\ e.screen = "stats" \/ e.fresh =>
       \A i, j \in Coroutines : e.co[i].kind = "update" /\ e.co[j].kind = "update" => i = j

(* What a category's figures are for the rows d, in the period p.          *)
TotalIn(d, n, p) == Amount(IF p = All THEN Of(d, n) ELSE In(Of(d, n), p))
AverageIn(e, d, n) == [sum |-> TotalIn(d, n, All), months |-> Months(e)]

(* The maps of a fresh entry, the one shown and those being filled.        *)
Mapped(e, d, cats) ==
  e.fresh =>
    /\ ~Updating(e) =>
         /\ \E p \in e.periods \cup {All} :
              \A n \in DOMAIN e.stats : e.stats[n].total = TotalIn(d, n, p)
         /\ \A n \in DOMAIN e.stats : e.stats[n].average = AverageIn(e, d, n)
    /\ \A j \in Coroutines : e.co[j].step = 8 =>
         LET c == e.co[j] IN
         /\ \A n \in DOMAIN c.map : Seen(n, c, cats) =>
              c.map[n].total = TotalIn(d, n, c.period) /\ c.map[n].average = AverageIn(e, d, n)
         /\ c.period # All => c.old.average = AverageIn(e, d, cats[c.next])

(* What the writes under way say of the stack.                             *)
WritesOK ==
  /\ \A w \in writes : w = [op |-> w.op, item |-> w.item, at |-> w.at]
  /\ \A w \in writes : w.op \in {"insert", "delete"} /\ w.item \in Items
                       /\ w.at \in {0, Len(stack)}
  /\ \A w \in writes : w.at # 0 => Top.screen # "stats"

EntryOK(e, d, cats) ==
  /\ Known(e, cats)
  /\ Typed(e)
  /\ Current(e, d)
  /\ Orderly(e)
  /\ Mapped(e, d, cats)

-----------------------------------------------------------------------------
(* The steps of an entry.                                                  *)

(* The entry g becomes f at the head of the loop c of its coroutine j.     *)
Headed(g, j, c, f) ==
  /\ LoopThrows(g, c) = "none"
  /\ f = IF c.next > c.size THEN LoopEnds(g, j, c) ELSE LoopGoesOn(g, j, c)

(* The entry once coroutine j has the answer it waits for.                 *)
Queried(e, j) == Shown(e, Script[e.co[j].step], Answer(Script[e.co[j].step]))

(* A loop with the figures of its next category filled in.                 *)
Filled(e, c) ==
  [c EXCEPT !.map = [n \in DOMAIN c.map \cup {categories[c.next]} |->
                       IF n = categories[c.next] THEN CategoryFigures(e, c) ELSE c.map[n]],
            !.next = c.next + 1]

Summed(e, j, f) ==
  /\ e.co[j].step \in 1..6
  /\ f = [Queried(e, j) EXCEPT !.co[j].step = e.co[j].step + 1]

Looped(e, j, f) ==
  /\ e.co[j].step = 7
  /\ Headed(Queried(e, j), j, NewLoop("update", All), f)

Counted(e, j, f) ==
  /\ e.co[j].step = 8
  /\ Headed(e, j, Filled(e, e.co[j]), f)

Selected(e, j, p, f) ==
  /\ e.screen = "stats" /\ e.co[j].kind = "none"
  /\ e.periods # {} /\ p \in e.periods \cup {All}
  /\ Headed(e, j, NewLoop("select", p), f)

Works(e, j, f) ==
  Summed(e, j, f) \/ Looped(e, j, f) \/ Counted(e, j, f) \/ \E p : Selected(e, j, p, f)

(* A loop's head by its effect.                                            *)
LEMMA HeadSteps ==
  ASSUME NEW k, NEW j, NEW e, NEW c, LoopHead(k, j, e, c)
  PROVE  /\ crash' = LoopThrows(e, c)
         /\ \/ stack' = stack
            \/ \E f : Headed(e, j, c, f) /\ stack' = [stack EXCEPT ![k] = f]
BY DEF LoopHead, Headed

(* What the coroutines and the user's selections do to the stack.          *)
LEMMA CoroutineSteps ==
  ASSUME IInv, NEW k \in 1..Len(stack), NEW j \in Coroutines,
         Sum(k, j) \/ Category(k, j)
  PROVE  \/ stack' = stack
         \/ \E f : Works(stack[k], j, f) /\ stack' = [stack EXCEPT ![k] = f]
<1>1. PICK e : e = stack[k]
  OBVIOUS
<1>2. CASE Sum(k, j)
  <2>1. PICK c : c = e.co[j]
    OBVIOUS
  <2>2. c.step \in 1..7
    BY <1>1, <1>2, <2>1, SevenQueries DEF Sum
  <2>3. PICK g : g = Queried(e, j)
    OBVIOUS
  <2>4. g = Shown(stack[k], Script[stack[k].co[j].step], Answer(Script[stack[k].co[j].step]))
    BY <1>1, <2>3 DEF Queried
  <2>5. CASE c.step < 7
    <3>1. PICK f : f = [g EXCEPT !.co[j].step = c.step + 1]
      OBVIOUS
    <3>2. stack' = [stack EXCEPT ![k] = f]
      BY <1>1, <1>2, <2>1, <2>4, <2>5, <3>1, SevenQueries DEF Sum
    <3>3. Summed(e, j, f)
      BY <2>1, <2>2, <2>3, <2>5, <3>1 DEF Summed
    <3> QED
      BY <1>1, <3>2, <3>3 DEF Works
  <2>6. CASE c.step = 7
    <3>1. LoopHead(k, j, g, NewLoop("update", All))
      BY <1>1, <1>2, <2>1, <2>4, <2>6, SevenQueries DEF Sum
    <3>2. \/ stack' = stack
          \/ \E f : Headed(g, j, NewLoop("update", All), f) /\ stack' = [stack EXCEPT ![k] = f]
      BY <3>1, HeadSteps
    <3> QED
      BY <1>1, <2>1, <2>3, <2>6, <3>2 DEF Works, Looped
  <2> QED
    BY <2>2, <2>5, <2>6
<1>3. CASE Category(k, j)
  <2>1. LoopHead(k, j, e, Filled(e, e.co[j])) /\ e.co[j].step = 8
    BY <1>1, <1>3, SevenQueries DEF Category, Filled
  <2>2. \/ stack' = stack
        \/ \E f : Headed(e, j, Filled(e, e.co[j]), f) /\ stack' = [stack EXCEPT ![k] = f]
    BY <2>1, HeadSteps
  <2> QED
    BY <1>1, <2>1, <2>2 DEF Works, Counted
<1> QED
  BY <1>2, <1>3

LEMMA SelectSteps ==
  ASSUME IInv, NEW j \in Coroutines, NEW p, SelectPeriod(j, p)
  PROVE  \/ stack' = stack
         \/ \E f : Works(Top, j, f) /\ stack' = [stack EXCEPT ![Len(stack)] = f]
<1>1. PICK e : e = Top
  OBVIOUS
<1>2. LoopHead(Len(stack), j, e, NewLoop("select", p))
  BY <1>1 DEF SelectPeriod
<1>3. \/ stack' = stack
      \/ \E f : Headed(e, j, NewLoop("select", p), f) /\ stack' = [stack EXCEPT ![Len(stack)] = f]
  BY <1>2, HeadSteps
<1> QED
  BY <1>1, <1>3 DEF Works, Selected, SelectPeriod

(* The entries of a stack that was changed.                                *)
LEMMA ExceptEntries ==
  ASSUME NEW s, IsStack(s), NEW k \in 1..Len(s), NEW e
  PROVE  LET t == [s EXCEPT ![k] = e] IN
         Len(t) = Len(s) /\ \A i \in 1..Len(s) : t[i] = IF i = k THEN e ELSE s[i]
<1> DEFINE S == {s[i] : i \in 1..Len(s)} \cup {e}
<1>1. s \in Seq(S) /\ e \in S
  BY SeqMonotonic DEF IsStack
<1> HIDE DEF S
<1> QED
  BY <1>1, ExceptSeq

LEMMA AppendEntries ==
  ASSUME NEW s, NEW S, s \in Seq(S), NEW e
  PROVE  LET t == Append(s, e) IN
         /\ Len(t) = Len(s) + 1 /\ Len(s) \in Nat
         /\ \A i \in 1..Len(t) : t[i] = IF i \in 1..Len(s) THEN s[i] ELSE e
<1> DEFINE T == S \cup {e}
<1>1. s \in Seq(T) /\ e \in T
  BY SeqMonotonic
<1> HIDE DEF T
<1>2. PICK t : t = Append(s, e)
  OBVIOUS
<1>3. Len(t) = Len(s) + 1 /\ Len(s) \in Nat
  BY <1>1, <1>2, AppendProperties, LenProperties
<1>4. \A j \in 1..Len(s) + 1 : t[j] = IF j = Len(s) + 1 THEN e ELSE s[j]
  BY <1>1, <1>2
<1>5. \A i \in 1..Len(t) : t[i] = IF i \in 1..Len(s) THEN s[i] ELSE e
  BY <1>3, <1>4
<1> QED
  BY <1>2, <1>3, <1>5

LEMMA StaleEntries ==
  ASSUME NEW s, IsStack(s)
  PROVE  \A i \in 1..Len(s) : Stale(s)[i] = [s[i] EXCEPT !.fresh = FALSE]
BY DEF Stale

(* What becomes of each entry in a step.                                   *)
Screens == {"home", "stats", "all", "nonregular"}

Kept(e, f)    == f = e /\ table' = table
Left(e, f)    == f = LeftBehind(e) /\ UNCHANGED <<table, categories>>
Staled(e, f)  == f = [e EXCEPT !.fresh = FALSE] /\ categories' = categories
Started(e, f) == /\ \E j \in Coroutines : e.co[j].kind = "none" /\ f = StartUpdate(e, j)
                 /\ e.screen # "stats" /\ categories' = categories
Worked(e, f)  == (\E j \in Coroutines : Works(e, j, f)) /\ UNCHANGED <<table, categories>>

Becomes(e, f) == Kept(e, f) \/ Left(e, f) \/ Staled(e, f) \/ Started(e, f) \/ Worked(e, f)

Arrives(f) == (\E s \in Screens : f = NewEntry(s)) /\ categories' = categories

StackStep ==
  \A k \in 1..Len(stack') :
    \/ Arrives(stack'[k])
    \/ k \in 1..Len(stack) /\ Becomes(stack[k], stack'[k])

LEMMA SameStackStep ==
  ASSUME stack' = stack, table' = table
  PROVE  StackStep
BY DEF StackStep, Becomes, Kept

LEMMA WorkedStep ==
  ASSUME IInv, NEW k \in 1..Len(stack), NEW j \in Coroutines,
         NEW f, Works(stack[k], j, f), stack' = [stack EXCEPT ![k] = f],
         UNCHANGED <<table, categories>>
  PROVE  StackStep
<1>1. /\ Len(stack') = Len(stack)
      /\ \A i \in 1..Len(stack) : stack'[i] = IF i = k THEN f ELSE stack[i]
  BY ExceptEntries DEF IInv
<1>2. Worked(stack[k], f)
  BY DEF Worked
<1>3. ASSUME NEW i \in 1..Len(stack') PROVE Becomes(stack[i], stack'[i])
  <2>1. CASE i = k
    BY <1>1, <1>2, <2>1 DEF Becomes
  <2>2. CASE i # k
    BY <1>1, <2>2 DEF Becomes, Kept
  <2> QED
    BY <2>1, <2>2
<1> QED
  BY <1>1, <1>3 DEF StackStep

LEMMA NavigateStep ==
  ASSUME IInv, NEW screen \in Screens, Navigate(screen)
  PROVE  StackStep /\ Len(stack') = Len(stack) + 1
<1>1. /\ IsStack(stack) /\ Len(stack) \in 1..Len(stack) /\ Good(Top)
      /\ table' = table /\ categories' = categories
  BY TopIsGood DEF Navigate
<1>2. PICK e : e = LeftBehind(Top)
  OBVIOUS
<1>3. PICK t : t = [stack EXCEPT ![Len(stack)] = e]
  OBVIOUS
<1>4. /\ Len(t) = Len(stack) /\ IsStack(t)
      /\ \A i \in 1..Len(stack) : t[i] = IF i = Len(stack) THEN e ELSE stack[i]
  <2>1. Good(e)
    BY <1>1, <1>2, LeftBehindEntry
  <2>2. PICK n : n = Len(stack)
    OBVIOUS
  <2>3. IsStack(stack) /\ n \in 1..Len(stack) /\ t = [stack EXCEPT ![n] = e]
    BY <1>1, <1>3, <2>2
  <2>4. IsStack(t)
    BY <2>1, <2>3, StackExcept
  <2>5. Len(t) = Len(stack) /\ \A i \in 1..Len(stack) : t[i] = IF i = n THEN e ELSE stack[i]
    BY <2>3, ExceptEntries
  <2> QED
    BY <2>2, <2>4, <2>5
<1>5. PICK f : f = NewEntry(screen)
  OBVIOUS
<1>6. stack' = Append(t, f)
  BY <1>2, <1>3, <1>5 DEF Navigate, Push
<1>7. /\ Len(stack') = Len(t) + 1
      /\ \A i \in 1..Len(stack') : stack'[i] = IF i \in 1..Len(t) THEN t[i] ELSE f
  BY <1>4, <1>6, AppendEntries DEF IsStack
<1>8. Arrives(f)
  BY <1>1, <1>5 DEF Arrives
<1>9. ASSUME NEW i \in 1..Len(stack) PROVE Becomes(stack[i], t[i])
  <2>1. CASE i = Len(stack)
    BY <1>1, <1>2, <1>4, <2>1 DEF Becomes, Left, Top
  <2>2. CASE i # Len(stack)
    BY <1>1, <1>4, <2>2 DEF Becomes, Kept
  <2> QED
    BY <2>1, <2>2
<1>10. ASSUME NEW i \in 1..Len(stack')
       PROVE  Arrives(stack'[i]) \/ (i \in 1..Len(stack) /\ Becomes(stack[i], stack'[i]))
  <2>1. CASE i \in 1..Len(t)
    BY <1>4, <1>7, <1>9, <2>1
  <2>2. CASE i \notin 1..Len(t)
    BY <1>7, <1>8, <2>2
  <2> QED
    BY <2>1, <2>2
<1>11. StackStep
  BY <1>10 DEF StackStep
<1> QED
  BY <1>4, <1>7, <1>11

LEMMA BackStep ==
  ASSUME IInv, Back
  PROVE  StackStep /\ Len(stack') = Len(stack) - 1
<1>1. IsStack(stack) /\ Len(stack) > 1 /\ stack' = SubSeq(stack, 1, Len(stack) - 1) /\ table' = table
  BY DEF IInv, Back
<1> DEFINE S == {stack[i] : i \in 1..Len(stack)}
<1>2. stack \in Seq(S) /\ Len(stack) \in Nat
  BY <1>1, LenProperties DEF IsStack
<1> HIDE DEF S
<1>3. Len(stack') = Len(stack) - 1 /\ \A j \in 1..Len(stack) - 1 : stack'[j] = stack[j]
  BY <1>1, <1>2
<1>4. \A j \in 1..Len(stack') : j \in 1..Len(stack) /\ Kept(stack[j], stack'[j])
  BY <1>1, <1>2, <1>3 DEF Kept
<1> QED
  BY <1>3, <1>4 DEF StackStep, Becomes

LEMMA CommitStep ==
  ASSUME IInv, WritesOK, NEW w, Commit(w)
  PROVE  /\ StackStep
         /\ \/ Len(stack') = Len(stack) /\ writes' = writes \ {w}
               /\ \A k \in 1..Len(stack) : stack'[k].screen = stack[k].screen
            \/ Len(stack') = Len(stack) + 1 /\ writes' = Abandoned(writes \ {w})
<1>1. IsStack(stack) /\ Len(stack) \in 1..Len(stack) /\ Good(Top) /\ categories' = categories
  BY TopIsGood DEF Commit
<1>2. PICK t : t = Stale(stack)
  OBVIOUS
<1>3. IsStack(t) /\ Len(t) = Len(stack)
      /\ \A i \in 1..Len(stack) : t[i] = [stack[i] EXCEPT !.fresh = FALSE]
  BY <1>1, <1>2, StaleStack, StaleEntries
<1>4. \A i \in 1..Len(stack) : Staled(stack[i], t[i]) /\ Becomes(stack[i], t[i])
                               /\ t[i].screen = stack[i].screen
  <2> SUFFICES ASSUME NEW i \in 1..Len(stack)
               PROVE  Staled(stack[i], t[i]) /\ t[i].screen = stack[i].screen
    BY DEF Becomes
  <2>1. IsEntry(stack[i])
    BY <1>1 DEF IsStack, Good, Shape
  <2> QED
    BY <1>1, <1>3, <2>1 DEF Staled, IsEntry
<1>5. PICK f : f = NewEntry("home")
  OBVIOUS
<1>6. \/ stack' = t /\ writes' = writes \ {w}
      \/ stack' = Append(t, f) /\ writes' = Abandoned(writes \ {w})
      \/ \E j \in Coroutines :
           /\ w.at # 0 /\ w \in writes /\ Top.co[j].kind = "none"
           /\ stack' = [t EXCEPT ![Len(stack)] = StartUpdate(Top, j)]
           /\ writes' = writes \ {w}
  BY <1>2, <1>5 DEF Commit
<1>7. CASE stack' = t /\ writes' = writes \ {w}
  <2>1. StackStep
    BY <1>3, <1>4, <1>7 DEF StackStep
  <2> QED
    BY <1>3, <1>4, <1>7, <2>1
<1>8. CASE stack' = Append(t, f) /\ writes' = Abandoned(writes \ {w})
  <2>1. /\ Len(stack') = Len(t) + 1
        /\ \A i \in 1..Len(stack') : stack'[i] = IF i \in 1..Len(t) THEN t[i] ELSE f
    BY <1>3, <1>8, AppendEntries DEF IsStack
  <2>2. Arrives(f)
    BY <1>1, <1>5 DEF Arrives, Screens
  <2>3. StackStep
    BY <1>3, <1>4, <2>1, <2>2 DEF StackStep
  <2> QED
    BY <1>3, <1>8, <2>1, <2>3
<1>9. ASSUME NEW j \in Coroutines, w.at # 0, w \in writes, Top.co[j].kind = "none",
             stack' = [t EXCEPT ![Len(stack)] = StartUpdate(Top, j)], writes' = writes \ {w}
      PROVE  /\ StackStep
             /\ Len(stack') = Len(stack) /\ writes' = writes \ {w}
             /\ \A k \in 1..Len(stack) : stack'[k].screen = stack[k].screen
  <2>1. PICK g : g = StartUpdate(Top, j)
    OBVIOUS
  <2>2. /\ Len(stack') = Len(t)
        /\ \A i \in 1..Len(t) : stack'[i] = IF i = Len(stack) THEN g ELSE t[i]
    BY <1>1, <1>3, <1>9, <2>1, ExceptEntries
  <2>3. Top.screen # "stats"
    BY <1>9 DEF WritesOK
  <2>4. Started(Top, g)
    BY <1>1, <1>9, <2>1, <2>3 DEF Started
  <2>5. IsEntry(Top) /\ g.screen = Top.screen
    <3>1. IsEntry(Top)
      BY <1>1 DEF Good, Shape
    <3> QED
      BY <2>1, <3>1 DEF StartUpdate, IsEntry
  <2>6. \A i \in 1..Len(stack) : Becomes(stack[i], stack'[i]) /\ stack'[i].screen = stack[i].screen
    BY <1>3, <1>4, <2>2, <2>4, <2>5 DEF Becomes, Top
  <2> QED
    BY <1>3, <1>9, <2>2, <2>6 DEF StackStep
<1> QED
  BY <1>6, <1>7, <1>8, <1>9

-----------------------------------------------------------------------------
(* The fields of an entry after a step of its coroutine j.                 *)
HeadEnds(g, j, c, f) ==
  /\ c.next > c.size
  /\ f.co = [g.co EXCEPT ![j] = NoCoroutine]
  /\ f.stats = c.map
  /\ f.periods = IF c.kind = "update" THEN g.periods \cup (g.startMonth..Now) ELSE g.periods

HeadGoes(g, j, c, f) ==
  /\ c.next <= c.size
  /\ f.stats = g.stats /\ f.periods = g.periods
  /\ \E o : /\ f.co = [g.co EXCEPT ![j] = [c EXCEPT !.old = o]]
            /\ c.period = All => o = NoStat
            /\ c.period # All => /\ categories[c.next] \in DOMAIN g.stats
                                 /\ o = g.stats[categories[c.next]]

LEMMA HeadFields ==
  ASSUME NEW g, IsEntry(g), NEW j, NEW c, c.next \in Nat, CatsOK(categories),
         NEW f, Headed(g, j, c, f)
  PROVE  /\ IsEntry(f) /\ SameSums(g, f) /\ f.screen = g.screen /\ f.fresh = g.fresh
         /\ c.size = Len(categories)
         /\ HeadEnds(g, j, c, f) \/ HeadGoes(g, j, c, f)
<1>1. /\ c.size = Len(categories)
      /\ c.next <= c.size /\ c.period # All => categories[c.next] \in DOMAIN g.stats
  BY DEF Headed, LoopThrows
<1>2. c.size \in Nat
  BY <1>1, LenProperties DEF CatsOK
<1>3. CASE c.next > c.size
  <2>1. f = LoopEnds(g, j, c)
    BY <1>3 DEF Headed
  <2>2. /\ IsEntry(f) /\ SameSums(g, f) /\ f.screen = g.screen /\ f.fresh = g.fresh
        /\ f.co = [g.co EXCEPT ![j] = NoCoroutine] /\ f.stats = c.map
        /\ f.periods = IF c.kind = "update" THEN g.periods \cup (g.startMonth..Now) ELSE g.periods
    BY <2>1 DEF LoopEnds, IsEntry, SameSums
  <2> QED
    BY <1>1, <1>3, <2>2 DEF HeadEnds
<1>4. CASE ~(c.next > c.size)
  <2>1. PICK o : o = IF c.period = All THEN NoStat ELSE g.stats[categories[c.next]]
    OBVIOUS
  <2>2. f = [g EXCEPT !.co[j] = [c EXCEPT !.old = o]]
    BY <1>4, <2>1 DEF Headed, LoopGoesOn
  <2>3. PICK d : d = [c EXCEPT !.old = o]
    OBVIOUS
  <2>4. /\ IsEntry(f) /\ SameSums(g, f) /\ f.screen = g.screen /\ f.fresh = g.fresh
        /\ f.co = [g.co EXCEPT ![j] = d] /\ f.stats = g.stats /\ f.periods = g.periods
    BY <2>2, <2>3 DEF IsEntry, SameSums
  <2>5. c.next <= c.size
    BY <1>2, <1>4
  <2>6. HeadGoes(g, j, c, f)
    BY <1>1, <2>1, <2>3, <2>4, <2>5 DEF HeadGoes
  <2> QED
    BY <1>1, <2>4, <2>6
<1> QED
  BY <1>3, <1>4

(* The sums read from the rows d, by the query that reads each.            *)
ReadSums(u, v, i, d) ==
  /\ v.total = IF i = 2 THEN Amount(Expenses(d)) ELSE u.total
  /\ v.totalRegular = IF i = 3 THEN Amount(Regular(Expenses(d))) ELSE u.totalRegular
  /\ v.totalIncome = IF i = 4 THEN Amount(Incomes(d)) ELSE u.totalIncome
  /\ v.periodTotal = IF i = 5 THEN Amount(Since(Expenses(d), Now)) ELSE u.periodTotal
  /\ v.periodRegular = IF i = 6 THEN Amount(Regular(Since(Expenses(d), Now))) ELSE u.periodRegular
  /\ v.periodIncome = IF i = 7 THEN Amount(Since(Incomes(d), Now)) ELSE u.periodIncome

LEMMA QueriedFields ==
  ASSUME NEW e, Shape(e), NEW j \in Coroutines, NEW i \in 1..7, e.co[j].step = i
  PROVE  LET g == Queried(e, j) IN
         /\ IsEntry(g) /\ g.co = e.co /\ g.screen = e.screen /\ g.fresh = e.fresh
         /\ g.stats = e.stats /\ g.periods = e.periods
         /\ g.startMonth = IF i = 1 /\ FirstMonth(table) # 0 THEN FirstMonth(table)
                                                             ELSE e.startMonth
         /\ ReadSums(e.sums, g.sums, i, table)
         /\ g.sums.averageIncome = IF i = 7 THEN [sum |-> e.sums.totalIncome, months |-> Months(e)]
                                            ELSE e.sums.averageIncome
<1> USE SevenQueries
<1>1. PICK a : a = Answer(Script[i])
  OBVIOUS
<1>2. PICK g : g = Shown(e, Script[i], a)
  OBVIOUS
<1>3. g = Queried(e, j)
  BY <1>1, <1>2 DEF Queried
<1>4. IsEntry(e) /\ IsSums(e.sums)
  BY DEF Shape
<1> USE DEF IsEntry
<1>5. i \in {1, 2, 3, 4, 5, 6, 7}
  OBVIOUS
<1> DEFINE Rest == /\ IsEntry(g) /\ g.co = e.co /\ g.screen = e.screen /\ g.fresh = e.fresh
                   /\ g.stats = e.stats /\ g.periods = e.periods
           Start == g.startMonth = IF i = 1 /\ FirstMonth(table) # 0 THEN FirstMonth(table)
                                                                     ELSE e.startMonth
           Income == g.sums.averageIncome =
                       IF i = 7 THEN [sum |-> e.sums.totalIncome, months |-> Months(e)]
                                ELSE e.sums.averageIncome
           Reads == ReadSums(e.sums, g.sums, i, table)
<1>6. CASE i = 1
  <2>1. a = FirstMonth(table)
    BY <1>1, <1>6 DEF Answer
  <2>2. g = [e EXCEPT !.startMonth = IF a = 0 THEN e.startMonth ELSE a]
    BY <1>2, <1>6 DEF Shown, WithStart
  <2>3. g.sums = e.sums
    BY <1>4, <2>2
  <2>4. Rest /\ Start /\ Income
    BY <1>4, <1>6, <2>1, <2>2
  <2>5. Reads
    BY <1>6, <2>3 DEF ReadSums
  <2> QED
    BY <1>3, <2>4, <2>5
<1>7. CASE i = 2
  <2>1. a = Amount(Expenses(table))
    BY <1>1, <1>7 DEF Answer
  <2>2. PICK v : v = [e.sums EXCEPT !.total = a]
    OBVIOUS
  <2>3. g = [e EXCEPT !.sums = v]
    BY <1>2, <1>4, <1>7, <2>2 DEF Shown
  <2>4. ReadSums(e.sums, v, i, table) /\ v.averageIncome = e.sums.averageIncome
    BY <1>4, <1>7, <2>1, <2>2 DEF ReadSums, IsSums
  <2> HIDE DEF Rest, Start, Income, Reads
  <2>5. Rest /\ Start /\ Income /\ Reads
    BY <1>4, <1>7, <2>3, <2>4 DEF Rest, Start, Income, Reads
  <2> QED
    BY <1>3, <2>5 DEF Rest, Start, Income, Reads
<1>8. CASE i = 3
  <2>1. a = Amount(Regular(Expenses(table)))
    BY <1>1, <1>8 DEF Answer
  <2>2. PICK v : v = [e.sums EXCEPT !.totalRegular = a]
    OBVIOUS
  <2>3. g = [e EXCEPT !.sums = v]
    BY <1>2, <1>4, <1>8, <2>2 DEF Shown
  <2>4. ReadSums(e.sums, v, i, table) /\ v.averageIncome = e.sums.averageIncome
    BY <1>4, <1>8, <2>1, <2>2 DEF ReadSums, IsSums
  <2> HIDE DEF Rest, Start, Income, Reads
  <2>5. Rest /\ Start /\ Income /\ Reads
    BY <1>4, <1>8, <2>3, <2>4 DEF Rest, Start, Income, Reads
  <2> QED
    BY <1>3, <2>5 DEF Rest, Start, Income, Reads
<1>9. CASE i = 4
  <2>1. a = Amount(Incomes(table))
    BY <1>1, <1>9 DEF Answer
  <2>2. PICK v : v = WithTotals([e.sums EXCEPT !.totalIncome = a])
    OBVIOUS
  <2>3. g = [e EXCEPT !.sums = v]
    BY <1>2, <1>4, <1>9, <2>2 DEF Shown
  <2>4. ReadSums(e.sums, v, i, table) /\ v.averageIncome = e.sums.averageIncome
    BY <1>4, <1>9, <2>1, <2>2 DEF ReadSums, IsSums, WithTotals
  <2> HIDE DEF Rest, Start, Income, Reads
  <2>5. Rest /\ Start /\ Income /\ Reads
    BY <1>4, <1>9, <2>3, <2>4 DEF Rest, Start, Income, Reads
  <2> QED
    BY <1>3, <2>5 DEF Rest, Start, Income, Reads
<1>10. CASE i = 5
  <2>1. a = Amount(Since(Expenses(table), Now))
    BY <1>1, <1>10 DEF Answer
  <2>2. PICK v : v = [e.sums EXCEPT !.periodTotal = a]
    OBVIOUS
  <2>3. g = [e EXCEPT !.sums = v]
    BY <1>2, <1>4, <1>10, <2>2 DEF Shown
  <2>4. ReadSums(e.sums, v, i, table) /\ v.averageIncome = e.sums.averageIncome
    BY <1>4, <1>10, <2>1, <2>2 DEF ReadSums, IsSums
  <2> HIDE DEF Rest, Start, Income, Reads
  <2>5. Rest /\ Start /\ Income /\ Reads
    BY <1>4, <1>10, <2>3, <2>4 DEF Rest, Start, Income, Reads
  <2> QED
    BY <1>3, <2>5 DEF Rest, Start, Income, Reads
<1>11. CASE i = 6
  <2>1. a = Amount(Regular(Since(Expenses(table), Now)))
    BY <1>1, <1>11 DEF Answer
  <2>2. PICK v : v = WithPeriod([e.sums EXCEPT !.periodRegular = a])
    OBVIOUS
  <2>3. g = [e EXCEPT !.sums = v]
    BY <1>2, <1>4, <1>11, <2>2 DEF Shown
  <2>4. ReadSums(e.sums, v, i, table) /\ v.averageIncome = e.sums.averageIncome
    BY <1>4, <1>11, <2>1, <2>2 DEF ReadSums, IsSums, WithPeriod
  <2> HIDE DEF Rest, Start, Income, Reads
  <2>5. Rest /\ Start /\ Income /\ Reads
    BY <1>4, <1>11, <2>3, <2>4 DEF Rest, Start, Income, Reads
  <2> QED
    BY <1>3, <2>5 DEF Rest, Start, Income, Reads
<1>12. CASE i = 7
  <2>1. a = Amount(Since(Incomes(table), Now))
    BY <1>1, <1>12 DEF Answer
  <2>2. PICK v : v = WithAverages([e.sums EXCEPT !.periodIncome = a], Months(e))
    OBVIOUS
  <2>3. g = [e EXCEPT !.sums = v]
    BY <1>2, <1>4, <1>12, <2>2 DEF Shown
  <2>4. ReadSums(e.sums, v, i, table)
    BY <1>4, <1>12, <2>1, <2>2 DEF ReadSums, IsSums, WithAverages
  <2>5. v.averageIncome = [sum |-> e.sums.totalIncome, months |-> Months(e)]
    BY <1>4, <2>2 DEF IsSums, WithAverages
  <2> HIDE DEF Rest, Start, Income, Reads
  <2>6. Rest /\ Start /\ Income /\ Reads
    BY <1>4, <1>12, <2>3, <2>4, <2>5 DEF Rest, Start, Income, Reads
  <2> QED
    BY <1>3, <2>6 DEF Rest, Start, Income, Reads
<1> QED
  BY <1>5, <1>6, <1>7, <1>8, <1>9, <1>10, <1>11, <1>12

-----------------------------------------------------------------------------
(* The answer to a query: what it reads is right, the rest stays.          *)
LEMMA QueriedRight ==
  ASSUME table \subseteq Items, NEW e, Shape(e), NEW j \in Coroutines, e.co[j].step \in 1..7,
         NEW q \in 1..7
  PROVE  LET g == Queried(e, j) IN
         /\ q = e.co[j].step => Right(g, table, q)
         /\ q # e.co[j].step /\ Right(e, table, q) => Right(g, table, q)
<1>1. PICK i \in 1..7 : i = e.co[j].step
  OBVIOUS
<1>2. PICK g : g = Queried(e, j)
  OBVIOUS
<1>3. /\ g.startMonth = IF i = 1 /\ FirstMonth(table) # 0 THEN FirstMonth(table)
                                                          ELSE e.startMonth
      /\ ReadSums(e.sums, g.sums, i, table)
  BY <1>1, <1>2, QueriedFields
<1>4. CASE q = i
  <2>1. CASE i = 1
    <3>1. table # {} => g.startMonth = FirstMonth(table)
      BY <1>3, <2>1, FirstMonthIs
    <3>2. \A r \in table : g.startMonth <= r.month
      BY <3>1, FirstMonthIs
    <3> QED
      BY <1>1, <1>2, <1>4, <2>1, <3>2 DEF Right
  <2>2. CASE i # 1
    BY <1>1, <1>2, <1>3, <1>4, <2>2 DEF Right, ReadSums
  <2> QED
    BY <2>1, <2>2
<1>5. CASE q # i
  BY <1>1, <1>2, <1>3, <1>5 DEF Right, ReadSums
<1> QED
  BY <1>1, <1>4, <1>5

(* With an update under way a fresh entry has no loop but that update's.   *)
LEMMA OneLoop ==
  ASSUME NEW e, Shape(e), Orderly(e), e.fresh, NEW j \in Coroutines, e.co[j].kind = "update",
         NEW l \in Coroutines, l # j
  PROVE  e.co[l].kind = "none"
<1>1. Placed(e.co[l])
  BY DEF Shape
<1>2. e.co[l].kind # "update"
  BY DEF Orderly
<1>3. e.co[l].kind # "select"
  BY DEF Orderly, Updating
<1> QED
  BY <1>1, <1>2, <1>3 DEF Placed

LEMMA QueriedOK ==
  ASSUME table \subseteq Items, NEW e, Shape(e), EntryOK(e, table, categories),
         NEW j \in Coroutines, e.co[j].step \in 1..7
  PROVE  EntryOK(Queried(e, j), table, categories)
<1>1. PICK i \in 1..7 : i = e.co[j].step
  OBVIOUS
<1>2. PICK g : g = Queried(e, j)
  OBVIOUS
<1>3. /\ IsEntry(g) /\ g.co = e.co /\ g.screen = e.screen /\ g.fresh = e.fresh
      /\ g.stats = e.stats /\ g.periods = e.periods
      /\ g.startMonth = IF i = 1 /\ FirstMonth(table) # 0 THEN FirstMonth(table)
                                                          ELSE e.startMonth
      /\ ReadSums(e.sums, g.sums, i, table)
      /\ g.sums.averageIncome = IF i = 7 THEN [sum |-> e.sums.totalIncome, months |-> Months(e)]
                                         ELSE e.sums.averageIncome
  BY <1>1, <1>2, QueriedFields
<1>4. e.co[j].kind = "update" /\ Placed(e.co[j])
  BY <1>1 DEF Shape, Placed
<1>5. Updating(e) /\ Updating(g)
  BY <1>3, <1>4 DEF Updating
<1>6. Known(g, categories)
  BY <1>3 DEF EntryOK, Known, Going
<1>7. Typed(g)
  <2>1. e.startMonth \in 1..Now /\ e.sums.totalIncome \in Nat /\ e.sums.averageIncome \in Quotients
    BY DEF EntryOK, Typed
  <2>2. g.startMonth \in 1..Now
    BY <1>3, <2>1, FirstMonthIs
  <2>3. g.sums.totalIncome \in Nat
    <3>1. Amount(Incomes(table)) \in Nat
      BY AmountIsNat DEF Incomes
    <3> QED
      BY <1>3, <2>1, <3>1 DEF ReadSums
  <2>4. Months(e) \in 1..Now
    BY <2>1, StatisticsAssumption DEF Months
  <2>5. g.sums.averageIncome \in Quotients
    BY <1>3, <2>1, <2>4 DEF Quotients
  <2> QED
    BY <1>3, <2>2, <2>3, <2>5 DEF EntryOK, Typed
<1>8. Current(g, table)
  <2> SUFFICES ASSUME g.fresh, NEW q \in 1..7, None(g, 1, q) PROVE Right(g, table, q)
    BY <1>5 DEF Current
  <2>1. None(e, 1, q) /\ q # i
    BY <1>1, <1>3 DEF None
  <2>2. Right(e, table, q)
    BY <1>3, <2>1 DEF EntryOK, Current
  <2> QED
    BY <1>1, <1>2, <2>1, <2>2, QueriedRight
<1>9. Orderly(g)
  BY <1>3, <1>5 DEF EntryOK, Orderly, Updating
<1>10. Mapped(g, table, categories)
  <2> SUFFICES ASSUME g.fresh, NEW l \in Coroutines, g.co[l].step = 8 PROVE FALSE
    BY <1>5 DEF Mapped
  <2>1. l # j
    BY <1>1, <1>3
  <2>2. e.co[l].kind = "none"
    BY <1>3, <1>4, <2>1, OneLoop DEF EntryOK
  <2> QED
    BY <1>3, <2>2 DEF Shape, Placed
<1> QED
  BY <1>2, <1>6, <1>7, <1>8, <1>9, <1>10 DEF EntryOK

-----------------------------------------------------------------------------
(* A query that is not the last moves its update to the next one.          *)
LEMMA SummedOK ==
  ASSUME table \subseteq Items, NEW e, Shape(e), EntryOK(e, table, categories),
         NEW j \in Coroutines, NEW f, Summed(e, j, f)
  PROVE  EntryOK(f, table, categories) /\ f.screen = e.screen
<1>1. PICK i \in 1..6 : i = e.co[j].step
  BY DEF Summed
<1>2. PICK g : g = Queried(e, j)
  OBVIOUS
<1>3. EntryOK(g, table, categories)
  BY <1>1, <1>2, QueriedOK
<1>4. IsEntry(g) /\ g.co = e.co /\ g.screen = e.screen /\ g.fresh = e.fresh
  <2>1. i \in 1..7
    OBVIOUS
  <2> QED
    BY <1>1, <1>2, <2>1, QueriedFields
<1>5. PICK c : c = [e.co[j] EXCEPT !.step = i + 1]
  OBVIOUS
<1>6. IsCoroutine(e.co[j]) /\ e.co[j].kind = "update" /\ Placed(e.co[j])
  BY <1>1 DEF Shape, Placed
<1>7. c.kind = "update" /\ c.step = i + 1 /\ c.old = e.co[j].old /\ c.map = e.co[j].map
  BY <1>5, <1>6 DEF IsCoroutine
<1>8. f = [g EXCEPT !.co[j].step = i + 1]
  BY <1>1, <1>2 DEF Summed
<1>9. /\ f.co = [e.co EXCEPT ![j] = c] /\ f.screen = g.screen /\ f.fresh = g.fresh
      /\ f.stats = g.stats /\ f.periods = g.periods /\ SameSums(g, f)
  BY <1>4, <1>5, <1>8 DEF IsEntry, SameSums
<1>10. \A l \in Coroutines : f.co[l] = IF l = j THEN c ELSE e.co[l]
  BY <1>9 DEF Shape
<1>11. Updating(e) /\ Updating(g) /\ Updating(f)
  BY <1>4, <1>6, <1>7, <1>10 DEF Updating
<1>12. Known(f, categories)
  BY <1>1, <1>3, <1>4, <1>7, <1>9, <1>10 DEF EntryOK, Known, Going
<1>13. Typed(f)
  BY <1>3, <1>4, <1>7, <1>9, <1>10 DEF EntryOK, Typed, SameSums
<1>14. Current(f, table)
  <2> SUFFICES ASSUME f.fresh, NEW q \in 1..7, None(f, 1, q) PROVE Right(f, table, q)
    BY <1>11 DEF Current
  <2>1. q <= i
    BY <1>7, <1>10 DEF None
  <2>2. Right(g, table, q)
    <3>1. CASE q = i
      BY <1>1, <1>2, <3>1, QueriedRight
    <3>2. CASE q # i
      <4>1. None(g, 1, q)
        BY <1>1, <1>4, <1>10, <2>1, <3>2 DEF None
      <4> QED
        BY <1>3, <1>9, <4>1 DEF EntryOK, Current
    <3> QED
      BY <3>1, <3>2
  <2> QED
    BY <1>9, <2>2 DEF Right, SameSums
<1>15. Orderly(f)
  BY <1>3, <1>4, <1>6, <1>7, <1>9, <1>10, <1>11 DEF EntryOK, Orderly
<1>16. Mapped(f, table, categories)
  <2> SUFFICES ASSUME f.fresh, NEW l \in Coroutines, f.co[l].step = 8 PROVE FALSE
    BY <1>11 DEF Mapped
  <2>1. l # j
    BY <1>1, <1>7, <1>10
  <2>2. e.co[l].kind = "none"
    BY <1>4, <1>6, <1>9, <2>1, OneLoop DEF EntryOK
  <2> QED
    BY <1>10, <2>1, <2>2 DEF Shape, Placed
<1> QED
  BY <1>4, <1>9, <1>12, <1>13, <1>14, <1>15, <1>16 DEF EntryOK

-----------------------------------------------------------------------------
(* A loop c that coroutine j of g may stand at the head of.                *)
Ready(g, j, c) ==
  /\ IsCoroutine(c) /\ c.step = 8
  /\ \/ c.kind = "update" /\ g.co[j].kind = "update" /\ g.co[j].step \in {7, 8} /\ c.period = All
     \/ /\ c.kind = "select" /\ g.co[j].kind # "update" /\ g.co[j].step \in {0, 8}
        /\ g.screen = "stats" /\ g.periods # {}
  /\ c.next \in Nat \ {0} /\ c.next <= c.size + 1 /\ c.period \in g.periods \cup {All}
  /\ \A i \in 1..(c.next - 1) : categories[i] \in DOMAIN c.map
  /\ \A n \in DOMAIN c.map : n = "Grocery" \/ Seen(n, c, categories)
  /\ \A n \in DOMAIN c.map : c.map[n] \in Figures
  /\ g.fresh => \A n \in DOMAIN c.map : Seen(n, c, categories) =>
       /\ c.map[n].total = TotalIn(table, n, c.period)
       /\ c.map[n].average = AverageIn(g, table, n)
  /\ g.co[j].step = 7 => Right(g, table, 7)

(* What the head of a loop leaves the coroutines.                          *)
LEMMA HeadCoroutines ==
  ASSUME NEW g, g.co = [l \in Coroutines |-> g.co[l]], NEW j \in Coroutines,
         NEW f, NEW c, f.co = [g.co EXCEPT ![j] = c]
  PROVE  \A l \in Coroutines : f.co[l] = IF l = j THEN c ELSE g.co[l]
OBVIOUS

(* Beyond its head a loop leaves the sums as right as they were.           *)
LEMMA HeadRight ==
  ASSUME NEW g, Current(g, table), NEW j \in Coroutines, NEW c, Ready(g, j, c),
         NEW f, SameSums(g, f), f.fresh = g.fresh, f.fresh, NEW d,
         \A l \in Coroutines : f.co[l] = IF l = j THEN d ELSE g.co[l],
         NEW q \in 1..7, None(f, 1, q)
  PROVE  Right(f, table, q)
<1>1. Right(g, table, q)
  <2>1. CASE q = 7 /\ g.co[j].step = 7
    BY <2>1 DEF Ready
  <2>2. CASE ~(q = 7 /\ g.co[j].step = 7)
    <3>1. g.co[j].step \notin 1..q
      BY <2>2 DEF Ready
    <3>2. None(g, 1, q)
      BY <3>1 DEF None
    <3> QED
      BY <3>2 DEF Current
  <2> QED
    BY <2>1, <2>2
<1> QED
  BY <1>1 DEF Right, SameSums

(* A loop that ends publishes its map: every category was seen.            *)
LEMMA EndsOK ==
  ASSUME table \subseteq Items, CatsOK(categories),
         NEW g, Shape(g), EntryOK(g, table, categories), NEW j \in Coroutines,
         NEW c, Ready(g, j, c), c.size = Len(categories),
         NEW f, SameSums(g, f), f.screen = g.screen, f.fresh = g.fresh, HeadEnds(g, j, c, f)
  PROVE  EntryOK(f, table, categories)
<1>1. PICK cats : cats = categories
  OBVIOUS
<1>2. /\ Len(cats) \in Nat /\ Len(Categories) \in Nat /\ Len(Categories) <= Len(cats)
      /\ c.next = Len(cats) + 1
  <2>1. Len(cats) \in Nat /\ Len(Categories) \in Nat
    BY <1>1, StatisticsAssumption, LenProperties DEF CatsOK
  <2> QED
    BY <1>1, <2>1 DEF CatsOK, HeadEnds, Ready
<1>3. \A l \in Coroutines : f.co[l] = IF l = j THEN NoCoroutine ELSE g.co[l]
  BY HeadCoroutines DEF HeadEnds, Shape
<1>4. /\ NoCoroutine.kind = "none" /\ NoCoroutine.step = 0 /\ NoCoroutine.old = NoStat
      /\ DOMAIN NoCoroutine.map = {}
  BY DEF NoCoroutine
<1>5. /\ f.stats = c.map /\ g.periods \subseteq f.periods
      /\ c.kind = "update" => f.periods = g.periods \cup (g.startMonth..Now)
      /\ c.kind = "select" => f.periods = g.periods
      /\ c.kind = "select" => f.periods # {}
  BY DEF HeadEnds, Ready
<1>6. c.kind \in {"update", "select"}
  BY DEF Ready
<1>7. \A l \in Coroutines : Placed(g.co[l])
  BY DEF Shape
<1>8. Known(f, cats)
  <2>1. \A i \in 1..Len(Categories) : cats[i] \in DOMAIN f.stats
    BY <1>1, <1>2, <1>5 DEF Ready
  <2>2. \A l \in Coroutines : f.co[l].step = 8 => Going(f, f.co[l], cats)
    BY <1>1, <1>3, <1>4, <1>5 DEF EntryOK, Known, Going
  <2> QED
    BY <2>1, <2>2 DEF Known
<1>9. Typed(f)
  <2>1. NoStat \in Figures
    BY StatisticsAssumption DEF NoStat, NoQuotient, Figures, Quotients
  <2>2. f.periods \subseteq 1..Now
    BY <1>5, <1>6, StatisticsAssumption DEF EntryOK, Typed
  <2>3. \A n \in DOMAIN f.stats : f.stats[n] \in Figures
    BY <1>5 DEF Ready
  <2>4. \A l \in Coroutines : f.co[l].old \in Figures
                              /\ \A n \in DOMAIN f.co[l].map : f.co[l].map[n] \in Figures
    BY <1>3, <1>4, <2>1 DEF EntryOK, Typed
  <2>5. f.fresh \in BOOLEAN
    BY Zenon DEF EntryOK, Typed
  <2> QED
    BY <2>2, <2>3, <2>4, <2>5 DEF EntryOK, Typed, SameSums
<1>10. Current(f, table)
  <2> SUFFICES ASSUME f.fresh
               PROVE  /\ \A q \in 1..7 : None(f, 1, q) => Right(f, table, q)
                      /\ ~Updating(f) => \A i \in table : i.month \in f.periods
    BY DEF Current
  <2>1. \A q \in 1..7 : None(f, 1, q) => Right(f, table, q)
    BY <1>3, HeadRight DEF EntryOK
  <2>2. ASSUME ~Updating(f), NEW i \in table PROVE i.month \in f.periods
    <3>1. CASE c.kind = "update"
      <4>1. \A l \in Coroutines : l # j => g.co[l].kind # "update"
        BY <1>3, <2>2 DEF Updating
      <4>2. None(g, 1, 1)
        BY <1>7, <4>1, <3>1 DEF None, Placed, Ready
      <4>3. Right(g, table, 1)
        BY <4>2 DEF EntryOK, Current
      <4>4. g.startMonth <= i.month
        BY <4>3 DEF Right
      <4> QED
        BY <1>5, <3>1, <4>4, StatisticsAssumption DEF EntryOK, Typed
    <3>2. CASE c.kind = "select"
      <4>1. ~Updating(g)
        BY <1>3, <2>2, <3>2 DEF Updating, Ready
      <4> QED
        BY <1>5, <3>2, <4>1 DEF EntryOK, Current
    <3> QED
      BY <1>6, <3>1, <3>2
  <2> QED
    BY <2>1, <2>2
<1>11. Orderly(f)
  <2>1. ASSUME NEW l \in Coroutines, f.co[l].kind = "select"
        PROVE  f.screen = "stats" /\ f.periods # {}
    BY <1>3, <1>4, <1>5, <2>1 DEF EntryOK, Orderly
  <2>2. ASSUME Updating(f) PROVE f.screen # "stats" \/ f.periods = {}
    <3>1. PICK l \in Coroutines : f.co[l].kind = "update"
      BY <2>2 DEF Updating
    <3>2. l # j /\ g.co[l].kind = "update" /\ Updating(g)
      BY <1>3, <1>4, <3>1 DEF Updating
    <3>3. CASE c.kind = "update"
      BY <3>2, <3>3 DEF EntryOK, Orderly, Ready
    <3>4. CASE c.kind = "select"
      BY <1>5, <3>2, <3>4 DEF EntryOK, Orderly
    <3> QED
      BY <1>6, <3>3, <3>4
  <2>3. f.screen = "stats" \/ f.fresh =>
          \A a, b \in Coroutines : f.co[a].kind = "update" /\ f.co[b].kind = "update" => a = b
    BY <1>3, <1>4 DEF EntryOK, Orderly
  <2> QED
    BY <2>1, <2>2, <2>3 DEF Orderly
<1>12. Mapped(f, table, cats)
  <2> SUFFICES ASSUME f.fresh PROVE Mapped(f, table, cats)
    BY DEF Mapped
  <2>1. \A n \in DOMAIN c.map : Seen(n, c, cats)
    <3>1. PICK i \in 1..Len(Categories) : Categories[i] = "Grocery"
      BY StatisticsAssumption
    <3>2. cats[i] = "Grocery" /\ i \in 1..(c.next - 1)
      BY <1>1, <1>2, <3>1 DEF CatsOK
    <3>3. Seen("Grocery", c, cats)
      BY <3>2 DEF Seen
    <3> QED
      BY <1>1, <3>3 DEF Ready
  <2>2. \A n : AverageIn(f, table, n) = AverageIn(g, table, n)
    BY DEF AverageIn, Months, SameSums
  <2>3. \A n \in DOMAIN f.stats : /\ f.stats[n].total = TotalIn(table, n, c.period)
                                  /\ f.stats[n].average = AverageIn(f, table, n)
    BY <1>1, <1>5, <2>1, <2>2 DEF Ready
  <2>4. c.period \in f.periods \cup {All}
    BY <1>5 DEF Ready
  <2>5. ASSUME NEW l \in Coroutines, f.co[l].step = 8
        PROVE  /\ \A n \in DOMAIN f.co[l].map : Seen(n, f.co[l], cats) =>
                    /\ f.co[l].map[n].total = TotalIn(table, n, f.co[l].period)
                    /\ f.co[l].map[n].average = AverageIn(f, table, n)
               /\ f.co[l].period # All =>
                    f.co[l].old.average = AverageIn(f, table, cats[f.co[l].next])
    <3>1. l # j /\ f.co[l] = g.co[l]
      BY <1>3, <1>4, <2>5
    <3> QED
      BY <1>1, <2>2, <2>5, <3>1 DEF EntryOK, Mapped
  <2> QED
    BY <2>3, <2>4, <2>5 DEF Mapped
<1> QED
  BY <1>1, <1>8, <1>9, <1>10, <1>11, <1>12 DEF EntryOK

(* A loop that goes on: a month's loop has read old figures that are right.*)
LEMMA GoesOK ==
  ASSUME table \subseteq Items, CatsOK(categories),
         NEW g, Shape(g), EntryOK(g, table, categories), NEW j \in Coroutines,
         NEW c, Ready(g, j, c), c.size = Len(categories),
         NEW f, SameSums(g, f), f.screen = g.screen, f.fresh = g.fresh, HeadGoes(g, j, c, f)
  PROVE  EntryOK(f, table, categories)
<1>1. PICK cats : cats = categories
  OBVIOUS
<1>2. Len(cats) \in Nat /\ Len(Categories) \in Nat /\ Len(Categories) <= Len(cats)
  BY <1>1, StatisticsAssumption, LenProperties DEF CatsOK
<1>3. PICK o : /\ f.co = [g.co EXCEPT ![j] = [c EXCEPT !.old = o]]
               /\ c.period = All => o = NoStat
               /\ c.period # All => cats[c.next] \in DOMAIN g.stats /\ o = g.stats[cats[c.next]]
  BY <1>1 DEF HeadGoes
<1>4. PICK d : d = [c EXCEPT !.old = o]
  OBVIOUS
<1>5. \A l \in Coroutines : f.co[l] = IF l = j THEN d ELSE g.co[l]
  BY <1>3, <1>4, HeadCoroutines DEF Shape
<1>6. /\ d.kind = c.kind /\ d.step = 8 /\ d.period = c.period /\ d.next = c.next
      /\ d.size = c.size /\ d.map = c.map /\ d.old = o
  BY <1>4 DEF Ready, IsCoroutine
<1>7. f.stats = g.stats /\ f.periods = g.periods /\ c.next <= c.size
  BY DEF HeadGoes
<1>8. \A n : Seen(n, d, cats) <=> Seen(n, c, cats)
  BY <1>6 DEF Seen
<1>9. Updating(f) <=> Updating(g)
  <2>1. \A l \in Coroutines : f.co[l].kind = "update" <=> g.co[l].kind = "update"
    BY <1>5, <1>6 DEF Ready
  <2> QED
    BY <2>1 DEF Updating
<1>10. Known(f, cats)
  <2>1. Going(f, d, cats)
    <3>1. d.size \in Len(Categories)..Len(cats) /\ d.next \in 1..d.size
      BY <1>1, <1>2, <1>6, <1>7 DEF Ready
    <3>2. \A i \in 1..(d.next - 1) : cats[i] \in DOMAIN d.map
      BY <1>1, <1>6 DEF Ready
    <3>3. \A n \in DOMAIN d.map : n = "Grocery" \/ Seen(n, d, cats)
      BY <1>1, <1>6, <1>8 DEF Ready
    <3> QED
      BY <1>6, <1>7, <3>1, <3>2, <3>3 DEF Going, Ready
  <2>2. \A l \in Coroutines : f.co[l].step = 8 => Going(f, f.co[l], cats)
    BY <1>1, <1>5, <1>7, <2>1 DEF EntryOK, Known, Going
  <2> QED
    BY <1>1, <1>7, <2>2 DEF EntryOK, Known
<1>11. Typed(f)
  <2>1. NoStat \in Figures
    BY StatisticsAssumption DEF NoStat, NoQuotient, Figures, Quotients
  <2>2. o \in Figures
    BY <1>3, <2>1 DEF EntryOK, Typed
  <2>3. \A l \in Coroutines : f.co[l].old \in Figures
                              /\ \A n \in DOMAIN f.co[l].map : f.co[l].map[n] \in Figures
    BY <1>5, <1>6, <2>2 DEF EntryOK, Typed, Ready
  <2>4. f.fresh \in BOOLEAN
    BY Zenon DEF EntryOK, Typed
  <2> QED
    BY <1>7, <2>3, <2>4 DEF EntryOK, Typed, SameSums
<1>12. Current(f, table)
  <2> SUFFICES ASSUME f.fresh
               PROVE  /\ \A q \in 1..7 : None(f, 1, q) => Right(f, table, q)
                      /\ ~Updating(f) => \A i \in table : i.month \in f.periods
    BY DEF Current
  <2>1. \A q \in 1..7 : None(f, 1, q) => Right(f, table, q)
    BY <1>5, HeadRight DEF EntryOK
  <2> QED
    BY <1>7, <1>9, <2>1 DEF EntryOK, Current
<1>13. Orderly(f)
  <2>1. ASSUME NEW l \in Coroutines, f.co[l].kind = "select"
        PROVE  f.screen = "stats" /\ f.periods # {}
    BY <1>5, <1>6, <1>7, <2>1 DEF EntryOK, Orderly, Ready
  <2>2. f.screen = "stats" \/ f.fresh =>
          \A a, b \in Coroutines : f.co[a].kind = "update" /\ f.co[b].kind = "update" => a = b
    <3>1. \A l \in Coroutines : f.co[l].kind = "update" => g.co[l].kind = "update"
      BY <1>5, <1>6 DEF Ready
    <3> QED
      BY <3>1 DEF EntryOK, Orderly
  <2> QED
    BY <1>7, <1>9, <2>1, <2>2 DEF EntryOK, Orderly
<1>14. Mapped(f, table, cats)
  <2> SUFFICES ASSUME f.fresh PROVE Mapped(f, table, cats)
    BY DEF Mapped
  <2>1. \A n : AverageIn(f, table, n) = AverageIn(g, table, n)
    BY DEF AverageIn, Months, SameSums
  <2>2. ~Updating(f) =>
          /\ \E p \in f.periods \cup {All} :
               \A n \in DOMAIN f.stats : f.stats[n].total = TotalIn(table, n, p)
          /\ \A n \in DOMAIN f.stats : f.stats[n].average = AverageIn(f, table, n)
    BY <1>7, <1>9, <2>1 DEF EntryOK, Mapped
  <2>3. ASSUME NEW l \in Coroutines, f.co[l].step = 8
        PROVE  /\ \A n \in DOMAIN f.co[l].map : Seen(n, f.co[l], cats) =>
                    /\ f.co[l].map[n].total = TotalIn(table, n, f.co[l].period)
                    /\ f.co[l].map[n].average = AverageIn(f, table, n)
               /\ f.co[l].period # All =>
                    f.co[l].old.average = AverageIn(f, table, cats[f.co[l].next])
    <3>1. CASE l # j
      <4>1. f.co[l] = g.co[l]
        BY <1>5, <3>1
      <4> QED
        BY <1>1, <2>1, <2>3, <4>1 DEF EntryOK, Mapped
    <3>2. CASE l = j
      <4>1. f.co[l] = d
        BY <1>5, <3>2
      <4>2. \A n \in DOMAIN d.map : Seen(n, d, cats) =>
              d.map[n].total = TotalIn(table, n, d.period) /\ d.map[n].average = AverageIn(f, table, n)
        BY <1>1, <1>6, <1>8, <2>1 DEF Ready
      <4>3. ASSUME c.period # All PROVE o.average = AverageIn(f, table, cats[c.next])
        <5>1. g.screen = "stats" /\ g.periods # {}
          BY <4>3 DEF Ready
        <5>2. ~Updating(g)
          BY <5>1 DEF EntryOK, Orderly
        <5>3. \A n \in DOMAIN g.stats : g.stats[n].average = AverageIn(g, table, n)
          BY <5>2 DEF EntryOK, Mapped
        <5> QED
          BY <1>3, <2>1, <4>3, <5>3
      <4> QED
        BY <1>6, <4>1, <4>2, <4>3
    <3> QED
      BY <3>1, <3>2
  <2> QED
    BY <2>2, <2>3 DEF Mapped
<1> QED
  BY <1>1, <1>10, <1>11, <1>12, <1>13, <1>14 DEF EntryOK

LEMMA HeadOK ==
  ASSUME table \subseteq Items, CatsOK(categories),
         NEW g, Shape(g), EntryOK(g, table, categories), NEW j \in Coroutines,
         NEW c, Ready(g, j, c), NEW f, Headed(g, j, c, f)
  PROVE  EntryOK(f, table, categories) /\ f.screen = g.screen
<1>1. IsEntry(g) /\ c.next \in Nat
  BY DEF Shape, Ready
<1>2. /\ SameSums(g, f) /\ f.screen = g.screen /\ f.fresh = g.fresh
      /\ c.size = Len(categories)
      /\ HeadEnds(g, j, c, f) \/ HeadGoes(g, j, c, f)
  BY <1>1, HeadFields
<1> QED
  BY <1>2, EndsOK, GoesOK

(* A loop just made is ready, and one whose next category was filled in.   *)
LEMMA NewLoopReady ==
  ASSUME CatsOK(categories), NEW g, NEW j, NEW kind, NEW p, p \in g.periods \cup {All},
         \/ kind = "update" /\ g.co[j].kind = "update" /\ g.co[j].step = 7 /\ p = All
            /\ Right(g, table, 7)
         \/ kind = "select" /\ g.co[j].kind = "none" /\ g.co[j].step = 0
            /\ g.screen = "stats" /\ g.periods # {}
  PROVE  Ready(g, j, NewLoop(kind, p))
<1>1. PICK c : c = NewLoop(kind, p)
  OBVIOUS
<1>2. /\ IsCoroutine(c) /\ c.kind = kind /\ c.step = 8 /\ c.period = p /\ c.next = 1
      /\ c.size = Len(categories) /\ c.map = [n \in {"Grocery"} |-> NoStat]
  BY <1>1, SevenQueries DEF NewLoop, IsCoroutine
<1>3. c.size \in Nat
  BY <1>2, LenProperties DEF CatsOK
<1>4. \A n : ~Seen(n, c, categories)
  BY <1>2 DEF Seen
<1>5. NoStat \in Figures
  BY StatisticsAssumption DEF NoStat, NoQuotient, Figures, Quotients
<1>6. Ready(g, j, c)
  BY <1>2, <1>3, <1>4, <1>5 DEF Ready
<1> QED
  BY <1>1, <1>6

LEMMA FilledReady ==
  ASSUME table \subseteq Items, CatsOK(categories),
         NEW e, Shape(e), EntryOK(e, table, categories), NEW j \in Coroutines, e.co[j].step = 8
  PROVE  Ready(e, j, Filled(e, e.co[j]))
<1>1. PICK c : c = e.co[j]
  OBVIOUS
<1>2. PICK name : name = categories[c.next]
  OBVIOUS
<1>3. PICK b : b = Filled(e, c)
  OBVIOUS
<1>4. PICK fig : fig = CategoryFigures(e, c)
  OBVIOUS
<1>5. IsCoroutine(c) /\ Placed(c) /\ c.step = 8 /\ Going(e, c, categories)
  BY <1>1 DEF Shape, EntryOK, Known
<1>6. PICK m : m = [n \in DOMAIN c.map \cup {name} |-> IF n = name THEN fig ELSE c.map[n]]
  OBVIOUS
<1>7. b = [c EXCEPT !.map = m, !.next = c.next + 1]
  BY <1>2, <1>3, <1>4, <1>6 DEF Filled
<1>8. /\ IsCoroutine(b) /\ b.step = 8 /\ b.kind = c.kind /\ b.period = c.period
      /\ b.size = c.size /\ b.next = c.next + 1 /\ b.map = m
  BY <1>5, <1>7 DEF IsCoroutine
<1>9. c.next \in Nat \ {0} /\ c.size \in Nat /\ c.next <= c.size
  <2>1. Len(Categories) \in Nat /\ Len(categories) \in Nat
    BY StatisticsAssumption, LenProperties DEF CatsOK
  <2> QED
    BY <1>5, <2>1 DEF Going
<1>10. \A i : i \in 1..(b.next - 1) <=> i \in 1..(c.next - 1) \/ i = c.next
  BY <1>8, <1>9
<1>11. \A n : Seen(n, b, categories) <=> Seen(n, c, categories) \/ n = name
  BY <1>2, <1>10 DEF Seen
<1>12. c.kind \in {"update", "select"}
  BY <1>5 DEF Placed
<1>13. \/ c.kind = "update" /\ c.period = All
       \/ c.kind = "select" /\ e.screen = "stats" /\ e.periods # {}
  BY <1>1, <1>5, <1>12 DEF EntryOK, Orderly, Going
<1>14. fig \in Figures
  <2>1. Amount(Of(table, name)) \in Nat
    BY AmountIsNat DEF Of
  <2>2. Amount(In(Of(table, name), c.period)) \in Nat
    BY AmountIsNat DEF Of, In
  <2>3. e.sums.averageIncome \in Quotients /\ e.startMonth \in 1..Now /\ c.old \in Figures
    BY <1>1 DEF EntryOK, Typed
  <2>4. Months(e) \in 1..Now
    BY <2>3, StatisticsAssumption DEF Months
  <2>5. CASE c.period = All
    <3>1. fig = [total |-> Amount(Of(table, name)),
                 average |-> [sum |-> Amount(Of(table, name)), months |-> Months(e)],
                 income |-> e.sums.averageIncome]
      BY <1>2, <1>4, <2>5 DEF CategoryFigures
    <3>2. [sum |-> Amount(Of(table, name)), months |-> Months(e)] \in Quotients
      BY <2>1, <2>4 DEF Quotients
    <3> QED
      BY <2>1, <2>3, <3>1, <3>2 DEF Figures
  <2>6. CASE c.period # All
    <3>1. fig = [c.old EXCEPT !.total = Amount(In(Of(table, name), c.period))]
      BY <1>2, <1>4, <2>6 DEF CategoryFigures
    <3> QED
      BY <2>2, <2>3, <3>1 DEF Figures
  <2> QED
    BY <2>5, <2>6
<1>15. ASSUME e.fresh
       PROVE  fig.total = TotalIn(table, name, c.period) /\ fig.average = AverageIn(e, table, name)
  <2>1. CASE c.period = All
    BY <1>2, <1>4, <2>1 DEF CategoryFigures, TotalIn, AverageIn
  <2>2. CASE c.period # All
    <3>1. fig = [c.old EXCEPT !.total = Amount(In(Of(table, name), c.period))]
      BY <1>2, <1>4, <2>2 DEF CategoryFigures
    <3>2. c.old \in Figures
      BY <1>1 DEF EntryOK, Typed
    <3>3. fig.total = Amount(In(Of(table, name), c.period)) /\ fig.average = c.old.average
      BY <3>1, <3>2 DEF Figures
    <3>4. c.old.average = AverageIn(e, table, name)
      BY <1>1, <1>2, <1>5, <1>15, <2>2 DEF EntryOK, Mapped
    <3> QED
      BY <2>2, <3>3, <3>4 DEF TotalIn
  <2> QED
    BY <2>1, <2>2
<1>16. /\ \A i \in 1..(b.next - 1) : categories[i] \in DOMAIN b.map
       /\ \A n \in DOMAIN b.map : n = "Grocery" \/ Seen(n, b, categories)
  BY <1>2, <1>5, <1>6, <1>8, <1>10, <1>11 DEF Going
<1>17. \A n \in DOMAIN b.map : b.map[n] \in Figures
  BY <1>1, <1>6, <1>8, <1>14 DEF EntryOK, Typed
<1>18. e.fresh => \A n \in DOMAIN b.map : Seen(n, b, categories) =>
         /\ b.map[n].total = TotalIn(table, n, b.period)
         /\ b.map[n].average = AverageIn(e, table, n)
  <2> SUFFICES ASSUME e.fresh, NEW n \in DOMAIN b.map, Seen(n, b, categories)
               PROVE  /\ b.map[n].total = TotalIn(table, n, b.period)
                      /\ b.map[n].average = AverageIn(e, table, n)
    OBVIOUS
  <2>1. CASE n = name
    BY <1>6, <1>8, <1>15, <2>1
  <2>2. CASE n # name
    <3>1. n \in DOMAIN c.map /\ Seen(n, c, categories) /\ b.map[n] = c.map[n]
      BY <1>6, <1>8, <1>11, <2>2
    <3> QED
      BY <1>1, <1>5, <1>8, <3>1 DEF EntryOK, Mapped
  <2> QED
    BY <2>1, <2>2
<1>19. Ready(e, j, b)
  BY <1>1, <1>5, <1>8, <1>9, <1>13, <1>16, <1>17, <1>18 DEF Ready, Going
<1> QED
  BY <1>1, <1>3, <1>19

(* What the coroutines do keeps an entry sound.                            *)
LEMMA WorksOK ==
  ASSUME table \subseteq Items, CatsOK(categories),
         NEW e, Shape(e), EntryOK(e, table, categories), NEW j \in Coroutines,
         NEW f, Works(e, j, f)
  PROVE  EntryOK(f, table, categories) /\ f.screen = e.screen
<1>1. CASE Summed(e, j, f)
  BY <1>1, SummedOK
<1>2. CASE Looped(e, j, f)
  <2>1. PICK g : g = Queried(e, j)
    OBVIOUS
  <2>2. e.co[j].step = 7 /\ Headed(g, j, NewLoop("update", All), f)
    BY <1>2, <2>1 DEF Looped
  <2>3. IsEntry(g) /\ g.co = e.co /\ g.screen = e.screen /\ EntryOK(g, table, categories)
    <3>1. PICK i \in 1..7 : e.co[j].step = i
      BY <2>2
    <3>2. IsEntry(g) /\ g.co = e.co /\ g.screen = e.screen
      BY <2>1, <3>1, QueriedFields
    <3> QED
      BY <2>1, <3>1, <3>2, QueriedOK
  <2>4. Right(g, table, 7)
    BY <2>1, <2>2, QueriedRight
  <2>5. IsSums(g.sums)
    BY <2>1, <2>2, SevenQueries, ShownPeriodIncome DEF Queried
  <2>6. Shape(g)
    BY <2>3, <2>5 DEF Shape
  <2>7. g.co[j].kind = "update" /\ g.co[j].step = 7
    BY <2>2, <2>3 DEF Shape, Placed
  <2>8. Ready(g, j, NewLoop("update", All))
    BY <2>4, <2>7, NewLoopReady
  <2> QED
    BY <2>2, <2>3, <2>6, <2>8, HeadOK
<1>3. CASE Counted(e, j, f)
  BY <1>3, FilledReady, HeadOK DEF Counted
<1>4. ASSUME NEW p, Selected(e, j, p, f)
      PROVE  EntryOK(f, table, categories) /\ f.screen = e.screen
  <2>1. e.co[j].step = 0
    BY <1>4 DEF Selected, Shape, Placed
  <2>2. Ready(e, j, NewLoop("select", p))
    BY <1>4, <2>1, NewLoopReady DEF Selected
  <2> QED
    BY <1>4, <2>2, HeadOK DEF Selected
<1> QED
  BY <1>1, <1>2, <1>3, <1>4 DEF Works

-----------------------------------------------------------------------------
(* The other steps keep an entry sound, whatever the table becomes when    *)
(* they make it stale.                                                     *)
LEMMA GrowOK ==
  ASSUME NEW e, NEW d, NEW cats, CatsOK(cats), NEW more, CatsOK(more),
         Len(cats) <= Len(more), \A i \in 1..Len(cats) : more[i] = cats[i],
         EntryOK(e, d, cats)
  PROVE  EntryOK(e, d, more)
<1>1. Len(cats) \in Nat /\ Len(more) \in Nat /\ Len(Categories) \in Nat
  BY StatisticsAssumption, LenProperties DEF CatsOK
<1>2. ASSUME NEW j \in Coroutines, e.co[j].step = 8
      PROVE  /\ Going(e, e.co[j], more)
             /\ \A n : Seen(n, e.co[j], more) <=> Seen(n, e.co[j], cats)
             /\ more[e.co[j].next] = cats[e.co[j].next]
  <2>1. PICK c : c = e.co[j]
    OBVIOUS
  <2>2. Going(e, c, cats)
    BY <1>2, <2>1 DEF EntryOK, Known
  <2>3. c.size \in Nat /\ c.size <= Len(cats) /\ c.next \in 1..c.size
    BY <1>1, <2>2 DEF Going
  <2>4. \A i \in 1..c.next : more[i] = cats[i]
    BY <1>1, <2>3
  <2>5. \A i \in 1..(c.next - 1) : more[i] = cats[i]
    BY <2>3, <2>4
  <2>6. \A n : Seen(n, c, more) <=> Seen(n, c, cats)
    BY <2>5 DEF Seen
  <2>7. c.next \in 1..c.next
    BY <2>3
  <2> QED
    BY <1>1, <2>1, <2>2, <2>4, <2>5, <2>6, <2>7 DEF Going
<1>3. Known(e, more)
  BY <1>1, <1>2 DEF EntryOK, Known, CatsOK
<1>4. Mapped(e, d, more)
  BY <1>2 DEF EntryOK, Mapped
<1> QED
  BY <1>3, <1>4 DEF EntryOK

LEMMA LeftOK ==
  ASSUME NEW e, Shape(e), NEW d, NEW cats, EntryOK(e, d, cats)
  PROVE  EntryOK(LeftBehind(e), d, cats) /\ LeftBehind(e).screen = e.screen
<1>1. PICK f : f = LeftBehind(e)
  OBVIOUS
<1>2. IsEntry(e)
  BY DEF Shape
<1>3. /\ SameSums(e, f) /\ f.screen = e.screen /\ f.fresh = e.fresh
      /\ f.stats = e.stats /\ f.periods = e.periods
      /\ f.co = [l \in Coroutines |-> IF e.co[l].kind = "select" THEN NoCoroutine ELSE e.co[l]]
  BY <1>1, <1>2 DEF LeftBehind, IsEntry, SameSums
<1>4. \A l \in Coroutines : f.co[l] = IF e.co[l].kind = "select" THEN NoCoroutine ELSE e.co[l]
  BY <1>3
<1>5. /\ NoCoroutine.kind = "none" /\ NoCoroutine.step = 0 /\ NoCoroutine.old = NoStat
      /\ DOMAIN NoCoroutine.map = {}
  BY DEF NoCoroutine
<1>6. Updating(f) <=> Updating(e)
  BY <1>4, <1>5 DEF Updating
<1>7. Known(f, cats)
  BY <1>3, <1>4, <1>5 DEF EntryOK, Known, Going
<1>8. Typed(f)
  <2>1. NoStat \in Figures
    BY StatisticsAssumption DEF NoStat, NoQuotient, Figures, Quotients
  <2>2. \A l \in Coroutines : f.co[l].old \in Figures
                              /\ \A n \in DOMAIN f.co[l].map : f.co[l].map[n] \in Figures
    BY <1>4, <1>5, <2>1 DEF EntryOK, Typed
  <2> QED
    BY <1>3, <2>2 DEF EntryOK, Typed, SameSums
<1>9. Current(f, d)
  <2> SUFFICES ASSUME f.fresh
               PROVE  /\ \A q \in 1..7 : None(f, 1, q) => Right(f, d, q)
                      /\ ~Updating(f) => \A i \in d : i.month \in f.periods
    BY DEF Current
  <2>1. ASSUME NEW q \in 1..7, None(f, 1, q) PROVE Right(f, d, q)
    <3>1. None(e, 1, q)
      BY <1>4, <2>1 DEF None, Shape, Placed
    <3>2. Right(e, d, q)
      BY <1>3, <3>1 DEF EntryOK, Current
    <3> QED
      BY <1>3, <3>2 DEF Right, SameSums
  <2> QED
    BY <1>3, <1>6, <2>1 DEF EntryOK, Current
<1>10. Orderly(f)
  BY <1>3, <1>4, <1>5, <1>6 DEF EntryOK, Orderly
<1>11. Mapped(f, d, cats)
  <2> SUFFICES ASSUME f.fresh PROVE Mapped(f, d, cats)
    BY DEF Mapped
  <2>1. \A n : AverageIn(f, d, n) = AverageIn(e, d, n)
    BY <1>3 DEF AverageIn, Months, SameSums
  <2>2. \A l \in Coroutines : f.co[l].step = 8 => f.co[l] = e.co[l]
    BY <1>4, <1>5
  <2> QED
    BY <1>3, <1>6, <2>1, <2>2 DEF EntryOK, Mapped
<1> QED
  BY <1>1, <1>3, <1>7, <1>8, <1>9, <1>10, <1>11 DEF EntryOK

LEMMA StaleOK ==
  ASSUME NEW e, Shape(e), NEW d, NEW now, NEW cats, EntryOK(e, d, cats)
  PROVE  EntryOK([e EXCEPT !.fresh = FALSE], now, cats)
<1>1. PICK f : f = [e EXCEPT !.fresh = FALSE]
  OBVIOUS
<1>2. /\ f.sums = e.sums /\ f.startMonth = e.startMonth /\ f.screen = e.screen
      /\ f.stats = e.stats /\ f.periods = e.periods /\ f.co = e.co /\ f.fresh = FALSE
  BY <1>1 DEF Shape, IsEntry
<1>3. Known(f, cats) /\ Typed(f)
  BY <1>2 DEF EntryOK, Known, Going, Typed
<1>4. Orderly(f)
  BY <1>2 DEF EntryOK, Orderly, Updating
<1>5. Current(f, now) /\ Mapped(f, now, cats)
  BY <1>2 DEF Current, Mapped
<1> QED
  BY <1>1, <1>3, <1>4, <1>5 DEF EntryOK

LEMMA StartOK ==
  ASSUME NEW e, Shape(e), NEW d, NEW now, NEW cats, EntryOK(e, d, cats),
         NEW j \in Coroutines, e.co[j].kind = "none",
         e.screen # "stats" \/ (e.periods = {} /\ Idle(e))
  PROVE  EntryOK(StartUpdate(e, j), now, cats)
<1>1. PICK c : c = [NoCoroutine EXCEPT !.kind = "update", !.step = 1]
  OBVIOUS
<1>2. c.kind = "update" /\ c.step = 1 /\ c.old = NoStat /\ DOMAIN c.map = {}
  BY <1>1 DEF NoCoroutine
<1>3. PICK b : b = Idle(e)
  OBVIOUS
<1>4. PICK f : f = [e EXCEPT !.co[j] = c, !.fresh = b]
  OBVIOUS
<1>5. f = StartUpdate(e, j)
  BY <1>1, <1>3, <1>4 DEF StartUpdate
<1>6. /\ SameSums(e, f) /\ f.screen = e.screen /\ f.stats = e.stats /\ f.periods = e.periods
      /\ f.fresh = b /\ f.co = [e.co EXCEPT ![j] = c]
  BY <1>4 DEF Shape, IsEntry, SameSums
<1>7. \A l \in Coroutines : f.co[l] = IF l = j THEN c ELSE e.co[l]
  BY <1>6 DEF Shape
<1>8. Updating(f)
  BY <1>2, <1>7 DEF Updating
<1>9. Known(f, cats)
  BY <1>2, <1>6, <1>7 DEF EntryOK, Known, Going
<1>10. Typed(f)
  <2>1. NoStat \in Figures
    BY StatisticsAssumption DEF NoStat, NoQuotient, Figures, Quotients
  <2>2. b \in BOOLEAN
    BY <1>3, Zenon DEF Idle
  <2>3. f.fresh \in BOOLEAN
    BY <1>6, <2>2, Zenon
  <2>4. \A l \in Coroutines : f.co[l].old \in Figures
                              /\ \A n \in DOMAIN f.co[l].map : f.co[l].map[n] \in Figures
    BY <1>2, <1>7, <2>1 DEF EntryOK, Typed
  <2> QED
    BY <1>6, <2>3, <2>4 DEF EntryOK, Typed, SameSums
<1>11. Current(f, now)
  <2>1. \A q \in 1..7 : ~None(f, 1, q)
    BY <1>2, <1>7 DEF None
  <2> QED
    BY <1>8, <2>1 DEF Current
<1>12. f.fresh => \A l \in Coroutines : e.co[l].kind = "none" /\ e.co[l].step = 0
  <2> SUFFICES ASSUME f.fresh, NEW l \in Coroutines PROVE e.co[l].kind = "none" /\ e.co[l].step = 0
    OBVIOUS
  <2>1. Idle(e)
    BY <1>3, <1>6, Zenon
  <2> QED
    BY <2>1 DEF Idle, Shape, Placed
<1>13. Orderly(f)
  <2>1. \A l \in Coroutines : f.co[l].kind = "select" => f.screen = "stats" /\ f.periods # {}
    BY <1>2, <1>6, <1>7 DEF EntryOK, Orderly
  <2>2. f.screen # "stats" \/ f.periods = {}
    BY <1>6
  <2>3. f.screen = "stats" => \A l \in Coroutines : e.co[l].kind = "none"
    BY <1>6 DEF Idle
  <2> QED
    BY <1>2, <1>7, <1>12, <2>1, <2>2, <2>3 DEF Orderly
<1>14. Mapped(f, now, cats)
  <2>1. ASSUME f.fresh, NEW l \in Coroutines PROVE f.co[l].step # 8
    BY <1>2, <1>7, <1>12, <2>1
  <2> QED
    BY <1>8, <2>1 DEF Mapped
<1> QED
  BY <1>5, <1>9, <1>10, <1>11, <1>13, <1>14 DEF EntryOK

(* The entry of a screen just shown.                                       *)
LEMMA ArrivesOK ==
  ASSUME NEW screen, NEW d, NEW cats
  PROVE  EntryOK(NewEntry(screen), d, cats) /\ NewEntry(screen).screen = screen
<1>1. PICK e : e = [screen |-> screen, startMonth |-> Now, sums |-> NoSums, stats |-> <<>>,
                    periods |-> {}, co |-> [j \in Coroutines |-> NoCoroutine], fresh |-> FALSE]
  OBVIOUS
<1>2. /\ e.screen = screen /\ e.startMonth = Now /\ e.sums = NoSums /\ DOMAIN e.stats = {}
      /\ e.periods = {} /\ e.fresh = FALSE /\ \A l \in Coroutines : e.co[l] = NoCoroutine
  BY <1>1
<1>3. /\ IsCoroutine(NoCoroutine) /\ Placed(NoCoroutine) /\ NoCoroutine.kind = "none"
      /\ NoCoroutine.step = 0 /\ NoCoroutine.old = NoStat /\ DOMAIN NoCoroutine.map = {}
  BY DEF NoCoroutine, IsCoroutine, Placed
<1>4. Shape(e)
  <2>1. IsSums(NoSums)
    BY DEF NoSums, IsSums
  <2> QED
    BY <1>1, <1>3, <2>1 DEF Shape, IsEntry
<1>5. NoStat \in Figures /\ NoQuotient \in Quotients
  BY StatisticsAssumption DEF NoStat, NoQuotient, Figures, Quotients
<1>6. Known(e, cats) /\ Current(e, d) /\ Mapped(e, d, cats)
  BY <1>2, <1>3 DEF Known, Current, Mapped
<1>7. Typed(e)
  <2>1. NoSums.totalIncome = 0 /\ NoSums.averageIncome = NoQuotient
    BY DEF NoSums
  <2>2. e.fresh \in BOOLEAN
    BY <1>2, Zenon
  <2>3. e.startMonth \in 1..Now /\ e.periods \subseteq 1..Now
    BY <1>2, StatisticsAssumption
  <2>4. e.sums.totalIncome \in Nat /\ e.sums.averageIncome \in Quotients
    BY <1>2, <1>5, <2>1
  <2>5. \A n \in DOMAIN e.stats : e.stats[n] \in Figures
    BY <1>2
  <2>6. \A l \in Coroutines : e.co[l].old \in Figures
                              /\ \A n \in DOMAIN e.co[l].map : e.co[l].map[n] \in Figures
    BY <1>2, <1>3, <1>5
  <2> QED
    BY <2>2, <2>3, <2>4, <2>5, <2>6 DEF Typed
<1>8. Orderly(e)
  BY <1>2, <1>3 DEF Orderly, Updating
<1>9. EntryOK(e, d, cats)
  BY <1>6, <1>7, <1>8 DEF EntryOK
<1>10. PICK j : j = CHOOSE l \in Coroutines : TRUE
  OBVIOUS
<1>11. j \in Coroutines
  BY <1>10, StatisticsAssumption
<1>12. NewEntry(screen) = IF screen \in {"nonregular", "all"} THEN e ELSE StartUpdate(e, j)
  BY <1>1, <1>10 DEF NewEntry
<1>13. Idle(e) /\ e.co[j].kind = "none"
  BY <1>2, <1>3, <1>11 DEF Idle
<1>14. EntryOK(StartUpdate(e, j), d, cats)
  BY <1>2, <1>4, <1>9, <1>11, <1>13, StartOK
<1>15. StartUpdate(e, j).screen = screen
  BY <1>2, <1>4 DEF StartUpdate, Shape, IsEntry
<1> QED
  BY <1>2, <1>9, <1>12, <1>14, <1>15

-----------------------------------------------------------------------------
(* The invariant: the entries, what surrounds them, and the crash.         *)
Outer ==
  /\ CatsOK(categories)
  /\ table \subseteq Items /\ written \in 0..MaxWrites /\ Len(stack) <= MaxDepth
  /\ WritesOK

Entries == \A k \in 1..Len(stack) : EntryOK(stack[k], table, categories)

Crashes == crash \in {"none", "NullPointerException", "ConcurrentModificationException"}

FullInv == IInv /\ Outer /\ Entries /\ Crashes

(* Every step is one of the stack's.                                       *)
LEMMA NextStackStep ==
  ASSUME IInv, WritesOK, [Next]_vars
  PROVE  StackStep
<1>1. CASE UNCHANGED <<stack, table>>
  BY <1>1, SameStackStep
<1>2. ASSUME NEW k \in 1..Len(stack), NEW j \in Coroutines, Sum(k, j) \/ Category(k, j)
      PROVE  StackStep
  <2>1. UNCHANGED <<table, categories>>
    BY <1>2 DEF Sum, Category
  <2>2. \/ stack' = stack
        \/ \E f : Works(stack[k], j, f) /\ stack' = [stack EXCEPT ![k] = f]
    BY <1>2, CoroutineSteps
  <2> QED
    BY <2>1, <2>2, SameStackStep, WorkedStep
<1>3. ASSUME NEW j \in Coroutines, NEW p, SelectPeriod(j, p) PROVE StackStep
  <2>1. UNCHANGED <<table, categories>>
    BY <1>3 DEF SelectPeriod
  <2>2. PICK k : k = Len(stack)
    OBVIOUS
  <2>3. k \in 1..Len(stack) /\ Top = stack[k]
    BY <2>2, TopIsGood DEF Top
  <2>4. \/ stack' = stack
        \/ \E f : Works(stack[k], j, f) /\ stack' = [stack EXCEPT ![k] = f]
    BY <1>3, <2>2, <2>3, SelectSteps
  <2> QED
    BY <2>1, <2>3, <2>4, SameStackStep, WorkedStep
<1>4. ASSUME NEW s \in Screens, Navigate(s) PROVE StackStep
  BY <1>4, NavigateStep
<1>5. CASE Back
  BY <1>5, BackStep
<1>6. ASSUME NEW w, Commit(w) PROVE StackStep
  BY <1>6, CommitStep
<1>7. ASSUME NEW i, Submit(i) \/ Delete(i) PROVE UNCHANGED <<stack, table>>
  BY <1>7 DEF Submit, Delete, Ask
<1>8. ASSUME NEW c, AddCategory(c) PROVE UNCHANGED <<stack, table>>
  BY <1>8 DEF AddCategory
<1>9. ASSUME NEW w, Drop(w) PROVE UNCHANGED <<stack, table>>
  BY <1>9 DEF Drop
<1>10. CASE UNCHANGED vars
  BY <1>1, <1>10 DEF vars
<1>11. CASE Next
  BY <1>1, <1>2, <1>3, <1>4, <1>5, <1>6, <1>7, <1>8, <1>9, <1>11 DEF Next, Screens
<1> QED
  BY <1>10, <1>11

(* The list of categories only grows.                                      *)
LEMMA CategoriesGrow ==
  ASSUME CatsOK(categories), [Next]_vars
  PROVE  \/ categories' = categories
         \/ \E c \in NewCategories : AddCategory(c) /\ categories' = Append(categories, c)
<1>1. ASSUME NEW k, NEW j, Sum(k, j) \/ Category(k, j) PROVE categories' = categories
  BY <1>1 DEF Sum, Category
<1>2. ASSUME NEW j, NEW p, SelectPeriod(j, p) PROVE categories' = categories
  BY <1>2 DEF SelectPeriod
<1>3. ASSUME NEW i, Submit(i) \/ Delete(i) PROVE categories' = categories
  BY <1>3 DEF Submit, Delete, Ask
<1>4. ASSUME NEW s, Navigate(s) PROVE categories' = categories
  BY <1>4 DEF Navigate
<1>5. CASE Back
  BY <1>5 DEF Back
<1>6. ASSUME NEW w, Commit(w) \/ Drop(w) PROVE categories' = categories
  BY <1>6 DEF Commit, Drop
<1>7. CASE UNCHANGED vars
  BY <1>7 DEF vars
<1>8. ASSUME NEW c \in NewCategories, AddCategory(c) PROVE categories' = Append(categories, c)
  BY <1>8 DEF AddCategory
<1>9. CASE Next
  BY <1>1, <1>2, <1>3, <1>4, <1>5, <1>6, <1>8, <1>9 DEF Next
<1> QED
  BY <1>7, <1>9

LEMMA CatsStep ==
  ASSUME CatsOK(categories), [Next]_vars
  PROVE  /\ CatsOK(categories') /\ Len(categories) <= Len(categories')
         /\ \A i \in 1..Len(categories) : categories'[i] = categories[i]
<1>1. categories \in Seq(STRING) /\ Len(categories) \in Nat /\ Len(Categories) \in Nat
  BY StatisticsAssumption, LenProperties DEF CatsOK
<1>2. CASE categories' = categories
  BY <1>1, <1>2
<1>3. ASSUME NEW c \in NewCategories, categories' = Append(categories, c)
      PROVE  /\ CatsOK(categories') /\ Len(categories) <= Len(categories')
             /\ \A i \in 1..Len(categories) : categories'[i] = categories[i]
  <2>1. c \in STRING
    BY StatisticsAssumption
  <2>2. PICK t : t = Append(categories, c)
    OBVIOUS
  <2>3. /\ t \in Seq(STRING) /\ Len(t) = Len(categories) + 1
        /\ \A i \in 1..Len(categories) : t[i] = categories[i]
    BY <1>1, <2>1, <2>2, AppendProperties
  <2> QED
    BY <1>1, <1>3, <2>2, <2>3 DEF CatsOK
<1> QED
  BY <1>2, <1>3, CategoriesGrow

(* A step keeps every entry sound.                                         *)
LEMMA EntriesStep ==
  ASSUME IInv, Outer, Entries, [Next]_vars
  PROVE  \A k \in 1..Len(stack') : EntryOK(stack'[k], table', categories')
<1> SUFFICES ASSUME NEW k \in 1..Len(stack') PROVE EntryOK(stack'[k], table', categories')
  OBVIOUS
<1>1. CatsOK(categories) /\ table \subseteq Items /\ WritesOK
  BY DEF Outer
<1>2. /\ CatsOK(categories') /\ Len(categories) <= Len(categories')
      /\ \A i \in 1..Len(categories) : categories'[i] = categories[i]
  BY <1>1, CatsStep
<1>3. PICK f : f = stack'[k]
  OBVIOUS
<1>4. Arrives(f) \/ (k \in 1..Len(stack) /\ Becomes(stack[k], f))
  BY <1>1, <1>3, NextStackStep DEF StackStep
<1>5. CASE Arrives(f)
  BY <1>3, <1>5, ArrivesOK DEF Arrives
<1>6. CASE k \in 1..Len(stack) /\ Becomes(stack[k], f)
  <2>1. PICK e : e = stack[k]
    OBVIOUS
  <2>2. Shape(e) /\ EntryOK(e, table, categories) /\ Becomes(e, f)
    BY <1>6, <2>1 DEF IInv, IsStack, Good, Entries
  <2>3. CASE Kept(e, f)
    <3>1. EntryOK(e, table, categories')
      BY <1>1, <1>2, <2>2, GrowOK
    <3> QED
      BY <1>3, <2>3, <3>1 DEF Kept
  <2>4. CASE Left(e, f)
    BY <1>3, <2>2, <2>4, LeftOK DEF Left
  <2>5. CASE Staled(e, f)
    BY <1>3, <2>2, <2>5, StaleOK DEF Staled
  <2>6. CASE Started(e, f)
    BY <1>3, <2>2, <2>6, StartOK DEF Started
  <2>7. CASE Worked(e, f)
    BY <1>1, <1>3, <2>2, <2>7, WorksOK DEF Worked
  <2> QED
    BY <2>2, <2>3, <2>4, <2>5, <2>6, <2>7 DEF Becomes
<1> QED
  BY <1>4, <1>5, <1>6

-----------------------------------------------------------------------------
(* What surrounds the entries.                                             *)
SameScreens ==
  Len(stack') = Len(stack) /\ \A k \in 1..Len(stack) : stack'[k].screen = stack[k].screen

LEMMA WritesSame ==
  ASSUME IInv, WritesOK, SameScreens, writes' \subseteq writes
  PROVE  WritesOK'
<1>1. Len(stack) \in 1..Len(stack)
  BY TopIsGood
<1>2. Top'.screen = Top.screen
  BY <1>1 DEF Top, SameScreens
<1>3. Len(stack') = Len(stack)
  BY DEF SameScreens
<1> QED
  BY <1>2, <1>3 DEF WritesOK

LEMMA WritesAbandoned ==
  ASSUME WritesOK, NEW ws, ws \subseteq writes, writes' = Abandoned(ws)
  PROVE  WritesOK'
<1>1. ASSUME NEW v \in writes'
      PROVE  /\ v = [op |-> v.op, item |-> v.item, at |-> v.at] /\ v.at = 0
             /\ v.op \in {"insert", "delete"} /\ v.item \in Items
  <2>1. PICK w \in ws : v = [w EXCEPT !.at = 0]
    BY <1>1 DEF Abandoned
  <2>2. /\ w = [op |-> w.op, item |-> w.item, at |-> w.at]
        /\ w.op \in {"insert", "delete"} /\ w.item \in Items
    BY <2>1 DEF WritesOK
  <2>3. v.op = w.op /\ v.item = w.item /\ v.at = 0 /\ v = [op |-> v.op, item |-> v.item, at |-> v.at]
    BY <2>1, <2>2
  <2> QED
    BY <2>2, <2>3
<1> QED
  BY <1>1 DEF WritesOK

LEMMA AskedOK ==
  ASSUME IInv, Outer, NEW i \in Items, Submit(i) \/ Delete(i)
  PROVE  Outer'
<1>1. PICK w : w.op \in {"insert", "delete"} /\ w = [op |-> w.op, item |-> i, at |-> Len(stack)]
               /\ writes' = writes \cup {w} /\ Top.screen # "stats"
               /\ written < MaxWrites /\ written' = written + 1
               /\ UNCHANGED <<table, categories, stack>>
  <2>1. CASE Submit(i)
    <3>1. PICK w : w = [op |-> "insert", item |-> i, at |-> Len(stack)]
      OBVIOUS
    <3>2. w.op = "insert"
      BY <3>1
    <3>3. /\ writes' = writes \cup {w} /\ Top.screen # "stats"
          /\ written < MaxWrites /\ written' = written + 1
          /\ UNCHANGED <<table, categories, stack>>
      BY <2>1, <3>1 DEF Submit, Ask
    <3> QED
      BY <3>1, <3>2, <3>3
  <2>2. CASE Delete(i)
    <3>1. PICK w : w = [op |-> "delete", item |-> i, at |-> Len(stack)]
      OBVIOUS
    <3>2. w.op = "delete"
      BY <3>1
    <3>3. /\ writes' = writes \cup {w} /\ Top.screen # "stats"
          /\ written < MaxWrites /\ written' = written + 1
          /\ UNCHANGED <<table, categories, stack>>
      BY <2>2, <3>1 DEF Delete, Ask
    <3> QED
      BY <3>1, <3>2, <3>3
  <2> QED
    BY <2>1, <2>2
<1>2. w.item = i /\ w.at = Len(stack)
  BY <1>1
<1>3. written' \in 0..MaxWrites
  BY <1>1, StatisticsAssumption DEF Outer
<1>4. Top' = Top /\ Len(stack') = Len(stack)
  BY <1>1 DEF Top
<1>5. WritesOK'
  <2> SUFFICES ASSUME NEW v \in writes'
               PROVE  /\ v = [op |-> v.op, item |-> v.item, at |-> v.at]
                      /\ v.op \in {"insert", "delete"} /\ v.item \in Items
                      /\ v.at \in {0, Len(stack')} /\ (v.at # 0 => Top'.screen # "stats")
    BY DEF WritesOK
  <2>1. CASE v \in writes
    BY <1>4, <2>1 DEF Outer, WritesOK
  <2>2. CASE v = w
    BY <1>1, <1>2, <1>4, <2>2
  <2> QED
    BY <1>1, <2>1, <2>2
<1> QED
  BY <1>1, <1>3, <1>4, <1>5 DEF Outer

(* The coroutines and the selections change no screen.                     *)
LEMMA WorkScreens ==
  ASSUME IInv, Outer, Entries, NEW k \in 1..Len(stack), NEW j \in Coroutines,
         NEW f, Works(stack[k], j, f), stack' = [stack EXCEPT ![k] = f]
  PROVE  SameScreens
<1>1. Shape(stack[k]) /\ EntryOK(stack[k], table, categories)
  BY DEF IInv, IsStack, Good, Entries
<1>2. f.screen = stack[k].screen
  BY <1>1, WorksOK DEF Outer
<1>3. Len(stack') = Len(stack) /\ \A i \in 1..Len(stack) : stack'[i] = IF i = k THEN f ELSE stack[i]
  BY ExceptEntries DEF IInv
<1> QED
  BY <1>2, <1>3 DEF SameScreens

LEMMA WorkOK ==
  ASSUME IInv, Outer, Entries, SameScreens, UNCHANGED <<table, writes, written, categories>>
  PROVE  Outer'
<1>1. WritesOK'
  BY WritesSame DEF Outer
<1> QED
  BY <1>1 DEF Outer, SameScreens

LEMMA OuterStep ==
  ASSUME IInv, Outer, Entries, [Next]_vars
  PROVE  Outer'
<1>1. CatsOK(categories)' /\ MaxDepth \in Nat /\ Len(stack) \in Nat
  <2>1. CatsOK(categories')
    BY CatsStep DEF Outer
  <2> QED
    BY <2>1, StatisticsAssumption, LenProperties DEF CatsOK, IInv, IsStack
<1>2. ASSUME stack' = stack, UNCHANGED <<table, written>>, writes' \subseteq writes
      PROVE  Outer'
  <2>1. SameScreens
    BY <1>2 DEF SameScreens
  <2>2. WritesOK'
    BY <1>2, <2>1, WritesSame DEF Outer
  <2> QED
    BY <1>1, <1>2, <2>2 DEF Outer
<1>3. ASSUME NEW k \in 1..Len(stack), NEW j \in Coroutines, Sum(k, j) \/ Category(k, j)
      PROVE  Outer'
  <2>1. UNCHANGED <<table, writes, written, categories>>
    BY <1>3 DEF Sum, Category
  <2>2. \/ stack' = stack
        \/ \E f : Works(stack[k], j, f) /\ stack' = [stack EXCEPT ![k] = f]
    BY <1>3, CoroutineSteps
  <2>3. SameScreens
    BY <2>2, WorkScreens DEF SameScreens
  <2> QED
    BY <2>1, <2>3, WorkOK
<1>4. ASSUME NEW j \in Coroutines, NEW p, SelectPeriod(j, p) PROVE Outer'
  <2>1. UNCHANGED <<table, writes, written, categories>>
    BY <1>4 DEF SelectPeriod
  <2>2. PICK k : k = Len(stack)
    OBVIOUS
  <2>3. k \in 1..Len(stack) /\ Top = stack[k]
    BY <2>2, TopIsGood DEF Top
  <2>4. \/ stack' = stack
        \/ \E f : Works(stack[k], j, f) /\ stack' = [stack EXCEPT ![k] = f]
    BY <1>4, <2>2, <2>3, SelectSteps
  <2>5. SameScreens
    BY <2>3, <2>4, WorkScreens DEF SameScreens
  <2> QED
    BY <2>1, <2>5, WorkOK
<1>5. ASSUME NEW s \in Screens, Navigate(s) PROVE Outer'
  <2>1. /\ UNCHANGED <<table, written>> /\ Len(stack) < MaxDepth
        /\ writes' = Abandoned(writes) /\ Len(stack') = Len(stack) + 1
    BY <1>5, NavigateStep DEF Navigate
  <2>2. WritesOK'
    BY <2>1, WritesAbandoned DEF Outer
  <2> QED
    BY <1>1, <2>1, <2>2 DEF Outer
<1>6. CASE Back
  <2>1. /\ UNCHANGED <<table, written>> /\ writes' = Abandoned(writes)
        /\ Len(stack') = Len(stack) - 1
    BY <1>6, BackStep DEF Back
  <2>2. WritesOK'
    BY <2>1, WritesAbandoned DEF Outer
  <2> QED
    BY <1>1, <2>1, <2>2 DEF Outer
<1>7. ASSUME NEW w, Commit(w) PROVE Outer'
  <2>1. w \in writes /\ written' = written /\ WritesOK
    BY <1>7 DEF Commit, Outer
  <2>2. table' \subseteq Items
    <3>1. w.item \in Items
      BY <2>1 DEF WritesOK
    <3> QED
      BY <1>7, <3>1 DEF Commit, Outer
  <2>3. \/ SameScreens /\ writes' = writes \ {w}
        \/ Len(stack') = Len(stack) + 1 /\ writes' = Abandoned(writes \ {w})
    BY <1>7, <2>1, CommitStep DEF SameScreens
  <2>4. Len(stack') <= MaxDepth
    <3>1. CASE Len(stack') = Len(stack)
      BY <3>1 DEF Outer
    <3>2. CASE Len(stack') = Len(stack) + 1
      <4>1. CASE stack' = Stale(stack)
        BY <1>1, <3>2, <4>1, StaleStack DEF IInv
      <4>2. ASSUME NEW j \in Coroutines,
                   stack' = [Stale(stack) EXCEPT ![Len(stack)] = StartUpdate(Top, j)]
            PROVE  FALSE
        <5>1. PICK t : t = Stale(stack)
          OBVIOUS
        <5>2. PICK g : g = StartUpdate(Top, j)
          OBVIOUS
        <5>3. PICK k : k = Len(stack)
          OBVIOUS
        <5>4. IsStack(t) /\ Len(t) = Len(stack) /\ k \in 1..Len(t)
          BY <5>1, <5>3, StaleStack, TopIsGood
        <5>5. stack' = [t EXCEPT ![k] = g]
          BY <4>2, <5>1, <5>2, <5>3
        <5>6. Len(stack') = Len(t)
          BY <5>4, <5>5, ExceptEntries
        <5> QED
          BY <1>1, <3>2, <5>4, <5>6
      <4>3. CASE Len(stack) < MaxDepth
        BY <1>1, <3>2, <4>3
      <4> QED
        BY <1>7, <4>1, <4>2, <4>3 DEF Commit
    <3> QED
      BY <2>3, <3>1, <3>2 DEF SameScreens
  <2>5. WritesOK'
    <3>1. CASE SameScreens /\ writes' = writes \ {w}
      BY <2>1, <3>1, WritesSame
    <3>2. CASE writes' = Abandoned(writes \ {w})
      BY <2>1, <3>2, WritesAbandoned
    <3> QED
      BY <2>3, <3>1, <3>2
  <2> QED
    BY <1>1, <2>1, <2>2, <2>4, <2>5 DEF Outer
<1>8. ASSUME NEW i \in Items, Submit(i) \/ Delete(i) PROVE Outer'
  BY <1>8, AskedOK
<1>9. ASSUME NEW c, AddCategory(c) PROVE Outer'
  BY <1>2, <1>9 DEF AddCategory
<1>10. ASSUME NEW w, Drop(w) PROVE Outer'
  BY <1>2, <1>10 DEF Drop
<1>11. CASE UNCHANGED vars
  BY <1>2, <1>11 DEF vars
<1>12. CASE Next
  BY <1>3, <1>4, <1>5, <1>6, <1>7, <1>8, <1>9, <1>10, <1>12 DEF Next, Screens
<1> QED
  BY <1>11, <1>12

-----------------------------------------------------------------------------
(* The loops throw two exceptions and nothing else does.                   *)
LEMMA CrashStep ==
  ASSUME Crashes, [Next]_vars
  PROVE  Crashes'
<1>1. \A k, j, e, c : LoopHead(k, j, e, c) => Crashes'
  BY DEF LoopHead, LoopThrows, Crashes
<1>2. crash' = crash => Crashes'
  BY DEF Crashes
<1>3. ASSUME NEW k, NEW j, Sum(k, j) \/ Category(k, j) PROVE Crashes'
  BY <1>1, <1>2, <1>3 DEF Sum, Category
<1>4. ASSUME NEW j, NEW p, SelectPeriod(j, p) PROVE Crashes'
  BY <1>1, <1>4 DEF SelectPeriod
<1>5. ASSUME NEW s, Navigate(s) PROVE crash' = crash
  BY <1>5 DEF Navigate
<1>6. CASE Back
  BY <1>2, <1>6 DEF Back
<1>7. ASSUME NEW w, Commit(w) \/ Drop(w) PROVE crash' = crash
  BY <1>7 DEF Commit, Drop
<1>8. ASSUME NEW i, Submit(i) \/ Delete(i) PROVE crash' = crash
  BY <1>8 DEF Submit, Delete, Ask
<1>9. ASSUME NEW c, AddCategory(c) PROVE crash' = crash
  BY <1>9 DEF AddCategory
<1>10. CASE UNCHANGED vars
  BY <1>2, <1>10 DEF vars
<1>11. CASE Next
  BY <1>2, <1>3, <1>4, <1>5, <1>6, <1>7, <1>8, <1>9, <1>11 DEF Next
<1> QED
  BY <1>10, <1>11

-----------------------------------------------------------------------------
(* The theorems.                                                           *)
LEMMA FullInvInit ==
  Init => FullInv
<1> SUFFICES ASSUME Init PROVE FullInv
  OBVIOUS
<1>1. IInv
  BY IInvInit
<1>2. PICK e : e = NewEntry("home")
  OBVIOUS
<1>3. stack = <<e>> /\ EntryOK(e, table, categories)
  BY <1>2, ArrivesOK DEF Init
<1>4. Len(stack) = 1 /\ stack[1] = e
  BY <1>3
<1>5. Entries
  BY <1>3, <1>4 DEF Entries
<1>6. CatsOK(categories)
  BY StatisticsAssumption, LenProperties DEF Init, CatsOK
<1>7. Outer
  BY <1>4, <1>6, StatisticsAssumption DEF Outer, Init, WritesOK
<1>8. Crashes
  BY DEF Init, Crashes
<1> QED
  BY <1>1, <1>5, <1>7, <1>8 DEF FullInv

LEMMA FullInvStep ==
  FullInv /\ [Next]_vars => FullInv'
<1> SUFFICES ASSUME FullInv, [Next]_vars PROVE FullInv'
  OBVIOUS
<1>1. IInv /\ Outer /\ Entries /\ Crashes
  BY DEF FullInv
<1>2. IInv'
  BY <1>1, IInvStep
<1>3. Outer'
  BY <1>1, OuterStep
<1>4. Entries'
  BY <1>1, EntriesStep DEF Entries
<1>5. Crashes'
  BY <1>1, CrashStep
<1> QED
  BY <1>2, <1>3, <1>4, <1>5 DEF FullInv

(* The view models, the table, the writes under way and the list of        *)
(* categories are always well formed (StatisticsUiState, lines 56-76).     *)
THEOREM TypeCorrect == Spec => []TypeOK
<1>1. FullInv => TypeOK
  <2> SUFFICES ASSUME FullInv PROVE TypeOK
    OBVIOUS
  <2>1. IInv /\ Outer /\ Entries /\ Crashes
    BY DEF FullInv
  <2>2. Len(stack) \in 1..MaxDepth
    <3>1. Len(stack) \in Nat /\ Len(stack) # 0
      BY <2>1, LenProperties DEF IInv, IsStack
    <3> QED
      BY <2>1, <3>1, StatisticsAssumption DEF Outer
  <2>3. ASSUME NEW k \in 1..Len(stack)
        PROVE  LET e == stack[k] IN
               /\ e.startMonth \in 1..Now
               /\ e.periods \subseteq 1..Now
               /\ e.fresh \in BOOLEAN
               /\ \A n \in DOMAIN e.stats : e.stats[n] \in Figures
               /\ \A j \in Coroutines : e.co[j].step \in 0..Loop /\ e.co[j].old \in Figures
    <3>1. PICK e : e = stack[k]
      OBVIOUS
    <3>2. Typed(e) /\ Shape(e)
      BY <2>1, <3>1 DEF Entries, EntryOK, IInv, IsStack, Good
    <3>3. \A j \in Coroutines : e.co[j].step \in 0..Loop
      BY <3>2, SevenQueries DEF Shape, Placed
    <3>4. /\ e.startMonth \in 1..Now /\ e.periods \subseteq 1..Now /\ e.fresh \in BOOLEAN
          /\ \A n \in DOMAIN e.stats : e.stats[n] \in Figures
          /\ \A j \in Coroutines : e.co[j].old \in Figures
      BY <3>2, Zenon DEF Typed
    <3> QED
      BY <3>1, <3>3, <3>4, Zenon
  <2>4. /\ table \subseteq Items /\ written \in 0..MaxWrites /\ categories \in Seq(STRING)
        /\ \A w \in writes : w.op \in {"insert", "delete"} /\ w.item \in Items
                             /\ w.at \in {0, Len(stack)}
        /\ crash \in {"none", "NullPointerException", "ConcurrentModificationException"}
    BY <2>1 DEF Outer, CatsOK, WritesOK, Crashes
  <2> QED
    BY <2>2, <2>3, <2>4, Zenon DEF TypeOK
<1> QED
  BY <1>1, FullInvInit, FullInvStep, PTL DEF Spec

(* What a settled, fresh view model shows is what the table has: the       *)
(* months of all rows, and sums that add up to those of the rows           *)
(* (updateStatistics, lines 341-364).                                      *)
THEOREM FreshViewsShowTheTable == Spec => []FreshShowsTable
<1>1. FullInv => FreshShowsTable
  <2> SUFFICES ASSUME FullInv, NEW k \in 1..Len(stack), Settled(stack[k]), stack[k].fresh
               PROVE  LET u == stack[k].sums IN
                 /\ {i.month : i \in table} \subseteq stack[k].periods
                 /\ u.total + u.totalIncome = Amount(table)
                 /\ u.totalNonRegular = Amount({i \in table : i.category # "Income" /\ ~i.regular})
                 /\ u.periodTotal + u.periodIncome = Amount(In(table, Now))
                 /\ u.periodNonRegular =
                      Amount({i \in In(table, Now) : i.category # "Income" /\ ~i.regular})
    BY DEF FreshShowsTable
  <2>1. PICK e : e = stack[k]
    OBVIOUS
  <2>2. PICK u : u = e.sums
    OBVIOUS
  <2>3. Shape(e) /\ Fits(e) /\ Current(e, table) /\ table \in SUBSET Items
    BY <2>1 DEF FullInv, IInv, IsStack, Good, Entries, EntryOK, Outer
  <2>4. \A j \in Coroutines : e.co[j].kind = "none" /\ e.co[j].step = 0
    BY <2>1, <2>3 DEF Shape, Placed, Settled, Idle
  <2>5. ~Updating(e) /\ None(e, 3, 4) /\ None(e, 6, 6) /\ \A q \in 1..7 : None(e, 1, q)
    BY <2>4 DEF Updating, None
  <2>6. TotalsFit(u) /\ PeriodFits(u)
    BY <2>2, <2>3, <2>5 DEF Fits
  <2>7. \A q \in 1..7 : Right(e, table, q)
    BY <2>1, <2>3, <2>5 DEF Current
  <2>8. /\ u.total = Amount(Expenses(table)) /\ u.totalRegular = Amount(Regular(Expenses(table)))
        /\ u.totalIncome = Amount(Incomes(table))
        /\ u.periodTotal = Amount(Since(Expenses(table), Now))
        /\ u.periodRegular = Amount(Regular(Since(Expenses(table), Now)))
        /\ u.periodIncome = Amount(Since(Incomes(table), Now))
    BY <2>2, <2>7 DEF Right
  <2>9. {i.month : i \in table} \subseteq e.periods
    BY <2>1, <2>3, <2>5 DEF Current
  <2>10. u.total + u.totalIncome = Amount(table)
    <3>1. PICK a : a = Expenses(table)
      OBVIOUS
    <3>2. PICK b : b = Incomes(table)
      OBVIOUS
    <3>3. a \in SUBSET table /\ b = table \ a
      BY <3>1, <3>2 DEF Expenses, Incomes
    <3>4. Amount(table) = Amount(a) + Amount(b)
      BY <2>3, <3>3, AmountSplits
    <3> QED
      BY <2>8, <3>1, <3>2, <3>4
  <2>11. u.totalNonRegular = Amount({i \in table : i.category # "Income" /\ ~i.regular})
    <3>1. PICK d : d = Expenses(table)
      OBVIOUS
    <3>2. PICK a : a = Regular(d)
      OBVIOUS
    <3>3. PICK b : b = {i \in table : i.category # "Income" /\ ~i.regular}
      OBVIOUS
    <3>4. d \in SUBSET Items /\ a \in SUBSET d /\ b = d \ a /\ b \in SUBSET Items
      BY <2>3, <3>1, <3>2, <3>3 DEF Expenses, Regular
    <3>5. Amount(d) = Amount(a) + Amount(b)
      BY <3>4, AmountSplits
    <3>6. Amount(a) \in Nat /\ Amount(b) \in Nat
      BY <3>4, AmountIsNat
    <3>7. u.totalNonRegular = Amount(d) - Amount(a)
      BY <2>6, <2>8, <3>1, <3>2 DEF TotalsFit
    <3>8. u.totalNonRegular = Amount(b)
      BY <3>5, <3>6, <3>7
    <3> QED
      BY <3>3, <3>8
  <2>12. \A i \in table : i.month \in Int /\ i.month <= Now /\ Now \in Int
    BY <2>3, StatisticsAssumption
  <2>13. u.periodTotal + u.periodIncome = Amount(In(table, Now))
    <3>1. PICK d : d = In(table, Now)
      OBVIOUS
    <3>2. PICK a : a = Since(Expenses(table), Now)
      OBVIOUS
    <3>3. PICK b : b = Since(Incomes(table), Now)
      OBVIOUS
    <3>4. d \in SUBSET Items /\ a \in SUBSET d /\ b = d \ a
      BY <2>3, <2>12, <3>1, <3>2, <3>3 DEF In, Since, Expenses, Incomes
    <3>5. Amount(d) = Amount(a) + Amount(b)
      BY <3>4, AmountSplits
    <3> QED
      BY <2>8, <3>1, <3>2, <3>3, <3>5
  <2>14. u.periodNonRegular = Amount({i \in In(table, Now) : i.category # "Income" /\ ~i.regular})
    <3>1. PICK d : d = Since(Expenses(table), Now)
      OBVIOUS
    <3>2. PICK a : a = Regular(d)
      OBVIOUS
    <3>3. PICK b : b = {i \in In(table, Now) : i.category # "Income" /\ ~i.regular}
      OBVIOUS
    <3>4. d \in SUBSET Items /\ a \in SUBSET d /\ b = d \ a /\ b \in SUBSET Items
      BY <2>3, <2>12, <3>1, <3>2, <3>3 DEF Since, In, Expenses, Regular
    <3>5. Amount(d) = Amount(a) + Amount(b)
      BY <3>4, AmountSplits
    <3>6. Amount(a) \in Nat /\ Amount(b) \in Nat
      BY <3>4, AmountIsNat
    <3>7. u.periodNonRegular = Amount(d) - Amount(a)
      BY <2>6, <2>8, <3>1, <3>2 DEF PeriodFits
    <3>8. u.periodNonRegular = Amount(b)
      BY <3>5, <3>6, <3>7
    <3> QED
      BY <3>3, <3>8
  <2> QED
    BY <2>1, <2>2, <2>9, <2>10, <2>11, <2>13, <2>14
<1> QED
  BY <1>1, FullInvInit, FullInvStep, PTL DEF Spec

(* The category figures a settled, fresh view model shows are those of one *)
(* period, with the averages of all the rows, however selections overlap   *)
(* (updateCategoryStats, lines 213-233 and 261-283).                       *)
THEOREM FiguresAreOfOnePeriod == Spec => []OnePeriodShown
<1>1. FullInv => OnePeriodShown
  <2> SUFFICES ASSUME FullInv, NEW k \in 1..Len(stack), Settled(stack[k]), stack[k].fresh
               PROVE  LET e == stack[k] IN
                      /\ \E p \in e.periods \cup {All} :
                           \A n \in DOMAIN e.stats : e.stats[n].total = TotalIn(table, n, p)
                      /\ \A n \in DOMAIN e.stats :
                           e.stats[n].average = [sum |-> TotalIn(table, n, All), months |-> Months(e)]
    BY DEF OnePeriodShown, TotalIn
  <2>1. PICK e : e = stack[k]
    OBVIOUS
  <2>2. Mapped(e, table, categories)
    BY <2>1 DEF FullInv, Entries, EntryOK
  <2>3. ~Updating(e)
    BY <2>1 DEF Settled, Idle, Updating
  <2> QED
    BY <2>1, <2>2, <2>3 DEF Mapped, AverageIn
<1> QED
  BY <1>1, FullInvInit, FullInvStep, PTL DEF Spec
=============================================================================
