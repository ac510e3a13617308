------------------------ MODULE RowsetChunksProofs ------------------------
(***************************************************************************)
(* Rowsets in chunks, for answers of any number of chunks of any size and  *)
(* any number of commands.                                                 *)
(***************************************************************************)
EXTENDS RowsetChunks, SequenceTheorems, WellFoundedInduction, TLAPS

(* Sums of sizes.  The recursive functions of Before and Total are what    *)
(* their recurrences say; the proofs are by induction on the length.       *)

(* Induction with a set in place of a predicate.                           *)
LEMMA Induction ==
  ASSUME NEW S, 0 \in S, \A n \in Nat : n \in S => n + 1 \in S
  PROVE  Nat \subseteq S
<1> DEFINE R == {ss \in Nat \X Nat : ss[1] < ss[2]}
           T == Nat \ S
<1>1. IsWellFoundedOn(R, Nat)
  <2>1. R = OpToRel(<, Nat)
    BY Zenon DEF OpToRel
  <2> QED
    BY <2>1, NatLessThanWellFounded, Zenon
<1> SUFFICES ASSUME T # {} PROVE FALSE
  OBVIOUS
<1>2. PICK x \in T : \A y \in T : ~(<<y, x>> \in R)
  BY <1>1, WFMin, Zenon
<1>3. x \in Nat /\ x # 0 /\ x - 1 \in Nat /\ x - 1 < x
  OBVIOUS
<1>4. <<x - 1, x>> \in R
  <2>1. \A a, b \in Nat : a < b => <<a, b>> \in R
    OBVIOUS
  <2> QED
    BY <1>3, <2>1
<1> HIDE DEF R
<1>5. x - 1 \notin T
  BY <1>2, <1>4
<1> QED
  BY <1>3, <1>5

(* f holds the sums of the first values of a.                              *)
Sums(f, a, m) == f[0] = 0 /\ \A k \in 1..m : f[k] = f[k - 1] + a[k]

LEMMA SumsExist ==
  ASSUME NEW m \in Nat, NEW a \in [1..m -> Nat]
  PROVE  \E f \in [0..m -> Nat] : Sums(f, a, m)
<1> DEFINE S == {n \in Nat : n <= m => \E f \in [0..n -> Nat] : Sums(f, a, n)}
<1>1. 0 \in S
  <2> DEFINE f == [k \in 0..0 |-> 0]
  <2>1. f \in [0..0 -> Nat] /\ Sums(f, a, 0)
    BY DEF Sums
  <2> HIDE DEF f
  <2> QED
    BY <2>1
<1>2. ASSUME NEW n \in Nat, n \in S PROVE n + 1 \in S
  <2> SUFFICES ASSUME n + 1 <= m PROVE \E f \in [0..(n + 1) -> Nat] : Sums(f, a, n + 1)
    OBVIOUS
  <2>1. PICK f \in [0..n -> Nat] : Sums(f, a, n)
    BY <1>2
  <2> DEFINE g == [k \in 0..(n + 1) |-> IF k = n + 1 THEN f[n] + a[n + 1] ELSE f[k]]
  <2>2. g \in [0..(n + 1) -> Nat]
    OBVIOUS
  <2>3. ASSUME NEW k \in 1..(n + 1) PROVE g[k] = g[k - 1] + a[k]
    <3>1. CASE k = n + 1
      BY <3>1
    <3>2. CASE k \in 1..n
      BY <2>1, <3>2 DEF Sums
    <3> QED
      BY <3>1, <3>2
  <2>4. g[0] = 0
    BY <2>1 DEF Sums
  <2> HIDE DEF g
  <2> QED
    BY <2>2, <2>3, <2>4 DEF Sums
<1>3. m \in S
  <2> HIDE DEF S
  <2> QED
    BY <1>1, <1>2, Induction
<1> QED
  BY <1>3

LEMMA SumsUnique ==
  ASSUME NEW m \in Nat, NEW a, NEW f, NEW g, Sums(f, a, m), Sums(g, a, m)
  PROVE  \A k \in 0..m : f[k] = g[k]
<1> DEFINE S == {n \in Nat : n <= m => f[n] = g[n]}
<1>1. 0 \in S
  BY DEF Sums
<1>2. ASSUME NEW n \in Nat, n \in S PROVE n + 1 \in S
  <2> SUFFICES ASSUME n + 1 <= m PROVE f[n + 1] = g[n + 1]
    OBVIOUS
  <2>1. n + 1 \in 1..m /\ (n + 1) - 1 = n /\ f[n] = g[n]
    BY <1>2
  <2>2. f[n + 1] = f[(n + 1) - 1] + a[n + 1] /\ g[n + 1] = g[(n + 1) - 1] + a[n + 1]
    BY <2>1 DEF Sums
  <2> QED
    BY <2>1, <2>2
<1>3. Nat \subseteq S
  <2> HIDE DEF S
  <2> QED
    BY <1>1, <1>2, Induction
<1> QED
  BY <1>3

(* Where each chunk of an answer begins.                                   *)
LEMMA BeforeIs ==
  ASSUME NEW m \in Nat, NEW sizes \in [1..m -> Nat], NEW f \in [0..m -> Nat], Sums(f, sizes, m)
  PROVE  \A i \in 1..m : Before(sizes)[i] = f[i - 1]
<1> DEFINE Eq(b) == b = [i \in 1..m |-> IF i = 1 THEN 0 ELSE b[i - 1] + sizes[i - 1]]
           b == Before(sizes)
<1>1. Eq([i \in 1..m |-> f[i - 1]])
  BY DEF Sums
<1>2. b = CHOOSE x : Eq(x)
  <2>1. Len(sizes) = m
    OBVIOUS
  <2> QED
    BY <2>1, Zenon DEF Before
<1>3. Eq(b)
  BY <1>1, <1>2, Zenon
<1> HIDE DEF b
<1> DEFINE S == {n \in Nat : n + 1 <= m => b[n + 1] = f[n]}
<1>4. 0 \in S
  BY <1>3 DEF Sums
<1>5. ASSUME NEW n \in Nat, n \in S PROVE n + 1 \in S
  <2> SUFFICES ASSUME n + 2 <= m PROVE b[n + 2] = f[n + 1]
    OBVIOUS
  <2>1. n + 2 \in 1..m /\ n + 1 \in 1..m /\ (n + 2) - 1 = n + 1 /\ (n + 1) - 1 = n /\ n + 2 # 1
    OBVIOUS
  <2>2. b[n + 2] = b[n + 1] + sizes[n + 1]
    BY <1>3, <2>1
  <2>3. f[n + 1] = f[n] + sizes[n + 1]
    BY <2>1 DEF Sums
  <2> QED
    BY <1>5, <2>1, <2>2, <2>3
<1>6. Nat \subseteq S
  <2> HIDE DEF S
  <2> QED
    BY <1>4, <1>5, Induction
<1>7. ASSUME NEW i \in 1..m PROVE b[i] = f[i - 1]
  <2>1. i - 1 \in Nat /\ (i - 1) + 1 = i /\ i <= m
    OBVIOUS
  <2> QED
    BY <1>6, <2>1
<1> QED
  BY <1>7 DEF b

(* The rows of an answer: the sum of its packets.                          *)
LEMMA TotalIs ==
  ASSUME NEW m \in Nat, NEW packets, Len(packets) = m, NEW f \in [0..m -> Nat],
         Sums(f, [k \in 1..m |-> packets[k].n], m)
  PROVE  Total(packets) = f[m]
<1> DEFINE Eq(u) == u = [k \in 0..m |-> IF k = 0 THEN 0 ELSE u[k - 1] + packets[k].n]
           u == CHOOSE x : Eq(x)
<1>1. Eq(f)
  <2>1. ASSUME NEW k \in 0..m PROVE f[k] = IF k = 0 THEN 0 ELSE f[k - 1] + packets[k].n
    BY DEF Sums
  <2> QED
    BY <2>1
<1>2. Total(packets) = u[m]
  BY Zenon DEF Total
<1>3. Eq(u)
  BY <1>1, Zenon
<1> HIDE DEF u
<1>4. Sums(u, [k \in 1..m |-> packets[k].n], m)
  BY <1>3 DEF Sums
<1>5. u[m] = f[m]
  BY <1>4, SumsUnique
<1> QED
  BY <1>2, <1>5

-----------------------------------------------------------------------------
(* The packets of one answer.                                              *)

(* The first n rows of the answer a.                                       *)
RowsTo(a, n) == [k \in 1..n |-> <<a, k>>]

(* q begins an answer ...                                                  *)
Starts(q) == q.type \in {"error", "other"} \/ (q.type = "chunk" /\ q.idx = 1 /\ q.from = 0)

(* ... or goes on after n rows with one of t rows in all.                  *)
Resumes(t, q, n) ==
  \/ q.type = "error"
  \/ q.type = "end" /\ t = n
  \/ q.type = "chunk" /\ q.idx # 1 /\ q.from = n

(* w is what is left of the answer a of t rows.                            *)
FlowOf(a, t, w) ==
  /\ w \in Seq(Packets)
  /\ \A k \in 1..Len(w) :
       /\ w[k].of = a
       /\ w[k].type # "chunk" => w[k].idx = 0 /\ k = Len(w)
       /\ w[k].type = "chunk" => k < Len(w) /\ Resumes(t, w[k + 1], w[k].from + w[k].n)

LEMMA FlowTail ==
  ASSUME NEW a, NEW t, NEW w, FlowOf(a, t, w), w # <<>>
  PROVE  /\ FlowOf(a, t, Tail(w)) /\ Head(w) \in Packets /\ Head(w).of = a
         /\ Head(w).type # "chunk" => Head(w).idx = 0 /\ Tail(w) = <<>>
         /\ Head(w).type = "chunk" =>
              Tail(w) # <<>> /\ Resumes(t, Head(Tail(w)), Head(w).from + Head(w).n)
<1> DEFINE v == Tail(w)
<1>1. w \in Seq(Packets)
  BY DEF FlowOf
<1>2. /\ v \in Seq(Packets) /\ Len(w) \in Nat \ {0} /\ Len(v) = Len(w) - 1
      /\ Head(w) = w[1] /\ \A k \in 1..Len(v) : v[k] = w[k + 1]
      /\ v # <<>> => Len(v) > 0 /\ Head(v) = v[1]
  BY <1>1
<1> HIDE DEF v
<1>3. 1 \in 1..Len(w) /\ Head(w) \in Packets
  BY <1>1, <1>2
<1>4. FlowOf(a, t, v)
  <2>1. ASSUME NEW k \in 1..Len(v)
        PROVE  /\ v[k].of = a
               /\ v[k].type # "chunk" => v[k].idx = 0 /\ k = Len(v)
               /\ v[k].type = "chunk" => k < Len(v) /\ Resumes(t, v[k + 1], v[k].from + v[k].n)
    <3>1. k + 1 \in 1..Len(w) /\ v[k] = w[k + 1] /\ (k < Len(v) => v[k + 1] = w[(k + 1) + 1])
      BY <1>2
    <3>2. (k + 1 < Len(w) => k < Len(v)) /\ (k + 1 = Len(w) => k = Len(v))
      BY <1>2
    <3> QED
      BY <3>1, <3>2 DEF FlowOf
  <2> QED
    BY <1>2, <2>1 DEF FlowOf
<1>5. ASSUME Head(w).type = "chunk" PROVE v # <<>> /\ Resumes(t, Head(v), Head(w).from + Head(w).n)
  <2>1. 1 < Len(w) /\ Resumes(t, w[1 + 1], w[1].from + w[1].n)
    BY <1>2, <1>3, <1>5 DEF FlowOf
  <2>2. Len(v) > 0
    BY <1>2, <2>1
  <2>3. v # <<>>
    BY <1>2, <2>2
  <2>4. Head(v) = w[1 + 1]
    BY <1>2, <2>1, <2>2, <2>3
  <2> QED
    BY <1>2, <2>1, <2>3, <2>4
<1>6. Head(w).of = a /\ (Head(w).type # "chunk" => Head(w).idx = 0 /\ Len(w) = 1)
  BY <1>2, <1>3 DEF FlowOf
<1>7. Len(w) = 1 => v = <<>>
  BY <1>2
<1> QED
  BY <1>3, <1>4, <1>5, <1>6, <1>7 DEF v

LEMMA FlowOfOne ==
  ASSUME NEW a, NEW t, NEW p \in Packets, p.of = a, p.type # "chunk", p.idx = 0
  PROVE  FlowOf(a, t, <<p>>) /\ <<p>> # <<>> /\ Head(<<p>>) = p
<1> DEFINE w == <<p>>
<1>1. w \in Seq(Packets) /\ Len(w) = 1 /\ w[1] = p /\ w # <<>> /\ Head(w) = p
  OBVIOUS
<1> HIDE DEF w
<1>2. FlowOf(a, t, w)
  BY <1>1 DEF FlowOf
<1> QED
  BY <1>1, <1>2 DEF w

LEMMA ChunkFields ==
  ASSUME NEW a, NEW i, NEW from, NEW n, NEW p, p = Chunk(a, i, from, n)
  PROVE  p.type = "chunk" /\ p.of = a /\ p.idx = i /\ p.from = from /\ p.n = n
BY DEF Chunk

(* A rowset in chunks: each begins where the one before ends, and the end  *)
(* chunk comes after as many rows as the server has.                       *)
LEMMA FlowOfChunks ==
  ASSUME NEW a \in Nat,
         NEW m \in Nat \ {0}, NEW sizes \in [1..m -> ChunkRows],
         NEW last \in {End(a), Error(a)}, NEW packets, packets = Chunks(a, sizes) \o <<last>>
  PROVE  /\ Total(packets) \in Nat /\ FlowOf(a, Total(packets), packets)
         /\ packets # <<>> /\ Starts(Head(packets))
<1>1. sizes \in [1..m -> Nat] /\ Len(sizes) = m
  <2>1. ChunkRows \subseteq Nat
    BY ChunksAssumption
  <2>2. sizes \in [1..m -> Nat]
    BY <2>1
  <2> QED
    BY <2>2
<1>2. PICK f \in [0..m -> Nat] : Sums(f, sizes, m)
  BY <1>1, SumsExist
<1>3. \A i \in 1..m : Before(sizes)[i] = f[i - 1]
  BY <1>1, <1>2, BeforeIs
<1>4. a \in Nat /\ 0 \in Nat
  OBVIOUS
<1>5. /\ last \in Packets /\ last.of = a /\ last.type \in {"end", "error"} /\ last.n = 0 /\ last.idx = 0
  BY <1>4 DEF End, Error, Packets
<1> DEFINE c == [i \in 1..m |-> Chunk(a, i, f[i - 1], sizes[i])]
<1>6. packets = c \o <<last>>
  BY <1>1, <1>3 DEF Chunks
<1>7. c \in Seq(Packets) /\ Len(c) = m
  <2>1. ASSUME NEW i \in 1..m PROVE Chunk(a, i, f[i - 1], sizes[i]) \in Packets
    <3>1. i \in Nat /\ f[i - 1] \in Nat /\ sizes[i] \in Nat
      BY <1>1
    <3> QED
      BY <1>4, <3>1 DEF Chunk, Packets
  <2>2. c \in [1..m -> Packets]
    BY <2>1
  <2> HIDE DEF c
  <2> QED
    BY <2>2
<1>8. \A i \in 1..m : c[i] = Chunk(a, i, f[i - 1], sizes[i])
  OBVIOUS
<1> HIDE DEF c
<1>9. /\ packets \in Seq(Packets) /\ Len(packets) = m + 1 /\ packets[m + 1] = last
      /\ \A i \in 1..m : packets[i] = c[i]
  <2>1. <<last>> \in Seq(Packets) /\ Len(<<last>>) = 1 /\ <<last>>[1] = last
    BY <1>5
  <2> DEFINE l == <<last>>
             u == c \o l
  <2> HIDE DEF l
  <2>2. /\ u \in Seq(Packets) /\ Len(u) = Len(c) + Len(l)
        /\ \A k \in 1..Len(c) : u[k] = c[k]
        /\ \A k \in Len(c) + 1 .. Len(c) + Len(l) : u[k] = l[k - Len(c)]
    BY <1>7, <2>1 DEF l
  <2>3. packets = u
    BY <1>6 DEF l
  <2> HIDE DEF u
  <2>4. Len(u) = m + 1 /\ u[m + 1] = last
    BY <1>7, <2>1, <2>2 DEF l
  <2> QED
    BY <1>7, <2>2, <2>3, <2>4
<1>10. ASSUME NEW i \in 1..m
       PROVE  /\ packets[i].type = "chunk" /\ packets[i].of = a /\ packets[i].idx = i
              /\ packets[i].from = f[i - 1] /\ packets[i].n = sizes[i]
  <2>1. packets[i] = Chunk(a, i, f[i - 1], sizes[i])
    BY <1>8, <1>9
  <2> DEFINE q == packets[i]
             from == f[i - 1]
             n == sizes[i]
  <2> HIDE DEF q, from, n
  <2>2. q = Chunk(a, i, from, n)
    BY <2>1 DEF q, from, n
  <2>3. q.type = "chunk" /\ q.of = a /\ q.idx = i /\ q.from = from /\ q.n = n
    BY <2>2, ChunkFields
  <2> QED
    BY <2>3 DEF q, from, n
<1>11. packets # <<>> /\ Head(packets) = packets[1] /\ 1 \in 1..m
  BY <1>9
<1>12. Starts(Head(packets))
  <2>1. packets[1].type = "chunk" /\ packets[1].idx = 1 /\ packets[1].from = f[1 - 1]
    BY <1>10, <1>11
  <2>2. f[1 - 1] = 0
    BY <1>2 DEF Sums
  <2> QED
    BY <1>11, <2>1, <2>2 DEF Starts
<1>13. Total(packets) = f[m]
  <2> DEFINE g == [k \in 0..(m + 1) |-> IF k = m + 1 THEN f[m] ELSE f[k]]
             n == [k \in 1..(m + 1) |-> packets[k].n]
  <2>1. g \in [0..(m + 1) -> Nat] /\ g[m + 1] = f[m] /\ \A k \in 0..m : g[k] = f[k]
    OBVIOUS
  <2>2. n[m + 1] = 0 /\ \A k \in 1..m : n[k] = sizes[k]
    <3>1. \A k \in 1..(m + 1) : n[k] = packets[k].n
      OBVIOUS
    <3>2. m + 1 \in 1..(m + 1) /\ 1..m \subseteq 1..(m + 1)
      OBVIOUS
    <3> HIDE DEF n
    <3>3. n[m + 1] = 0
      BY <1>5, <1>9, <3>1, <3>2
    <3>4. ASSUME NEW k \in 1..m PROVE n[k] = sizes[k]
      BY <1>10, <3>1, <3>2
    <3> QED
      BY <3>3, <3>4
  <2> HIDE DEF g, n
  <2>3. ASSUME NEW k \in 1..(m + 1) PROVE g[k] = g[k - 1] + n[k]
    <3>1. CASE k = m + 1
      <4>1. g[k] = f[m] /\ g[k - 1] = f[m] /\ n[k] = 0 /\ f[m] \in Nat
        BY <2>1, <2>2, <3>1
      <4> QED
        BY <4>1
    <3>2. CASE k \in 1..m
      <4>1. g[k] = f[k] /\ g[k - 1] = f[k - 1] /\ n[k] = sizes[k]
        BY <2>1, <2>2, <3>2
      <4> QED
        BY <1>2, <3>2, <4>1 DEF Sums
    <3> QED
      BY <3>1, <3>2
  <2>4. Sums(g, n, m + 1)
    BY <1>2, <2>1, <2>3 DEF Sums
  <2>5. m + 1 \in Nat
    OBVIOUS
  <2>6. Total(packets) = g[m + 1]
    BY <1>9, <2>1, <2>4, <2>5, TotalIs DEF n
  <2> QED
    BY <2>1, <2>6
<1>14. f[m] \in Nat
  OBVIOUS
<1> DEFINE t == f[m]
<1> HIDE DEF t
<1>16. ASSUME NEW k \in 1..Len(packets)
       PROVE  /\ packets[k].of = a
              /\ packets[k].type # "chunk" => packets[k].idx = 0 /\ k = Len(packets)
              /\ packets[k].type = "chunk" =>
                   /\ k < Len(packets)
                   /\ Resumes(t, packets[k + 1], packets[k].from + packets[k].n)
  <2>1. CASE k = m + 1
    BY <1>5, <1>9, <2>1
  <2>2. CASE k \in 1..m
    <3>1. packets[k].type = "chunk" /\ packets[k].of = a /\ packets[k].from + packets[k].n = f[k]
      BY <1>2, <1>10, <2>2 DEF Sums
    <3>2. k < Len(packets) /\ (k = m \/ k + 1 \in 1..m)
      BY <1>9, <2>2
    <3>3. Resumes(t, packets[k + 1], f[k])
      <4>1. CASE k = m
        BY <1>5, <1>9, <4>1 DEF Resumes, t
      <4>2. CASE k + 1 \in 1..m
        <5>1. k + 1 # 1 /\ (k + 1) - 1 = k
          BY <2>2
        <5>2. /\ packets[k + 1].type = "chunk" /\ packets[k + 1].idx = k + 1
              /\ packets[k + 1].from = f[(k + 1) - 1]
          BY <1>10, <4>2
        <5> QED
          BY <5>1, <5>2 DEF Resumes
      <4> QED
        BY <3>2, <4>1, <4>2, Zenon
    <3> QED
      BY <3>1, <3>2, <3>3
  <2> QED
    BY <1>9, <2>1, <2>2
<1>17. FlowOf(a, t, packets)
  BY <1>9, <1>16 DEF FlowOf
<1> QED
  BY <1>11, <1>12, <1>13, <1>14, <1>17 DEF t

(* Any answer of the server.                                               *)
LEMMA FlowOfAnswer ==
  ASSUME NEW a \in Nat, NEW packets \in Answers(a)
  PROVE  /\ Total(packets) \in Nat /\ FlowOf(a, Total(packets), packets)
         /\ packets # <<>> /\ Starts(Head(packets))
<1> DEFINE Good == /\ Total(packets) \in Nat /\ FlowOf(a, Total(packets), packets)
                   /\ packets # <<>> /\ Starts(Head(packets))
<1> HIDE DEF Good
<1>1. ASSUME NEW p \in {Error(a), Other(a)}, packets = <<p>>
      PROVE  Good
  <2>1. a \in Nat /\ 0 \in Nat
    OBVIOUS
  <2>2. p \in Packets /\ p.of = a /\ p.type \in {"error", "other"} /\ p.n = 0 /\ p.idx = 0
    BY <2>1 DEF Error, Other, Packets
  <2>3. Total(packets) = 0
    <3> DEFINE f == [k \in 0..1 |-> 0]
    <3>1. Len(packets) = 1 /\ packets[1] = p
      BY <1>1
    <3>2. f \in [0..1 -> Nat] /\ Sums(f, [k \in 1..1 |-> packets[k].n], 1) /\ f[1] = 0
      BY <2>2, <3>1 DEF Sums
    <3> HIDE DEF f
    <3> QED
      BY <3>1, <3>2, TotalIs
  <2>5. FlowOf(a, 0, <<p>>) /\ <<p>> # <<>> /\ Head(<<p>>) = p
    BY <2>2, FlowOfOne
  <2> QED
    BY <1>1, <2>1, <2>2, <2>3, <2>5 DEF Starts, Good
<1>2. ASSUME NEW k \in 1..MaxChunks, NEW sizes \in [1..k -> ChunkRows],
             NEW last \in {End(a), Error(a)}, packets = Chunks(a, sizes) \o <<last>>
      PROVE  Good
  <2>1. k \in Nat \ {0}
    BY ChunksAssumption
  <2> QED
    BY <1>2, <2>1, FlowOfChunks DEF Good
<1>3. Good
  <2>1. CASE packets \in {<<Error(a)>>, <<Other(a)>>}
    BY <1>1, <2>1
  <2>2. CASE packets \notin {<<Error(a)>>, <<Other(a)>>}
    <3>1. PICK sizes \in UNION {[1..k -> ChunkRows] : k \in 1..MaxChunks} :
            \E tail \in {<<End(a)>>, <<Error(a)>>} : packets = Chunks(a, sizes) \o tail
      <4> DEFINE All == UNION {[1..k -> ChunkRows] : k \in 1..MaxChunks}
                 After(z) == {Chunks(a, z) \o tail : tail \in {<<End(a)>>, <<Error(a)>>}}
      <4>1. packets \in UNION {After(z) : z \in All}
        BY <2>2, Zenon DEF Answers
      <4> HIDE DEF All
      <4>2. \E z \in All : packets \in After(z)
        BY <4>1, Zenon
      <4> QED
        BY <4>2, Zenon DEF All
    <3>2. PICK k \in 1..MaxChunks : sizes \in [1..k -> ChunkRows]
      BY <3>1, Zenon
    <3>3. \E last \in {End(a), Error(a)} : packets = Chunks(a, sizes) \o <<last>>
      BY <3>1, Zenon
    <3> QED
      BY <1>2, <3>2, <3>3, Zenon
  <2> QED
    BY <2>1, <2>2
<1> QED
  BY <1>3 DEF Good

-----------------------------------------------------------------------------
(* The rows of the rowset under construction.                              *)
LEMMA RowsToType ==
  ASSUME NEW a \in Nat, NEW n \in Nat
  PROVE  RowsTo(a, n) \in Values /\ Len(RowsTo(a, n)) = n
<1>1. RowsTo(a, n) \in [1..n -> Nat \X Nat]
  BY DEF RowsTo
<1> QED
  BY <1>1 DEF Values

LEMMA FirstRows ==
  ASSUME NEW p \in Packets, p.from = 0
  PROVE  Rows(p) = RowsTo(p.of, p.n)
<1>1. p.n \in Nat
  BY DEF Packets
<1>2. \A k \in 1..p.n : p.from + k = k
  BY <1>1
<1> QED
  BY <1>2 DEF Rows, RowsTo

LEMMA RowsType ==
  ASSUME NEW p \in Packets
  PROVE  Rows(p) \in Values /\ Len(Rows(p)) = p.n
<1>1. p.n \in Nat /\ p.of \in Nat /\ p.from \in Nat
  BY DEF Packets
<1>2. Rows(p) \in [1..p.n -> Nat \X Nat]
  BY <1>1 DEF Rows
<1> QED
  BY <1>1, <1>2 DEF Values
(* A chunk that goes on where the rows end.                                *)
LEMMA RowsJoin ==
  ASSUME NEW p \in Packets
  PROVE  RowsTo(p.of, p.from) \o Rows(p) = RowsTo(p.of, p.from + p.n)
<1> DEFINE a == p.of
           f == p.from
           n == p.n
           u == RowsTo(a, f)
           v == Rows(p)
           w == RowsTo(a, f + n)
<1>1. a \in Nat /\ f \in Nat /\ n \in Nat /\ f + n \in Nat
  BY DEF Packets
<1>2. /\ u \in Values /\ v \in Values /\ w \in Values
      /\ Len(u) = f /\ Len(w) = f + n
  BY <1>1, RowsToType, RowsType
<1>3. Len(v) = n
  BY RowsType
<1>4. /\ \A k \in 1..f : u[k] = <<a, k>>
      /\ \A k \in 1..n : v[k] = <<a, f + k>>
      /\ \A k \in 1..(f + n) : w[k] = <<a, k>>
  BY <1>1 DEF Rows, RowsTo
<1> HIDE DEF a, f, n, u, v, w
<1>5. /\ u \o v \in Values /\ Len(u \o v) = f + n
      /\ \A k \in 1..f : (u \o v)[k] = u[k]
      /\ \A k \in f + 1 .. f + n : (u \o v)[k] = v[k - f]
  <2>1. /\ u \o v \in Values /\ Len(u \o v) = f + n
        /\ \A k \in 1..(f + n) : (u \o v)[k] = IF k <= f THEN u[k] ELSE v[k - f]
    BY <1>2, <1>3, ConcatProperties, Zenon DEF Values
  <2>2. 1..f \subseteq 1..(f + n) /\ f + 1 .. f + n \subseteq 1..(f + n)
    BY <1>1
  <2>3. (\A k \in 1..f : k <= f) /\ (\A k \in f + 1 .. f + n : ~(k <= f))
    BY <1>1
  <2> HIDE DEF Values
  <2> QED
    BY <2>1, <2>2, <2>3, Zenon
<1>6. ASSUME NEW k \in 1..(f + n) PROVE (u \o v)[k] = w[k]
  <2>1. CASE k \in 1..f
    BY <1>4, <1>5, <2>1
  <2>2. CASE k \in f + 1 .. f + n
    <3>1. k - f \in 1..n /\ f + (k - f) = k
      BY <1>1, <2>2
    <3>2. (u \o v)[k] = v[k - f] /\ v[k - f] = <<a, f + (k - f)>>
      BY <1>4, <1>5, <2>2, <3>1
    <3> QED
      BY <1>4, <3>1, <3>2
  <2>3. k \in 1..f \/ k \in f + 1 .. f + n
    BY <1>1
  <2> QED
    BY <2>1, <2>2, <2>3, Zenon
<1>7. u \o v = w
  <2>1. Len(u \o v) = Len(w)
    BY <1>2, <1>5
  <2>2. \A k \in 1..Len(u \o v) : (u \o v)[k] = w[k]
    BY <1>5, <1>6
  <2> DEFINE x == u \o v
  <2>3. x \in Seq(Nat \X Nat) /\ w \in Seq(Nat \X Nat)
    BY <1>2, <1>5 DEF Values
  <2> HIDE DEF x
  <2>4. x = w
    BY <2>1, <2>2, <2>3, SeqEqual DEF x
  <2> QED
    BY <2>4 DEF x
<1> QED
  BY <1>7 DEF a, f, n, u, v, w

Partial == [bufs : SUBSET Nat, bcount : Nat, bnum : Nat, nrows : Nat, brows : Nat, rows : Values]

(* The unfinished rowset: its arrays have room for what they hold, and one *)
(* buffer more.                                                            *)
Arrays(c) ==
  /\ c \in Partial
  /\ c.bnum >= 2 /\ c.bcount < c.bnum
  /\ c.brows >= MinRows /\ c.nrows <= c.brows
  /\ Len(c.rows) = c.nrows

(* What "check if a resize is needed" makes of the array of buffers.       *)
LEMMA BufferRoom ==
  ASSUME NEW bcount \in Nat, NEW bnum \in Nat, bnum >= 2, bcount < bnum
  PROVE  /\ RoomForBuffers(bnum, bcount) \in Nat
         /\ RoomForBuffers(bnum, bcount) >= 2 /\ bcount + 1 < RoomForBuffers(bnum, bcount)
BY DEF RoomForBuffers

(* The array of values grows; it is too small for a chunk only if that has *)
(* more rows than the array had at the beginning.                          *)
LEMMA ValueRoom ==
  ASSUME NEW nrows \in Nat, NEW brows \in Nat, NEW n \in Nat, brows >= MinRows, nrows <= brows
  PROVE  /\ RoomForRows(brows, nrows, n) \in Nat /\ RoomForRows(brows, nrows, n) >= MinRows
         /\ n <= MinRows => nrows + n <= RoomForRows(brows, nrows, n)
<1>1. MinRows \in Nat
  BY ChunksAssumption
<1> QED
  BY <1>1 DEF RoomForRows

LEMMA FirstArrays ==
  ASSUME NEW p \in Packets, NEW b \in Nat
  PROVE  LET f == First(p, b) IN
         Arrays(f) /\ f.bufs = {b} /\ f.rows = Rows(p) /\ f.nrows = p.n
<1> DEFINE bnum  == RoomForBuffers(NBuffers, 1)
           brows == RoomForRows(p.n + MinRows, p.n, p.n)
           r == Rows(p)
           f == First(p, b)
<1>1. MinRows \in Nat /\ NBuffers \in Nat /\ NBuffers >= 2 /\ p.n \in Nat
  BY ChunksAssumption DEF Packets
<1>2. bnum \in Nat /\ bnum >= 2 /\ 1 < bnum
  <2>1. 1 \in Nat /\ 1 < NBuffers
    BY <1>1
  <2> QED
    BY <1>1, <2>1, BufferRoom
<1>3. brows \in Nat /\ brows >= MinRows /\ p.n <= brows
  BY <1>1 DEF RoomForRows
<1>4. r \in Values /\ Len(r) = p.n
  BY RowsType
<1>5. f = [bufs |-> {b}, bcount |-> 1, bnum |-> bnum, nrows |-> p.n, brows |-> brows, rows |-> r]
  BY DEF First
<1> HIDE DEF bnum, brows, r, f
<1>6. Arrays(f) /\ f.bufs = {b} /\ f.rows = r /\ f.nrows = p.n
  BY <1>1, <1>2, <1>3, <1>4, <1>5 DEF Arrays, Partial
<1> QED
  BY <1>6 DEF f, r

LEMMA ExtendedArrays ==
  ASSUME NEW c, Arrays(c), NEW p \in Packets, Fits(c, p), NEW b \in Nat
  PROVE  LET f == Extended(c, p, b) IN
         /\ Arrays(f) /\ f.bufs = c.bufs \cup {b}
         /\ f.rows = c.rows \o Rows(p) /\ f.nrows = c.nrows + p.n
<1> DEFINE bnum  == RoomForBuffers(c.bnum, c.bcount)
           brows == RoomForRows(c.brows, c.nrows, p.n)
           bufs  == c.bufs \cup {b}
           r == c.rows \o Rows(p)
           f == Extended(c, p, b)
<1>1. /\ c.bcount \in Nat /\ c.bnum \in Nat /\ c.nrows \in Nat /\ c.brows \in Nat
      /\ c.rows \in Values /\ Len(c.rows) = c.nrows /\ p.n \in Nat
      /\ c.bnum >= 2 /\ c.bcount < c.bnum /\ c.brows >= MinRows /\ c.nrows <= c.brows
      /\ c.bufs \in SUBSET Nat
  BY DEF Arrays, Partial, Packets
<1>2. bnum \in Nat /\ bnum >= 2 /\ c.bcount + 1 < bnum
  BY <1>1, BufferRoom
<1>3. brows \in Nat /\ brows >= MinRows /\ c.nrows + p.n <= brows
  BY <1>1, ValueRoom DEF Fits
<1>4. r \in Values /\ Len(r) = c.nrows + p.n
  <2>1. Rows(p) \in Values /\ Len(Rows(p)) = p.n
    BY RowsType
  <2> DEFINE x == c.rows
             y == Rows(p)
  <2>2. x \in Values /\ y \in Values
    BY <1>1, <2>1
  <2> HIDE DEF x, y
  <2>3. x \o y \in Values /\ Len(x \o y) = Len(x) + Len(y)
    BY <2>2, ConcatProperties, Zenon DEF Values
  <2> QED
    BY <1>1, <2>1, <2>3 DEF x, y
<1>5. bufs \in SUBSET Nat /\ c.bcount + 1 \in Nat /\ c.nrows + p.n \in Nat
  BY <1>1
<1>6. f = [bufs |-> bufs, bcount |-> c.bcount + 1, bnum |-> bnum,
           nrows |-> c.nrows + p.n, brows |-> brows, rows |-> r]
  BY DEF Extended
<1> HIDE DEF bnum, brows, bufs, r, f
<1>7. Arrays(f) /\ f.bufs = bufs /\ f.rows = r /\ f.nrows = c.nrows + p.n
  BY <1>1, <1>2, <1>3, <1>4, <1>5, <1>6 DEF Arrays, Partial
<1> QED
  BY <1>7 DEF f, r, bufs

-----------------------------------------------------------------------------
Flags ==
  /\ reading \in BOOLEAN /\ err \in BOOLEAN /\ twice \in BOOLEAN /\ unfenced \in BOOLEAN
  /\ commands \in Nat

Wires == sent \in Seq(Nat) /\ Len(sent) = commands /\ wire \in Seq(Packets)

AnswerOK == answer \in [kind : {"none", "null", "other", "rowset"}, rows : Values, bufs : SUBSET Nat]

Buffers ==
  /\ buffers \in Nat /\ frames \in Seq(1..buffers)
  /\ freed \subseteq 1..buffers /\ answer.bufs \subseteq 1..buffers

ChunkOK ==
  chunk # <<>> => chunk = <<chunk[1]>> /\ Arrays(chunk[1]) /\ chunk[1].bufs \subseteq 1..buffers

Idle == ~reading => frames = <<>>

(* What is written beyond the end is more than the smallest array holds.   *)
OverrunOK == overrun \in Nat /\ (overrun # 0 => overrun > MinRows /\ reading /\ chunk # <<>>)

(* As long as no unguarded command has gone on in spite of an error: the   *)
(* buffers of the rowset under construction are those of the nested calls, *)
(* none of them is freed, and a rowset cut off is barred.                  *)
Fence ==
  ~unfenced =>
    /\ ~twice /\ answer.bufs \cap freed = {} /\ Held(frames) \cap freed = {}
    /\ reading /\ chunk = <<>> => frames = <<>>
    /\ reading /\ chunk # <<>> => chunk[1].bufs = Held(frames)
    /\ ~reading /\ chunk # <<>> => err

(* The next packet begins the answer to the last command, or goes on with  *)
(* the one whose first rows are in _chunk.                                 *)
HeadOK ==
  /\ wire # <<>>
  /\ chunk = <<>> => Starts(Head(wire))
  /\ chunk # <<>> => /\ Resumes(sent[commands], Head(wire), chunk[1].nrows)
                     /\ chunk[1].rows = RowsTo(commands, chunk[1].nrows)

(* ... as long as no unguarded command has gone on in spite of an error:   *)
(* the socket holds nothing but the rest of the answer that is awaited, or *)
(* an error bars it.                                                       *)
Flow ==
  ~unfenced /\ overrun = 0 =>
    /\ reading => FlowOf(commands, sent[commands], wire) /\ HeadOK
    /\ ~reading => wire = <<>> \/ err

IInv ==
  /\ Flags /\ Wires /\ AnswerOK /\ Buffers /\ ChunkOK /\ Idle /\ OverrunOK
  /\ Fence /\ Flow /\ RowsetIsOneAnswer

LEMMA NothingIsSeq ==
  ASSUME NEW S
  PROVE  <<>> \in Seq(S)
  OBVIOUS

LEMMA HeldNone == Held(<<>>) = {}
  BY DEF Held

LEMMA HeldAppend ==
  ASSUME NEW S, NEW fs \in Seq(S), NEW b
  PROVE  Held(Append(fs, b)) = Held(fs) \cup {b} /\ Held(fs) \subseteq S
<1>1. Held(fs) \subseteq S
  BY DEF Held
<1> DEFINE gs == Append(fs, b)
<1>2. /\ Len(fs) \in Nat /\ Len(gs) = Len(fs) + 1 /\ gs[Len(fs) + 1] = b
      /\ \A k \in 1..Len(fs) : gs[k] = fs[k]
  OBVIOUS
<1> HIDE DEF gs
<1>3. Held(gs) = Held(fs) \cup {b}
  <2>1. \A k \in 1..Len(gs) : gs[k] \in Held(fs) \cup {b}
    BY <1>2 DEF Held
  <2>2. \A k \in 1..Len(fs) : fs[k] \in Held(gs)
    BY <1>2 DEF Held
  <2>3. b \in Held(gs)
    BY <1>2 DEF Held
  <2> QED
    BY <2>1, <2>2, <2>3 DEF Held
<1> QED
  BY <1>1, <1>3 DEF gs

(* A new buffer: it is not freed, and all the others keep their numbers.   *)
LEMMA NewBuffer ==
  ASSUME Buffers, buffers' = buffers + 1
  PROVE  /\ buffers' \in Nat /\ buffers' \in 1..buffers'
         /\ buffers' \notin freed /\ buffers' \notin answer.bufs
         /\ 1..buffers \subseteq 1..buffers'
         /\ frames \in Seq(1..buffers') /\ Append(frames, buffers') \in Seq(1..buffers')
         /\ Held(Append(frames, buffers')) = Held(frames) \cup {buffers'}
         /\ Held(frames) \subseteq 1..buffers
<1>1. buffers \in Nat /\ buffers' \in Nat /\ buffers' \in 1..buffers' /\ 1..buffers \subseteq 1..buffers'
      /\ buffers' \notin 1..buffers
  BY DEF Buffers
<1>2. frames \in Seq(1..buffers)
  BY DEF Buffers
<1>3. frames \in Seq(1..buffers')
  BY <1>1, <1>2
<1>4. Append(frames, buffers') \in Seq(1..buffers')
  BY <1>1, <1>3
<1> QED
  BY <1>1, <1>2, <1>3, <1>4, HeldAppend DEF Buffers

(* An answer that is not a rowset.                                         *)
LEMMA NoRowset ==
  ASSUME NEW r \in {None, Failed, Plain}
  PROVE  /\ r \in [kind : {"none", "null", "other", "rowset"}, rows : Values, bufs : SUBSET Nat]
         /\ r.kind # "rowset" /\ r.bufs = {}
<1>1. <<>> \in Values /\ {} \in SUBSET Nat
  BY DEF Values
<1> QED
  BY <1>1 DEF None, Failed, Plain

LEMMA AnswerGiven ==
  ASSUME answer' \in {None, Failed, Plain}
  PROVE  AnswerOK' /\ RowsetIsOneAnswer' /\ answer'.bufs = {}
<1>1. /\ answer' \in [kind : {"none", "null", "other", "rowset"}, rows : Values, bufs : SUBSET Nat]
      /\ answer'.kind # "rowset" /\ answer'.bufs = {}
  BY NoRowset
<1> QED
  BY <1>1 DEF AnswerOK, RowsetIsOneAnswer

LEMMA InitIInv == Init => IInv
<1> SUFFICES ASSUME Init PROVE IInv
  OBVIOUS
<1>1. AnswerOK /\ RowsetIsOneAnswer /\ answer.bufs = {}
  BY NoRowset DEF Init, AnswerOK, RowsetIsOneAnswer
<1>2. Wires
  BY DEF Init, Wires
<1>3. Buffers
  BY <1>1 DEF Init, Buffers
<1>4. Flags /\ ChunkOK /\ Idle /\ OverrunOK /\ Flow
  BY DEF Init, Flags, ChunkOK, Idle, OverrunOK, Flow
<1>5. Fence
  BY <1>1, HeldNone DEF Init, Fence
<1> QED
  BY <1>1, <1>2, <1>3, <1>4, <1>5 DEF IInv

(* What a guarded call finds at the head of the socket, and behind it.     *)
LEMMA AtHead ==
  ASSUME IInv, reading, ~unfenced, overrun = 0
  PROVE  /\ wire # <<>> /\ Head(wire) \in Packets /\ Head(wire).of = commands
         /\ FlowOf(commands, sent[commands], Tail(wire))
         /\ chunk = <<>> => Starts(Head(wire))
         /\ chunk # <<>> => /\ Resumes(sent[commands], Head(wire), chunk[1].nrows)
                            /\ chunk[1].rows = RowsTo(commands, chunk[1].nrows)
         /\ Head(wire).type # "chunk" => Head(wire).idx = 0 /\ Tail(wire) = <<>>
         /\ Head(wire).type = "chunk" =>
              /\ Tail(wire) # <<>>
              /\ Resumes(sent[commands], Head(Tail(wire)), Head(wire).from + Head(wire).n)
<1> DEFINE t == sent[commands]
<1>1. FlowOf(commands, t, wire) /\ HeadOK
  BY DEF IInv, Flow
<1>2. wire # <<>>
  BY <1>1 DEF HeadOK
<1>3. /\ FlowOf(commands, t, Tail(wire)) /\ Head(wire) \in Packets /\ Head(wire).of = commands
      /\ Head(wire).type # "chunk" => Head(wire).idx = 0 /\ Tail(wire) = <<>>
      /\ Head(wire).type = "chunk" =>
           Tail(wire) # <<>> /\ Resumes(t, Head(Tail(wire)), Head(wire).from + Head(wire).n)
  <2> HIDE DEF t
  <2> QED
    BY <1>1, <1>2, FlowTail
<1> QED
  BY <1>1, <1>2, <1>3, Zenon DEF HeadOK

(* The packet that a read takes from the socket.                           *)
LEMMA TakeOK ==
  ASSUME IInv, NEW type, Take(type), UNCHANGED <<commands, sent>>
  PROVE  /\ reading /\ wire # <<>> /\ Head(wire).type = type /\ wire' = Tail(wire)
         /\ Head(wire) \in Packets /\ Wires'
<1>1. reading /\ wire # <<>> /\ Head(wire).type = type /\ wire' = Tail(wire) /\ wire \in Seq(Packets)
  BY DEF Take, IInv, Wires
<1>2. Head(wire) \in Packets /\ Tail(wire) \in Seq(Packets)
  BY <1>1
<1> QED
  BY <1>1, <1>2 DEF IInv, Wires

LEMMA CommandIInv ==
  ASSUME IInv, NEW guarded \in BOOLEAN, Command(guarded)
  PROVE  IInv'
<1> USE DEF IInv
<1>1. /\ ~reading /\ reading' = TRUE /\ frames' = <<>> /\ frames = <<>> /\ err' = FALSE
      /\ unfenced' = (unfenced \/ err) /\ commands' = commands + 1 /\ commands \in Nat
      /\ UNCHANGED <<chunk, buffers, freed, twice, overrun, answer>>
  BY DEF Command, Idle, Flags
<1>2. PICK packets \in Answers(commands + 1) :
        wire' = wire \o packets /\ sent' = Append(sent, Total(packets))
  BY DEF Command
<1> DEFINE x == Total(packets)
<1>3. x \in Nat /\ FlowOf(commands', x, packets) /\ packets # <<>> /\ Starts(Head(packets))
  <2>1. commands + 1 \in Nat
    BY <1>1
  <2> QED
    BY <1>1, <2>1, FlowOfAnswer
<1> HIDE DEF x
<1>4. sent' \in Seq(Nat) /\ Len(sent') = commands' /\ sent'[commands'] = x
  BY <1>1, <1>2, <1>3 DEF x, Wires
<1>5. Wires'
  <2>1. packets \in Seq(Packets) /\ wire \in Seq(Packets)
    BY <1>3 DEF FlowOf, Wires
  <2>2. wire' \in Seq(Packets)
    BY <1>2, <2>1
  <2> QED
    BY <1>4, <2>2 DEF Wires
<1>6. Flags' /\ Idle' /\ OverrunOK'
  <2>1. commands' \in Nat
    BY <1>1
  <2>2. unfenced' \in BOOLEAN
    BY <1>1, Zenon
  <2> QED
    BY <1>1, <2>1, <2>2 DEF Flags, Idle, OverrunOK
<1>7. Buffers' /\ ChunkOK' /\ AnswerOK'
  BY <1>1 DEF Buffers, ChunkOK, AnswerOK
<1>8. Fence' /\ RowsetIsOneAnswer'
  BY <1>1, HeldNone DEF Fence, Flags, RowsetIsOneAnswer
<1>9. Flow'
  <2> SUFFICES ASSUME ~unfenced', overrun' = 0
               PROVE  FlowOf(commands', sent'[commands'], wire') /\ HeadOK'
    BY <1>1 DEF Flow
  <2>1. wire = <<>> /\ chunk' = <<>>
    BY <1>1 DEF Flow, Fence
  <2>2. wire' = packets
    BY <1>2, <1>3, <2>1 DEF FlowOf
  <2> QED
    BY <1>3, <1>4, <2>1, <2>2 DEF HeadOK
<1> QED
  BY <1>5, <1>6, <1>7, <1>8, <1>9

(* The end of a call that returns NULL and frees its nest of buffers.      *)
LEMMA UnwindIInv ==
  ASSUME IInv, reading, Unwind, Wires', err' \in BOOLEAN,
         ~unfenced => err',
         overrun = 0, UNCHANGED <<commands, chunk, buffers, unfenced, overrun>>
  PROVE  IInv'
<1> USE DEF IInv
<1>1. /\ freed' = freed \cup Held(frames) /\ twice' = (twice \/ Held(frames) \cap freed # {})
      /\ answer' = Failed /\ reading' = FALSE /\ frames' = <<>>
  BY DEF Unwind, Free
<1>2. Held(frames) \subseteq 1..buffers /\ answer'.bufs = {} /\ AnswerOK' /\ RowsetIsOneAnswer'
  BY <1>1, HeldAppend, AnswerGiven DEF Buffers
<1>3. Buffers'
  <2>1. frames' \in Seq(1..buffers)
    BY <1>1, NothingIsSeq
  <2>2. freed' \subseteq 1..buffers
    BY <1>1, <1>2 DEF Buffers
  <2> QED
    BY <1>2, <2>1, <2>2 DEF Buffers
<1>4. Flags' /\ Idle' /\ OverrunOK'
  <2>1. twice' \in BOOLEAN
    BY <1>1, Zenon
  <2> QED
    BY <1>1, <2>1 DEF Flags, Idle, OverrunOK
<1>5. ChunkOK'
  BY DEF ChunkOK
<1>6. Fence' /\ Flow'
  BY <1>1, <1>2, HeldNone DEF Fence, Flow
<1> QED
  BY <1>2, <1>3, <1>4, <1>5, <1>6

(* The end of a call that returns something else than a rowset.            *)
LEMMA PlainIInv ==
  ASSUME IInv, reading, Return(Plain), Wires',
         ~unfenced => chunk = <<>> /\ wire' = <<>>,
         overrun = 0, UNCHANGED <<commands, err, chunk, buffers, unfenced, overrun>>
  PROVE  IInv'
<1> USE DEF IInv
<1>1. UNCHANGED <<freed, twice>> /\ reading' = FALSE /\ frames' = <<>> /\ answer' = Plain
  BY DEF Return
<1>2. answer'.bufs = {} /\ AnswerOK' /\ RowsetIsOneAnswer'
  BY <1>1, AnswerGiven
<1>3. Flags' /\ Idle' /\ ChunkOK' /\ Buffers' /\ OverrunOK'
  <2>1. Buffers'
    BY <1>1, <1>2, NothingIsSeq DEF Buffers
  <2>2. Flags' /\ Idle' /\ OverrunOK'
    BY <1>1 DEF Flags, Idle, OverrunOK
  <2>3. ChunkOK'
    BY <1>1 DEF ChunkOK
  <2> QED
    BY <2>1, <2>2, <2>3
<1>4. Fence' /\ Flow'
  BY <1>1, <1>2, HeldNone DEF Fence, Flow
<1> QED
  BY <1>2, <1>3, <1>4

-----------------------------------------------------------------------------
(* What a timeout leaves of the packets.                                   *)
LEMMA TornType ==
  ASSUME NEW w \in Seq(Packets), NEW v \in Torn(w)
  PROVE  v \in Seq(Packets)
<1>1. CASE v = w
  BY <1>1
<1>2. CASE v # w
  <2>1. w # <<>> /\ v = [w EXCEPT ![1] = [w[1] EXCEPT !.type = "rest"]]
    BY <1>2 DEF Torn
  <2>2. 1 \in 1..Len(w) /\ w[1] \in Packets
    BY <2>1
  <2>3. [w[1] EXCEPT !.type = "rest"] \in Packets
    BY <2>2 DEF Packets
  <2> QED
    BY <2>1, <2>2, <2>3
<1> QED
  BY <1>1, <1>2

LEMMA LeftoversType ==
  ASSUME NEW w \in Seq(Packets), NEW v \in Leftovers(w)
  PROVE  v \in Seq(Packets)
<1>1. CASE v \in Torn(w)
  BY <1>1, TornType
<1>2. CASE v \notin Torn(w)
  <2>1. PICK k \in 1..Len(w) + 1 : v \in Torn(SubSeq(w, k, Len(w)))
    BY <1>2 DEF Leftovers
  <2>2. SubSeq(w, k, Len(w)) \in Seq(Packets)
    <3>1. \A i \in k..Len(w) : w[i] \in Packets
      OBVIOUS
    <3>2. k \in Int /\ Len(w) \in Int
      OBVIOUS
    <3> QED
      BY <3>1, <3>2, SubSeqProperties
  <2> QED
    BY <2>1, <2>2, TornType
<1> QED
  BY <1>1, <1>2

LEMMA LeftoversWires ==
  ASSUME IInv, wire' \in Leftovers(wire), UNCHANGED <<commands, sent>>
  PROVE  Wires'
BY LeftoversType DEF IInv, Wires

LEMMA FailIInv ==
  ASSUME IInv, overrun = 0, ErrorReply \/ ReadFails
  PROVE  IInv'
<1>1. CASE ErrorReply
  <2>1. Take("error") /\ UNCHANGED <<commands, sent>>
    BY <1>1 DEF ErrorReply
  <2>2. reading /\ Wires'
    BY <2>1, TakeOK
  <2>3. /\ Unwind /\ err' /\ err' \in BOOLEAN
        /\ UNCHANGED <<commands, chunk, buffers, unfenced, overrun>>
    BY <1>1 DEF ErrorReply
  <2> QED
    BY <2>2, <2>3, UnwindIInv
<1>2. CASE ReadFails
  <2>1. reading /\ Wires'
    BY <1>2, LeftoversWires DEF ReadFails
  <2>2. /\ Unwind /\ err' /\ err' \in BOOLEAN
        /\ UNCHANGED <<commands, chunk, buffers, unfenced, overrun>>
    BY <1>2 DEF ReadFails
  <2> QED
    BY <2>1, <2>2, UnwindIInv
<1> QED
  BY <1>1, <1>2

(* A guarded call never meets a rest.                                      *)
LEMMA RestReplyIInv ==
  ASSUME IInv, overrun = 0, RestReply
  PROVE  IInv'
<1>1. /\ reading /\ Head(wire).type = "rest" /\ Wires'
      /\ UNCHANGED <<commands, chunk, buffers, unfenced, overrun>>
  BY LeftoversWires DEF RestReply
<1>2. unfenced
  BY <1>1, AtHead DEF Starts, Resumes
<1>3. CASE Return(Plain) /\ UNCHANGED err
  BY <1>1, <1>2, <1>3, PlainIInv
<1>4. CASE Unwind /\ err' \in {err, TRUE}
  <2>1. err' \in BOOLEAN
    BY <1>4 DEF IInv, Flags
  <2> QED
    BY <1>1, <1>2, <1>4, <2>1, UnwindIInv
<1> QED
  BY <1>3, <1>4 DEF RestReply

LEMMA OtherReplyIInv ==
  ASSUME IInv, overrun = 0, OtherReply
  PROVE  IInv'
<1>1. /\ Take("other") /\ Return(Plain)
      /\ UNCHANGED <<commands, sent, err, chunk, buffers, unfenced, overrun>>
  BY DEF OtherReply
<1>2. reading /\ Head(wire).type = "other" /\ wire' = Tail(wire) /\ Wires'
  BY <1>1, TakeOK
<1>3. ~unfenced => chunk = <<>> /\ wire' = <<>>
  BY <1>2, AtHead DEF Resumes
<1> QED
  BY <1>1, <1>2, <1>3, PlainIInv

-----------------------------------------------------------------------------
LEMMA FirstChunkIInv ==
  ASSUME IInv, overrun = 0, FirstChunk
  PROVE  IInv'
<1> USE DEF IInv
<1> DEFINE p == Head(wire)
           b == buffers'
           c == First(p, b)
<1>1. /\ buffers' = buffers + 1 /\ chunk' = <<c>> /\ frames' = Append(frames, b)
      /\ Take("chunk") /\ p.idx = 1
      /\ UNCHANGED <<commands, sent, reading, err, unfenced, overrun, answer>>
  BY DEF FirstChunk
<1>2. reading /\ p.type = "chunk" /\ p \in Packets /\ wire' = Tail(wire) /\ Wires'
  BY <1>1, TakeOK
<1>3. Arrays(c) /\ c.bufs = {b} /\ c.rows = Rows(p) /\ c.nrows = p.n
  BY <1>1, <1>2, NewBuffer, FirstArrays
<1> HIDE DEF c
<1>4. chunk' # <<>> /\ chunk'[1] = c
  BY <1>1
<1>5. IF chunk = <<>> THEN UNCHANGED <<freed, twice>>
      ELSE freed' = freed \cup chunk[1].bufs /\ twice' \in BOOLEAN
  BY DEF FirstChunk, Free
<1>6. Flags' /\ Idle' /\ AnswerOK' /\ OverrunOK' /\ RowsetIsOneAnswer'
  BY <1>1, <1>2, <1>5 DEF Flags, Idle, AnswerOK, OverrunOK, RowsetIsOneAnswer
<1>7. freed' \subseteq 1..buffers
  BY <1>5 DEF Buffers, ChunkOK
<1>8. Buffers'
  BY <1>1, <1>7, NewBuffer DEF Buffers
<1>9. ChunkOK'
  BY <1>1, <1>3, <1>4, NewBuffer DEF ChunkOK
<1>10. ~unfenced => chunk = <<>> /\ p.from = 0
  BY <1>1, <1>2, AtHead DEF Starts, Resumes
<1>11. Fence'
  <2> SUFFICES ASSUME ~unfenced PROVE Fence'
    BY <1>1 DEF Fence
  <2>1. frames = <<>> /\ UNCHANGED <<freed, twice>>
    BY <1>2, <1>5, <1>10 DEF Fence
  <2>2. Held(frames') = {b} /\ b \notin freed
    BY <1>1, <2>1, NewBuffer, HeldNone
  <2> QED
    BY <1>1, <1>2, <1>3, <1>4, <2>1, <2>2 DEF Fence
<1>12. Flow'
  <2> SUFFICES ASSUME ~unfenced
               PROVE  FlowOf(commands, sent[commands], wire') /\ HeadOK'
    BY <1>1, <1>2 DEF Flow
  <2> DEFINE t == sent[commands]
  <2>1. /\ p.of = commands /\ FlowOf(commands, t, wire') /\ wire' # <<>>
        /\ Resumes(t, Head(wire'), p.from + p.n)
    BY <1>2, AtHead
  <2> HIDE DEF t
  <2>2. p.from = 0 /\ p.n \in Nat /\ p.from + p.n = p.n
    BY <1>2, <1>10 DEF Packets
  <2>3. c.rows = RowsTo(commands, c.nrows)
    BY <1>2, <1>3, <2>1, <2>2, FirstRows
  <2>4. Resumes(t, Head(wire'), c.nrows)
    BY <1>3, <2>1, <2>2
  <2> QED
    BY <1>1, <1>4, <2>1, <2>3, <2>4 DEF HeadOK, t
<1> QED
  BY <1>2, <1>6, <1>8, <1>9, <1>11, <1>12

LEMMA NextChunkIInv ==
  ASSUME IInv, overrun = 0, NextChunk
  PROVE  IInv'
<1> USE DEF IInv
<1> DEFINE p == Head(wire)
           b == buffers'
<1>1. /\ buffers' = buffers + 1 /\ Take("chunk") /\ p.idx # 1
      /\ UNCHANGED <<commands, sent, err, unfenced, overrun>>
  BY DEF NextChunk
<1>2. reading /\ p.type = "chunk" /\ p \in Packets /\ wire' = Tail(wire) /\ Wires'
  BY <1>1, TakeOK
<1>3. ~unfenced => chunk # <<>>
  BY <1>1, <1>2, AtHead DEF Starts
<1>4. CASE chunk = <<>>
  <2>1. /\ freed' = freed \cup {b} /\ twice' = (twice \/ {b} \cap freed # {})
        /\ answer' = Failed /\ reading' = FALSE /\ frames' = <<>> /\ chunk' = chunk
    BY <1>4 DEF NextChunk, Stray, Free
  <2>2. answer'.bufs = {} /\ AnswerOK' /\ RowsetIsOneAnswer'
    BY <2>1, AnswerGiven
  <2>3. twice' = twice
    BY <1>1, <2>1, NewBuffer DEF Flags
  <2>4. Flags' /\ Idle' /\ OverrunOK'
    BY <1>1, <2>1, <2>3 DEF Flags, Idle, OverrunOK
  <2>5. Buffers'
    BY <1>1, <2>1, <2>2, NewBuffer DEF Buffers
  <2>6. ChunkOK'
    BY <1>4, <2>1 DEF ChunkOK
  <2>7. Fence' /\ Flow'
    BY <1>1, <1>3, <1>4 DEF Fence, Flow
  <2> QED
    BY <1>2, <2>2, <2>4, <2>5, <2>6, <2>7
<1>5. CASE chunk # <<>>
  <2> DEFINE old == chunk[1]
             c == Extended(old, p, b)
  <2>1. /\ chunk' = <<c>> /\ frames' = Append(frames, b) /\ Fits(old, p)
        /\ UNCHANGED <<reading, freed, twice, answer>>
    BY <1>5 DEF NextChunk
  <2>2. /\ Arrays(c) /\ c.bufs = old.bufs \cup {b}
        /\ c.rows = old.rows \o Rows(p) /\ c.nrows = old.nrows + p.n
    <3>1. Arrays(old) /\ b \in Nat
      BY <1>1, <1>5, NewBuffer DEF ChunkOK
    <3> HIDE DEF old
    <3> QED
      BY <1>2, <2>1, <3>1, ExtendedArrays
  <2> HIDE DEF c
  <2>3. chunk' # <<>> /\ chunk'[1] = c
    BY <2>1
  <2>4. Flags' /\ Idle' /\ AnswerOK' /\ OverrunOK' /\ RowsetIsOneAnswer'
    BY <1>1, <1>2, <2>1 DEF Flags, Idle, AnswerOK, OverrunOK, RowsetIsOneAnswer
  <2>5. Buffers'
    BY <1>1, <2>1, NewBuffer DEF Buffers
  <2>6. ChunkOK'
    BY <1>1, <1>5, <2>1, <2>2, <2>3, NewBuffer DEF ChunkOK
  <2>7. Held(frames') = Held(frames) \cup {b} /\ b \notin freed
    BY <1>1, <2>1, NewBuffer
  <2>8. Fence'
    BY <1>1, <1>2, <1>5, <2>1, <2>2, <2>3, <2>7 DEF Fence
  <2>9. Flow'
    <3> SUFFICES ASSUME ~unfenced
                 PROVE  FlowOf(commands, sent[commands], wire') /\ HeadOK'
      BY <1>1, <1>2, <2>1 DEF Flow
    <3> DEFINE t == sent[commands]
    <3>1. /\ p.of = commands /\ FlowOf(commands, t, wire') /\ wire' # <<>>
          /\ Resumes(t, Head(wire'), p.from + p.n)
          /\ Resumes(t, p, old.nrows) /\ old.rows = RowsTo(commands, old.nrows)
      BY <1>2, <1>5, AtHead
    <3> HIDE DEF t
    <3>2. p.from = old.nrows
      BY <1>2, <3>1 DEF Resumes
    <3>3. c.rows = RowsTo(commands, p.from + p.n)
      BY <1>2, <2>2, <3>1, <3>2, RowsJoin
    <3> HIDE DEF old
    <3> QED
      BY <1>1, <2>2, <2>3, <3>1, <3>2, <3>3 DEF HeadOK, t
  <2> QED
    BY <1>2, <2>4, <2>5, <2>6, <2>8, <2>9
<1> QED
  BY <1>4, <1>5

(* The array of values is too small for the chunk: it has more rows than   *)
(* the array had at the beginning.                                         *)
LEMMA OverrunIInv ==
  ASSUME IInv, overrun = 0, Overrun
  PROVE  IInv'
<1> USE DEF IInv
<1> DEFINE n == Head(wire).n
           c == chunk[1]
<1>1. /\ Take("chunk") /\ chunk # <<>> /\ ~Fits(c, Head(wire)) /\ overrun' = n
      /\ UNCHANGED <<commands, sent, reading, err, chunk, frames, buffers, freed, twice, unfenced,
                     answer>>
  BY DEF Overrun
<1>2. reading /\ Head(wire) \in Packets /\ Wires'
  BY <1>1, TakeOK
<1>3. n \in Nat /\ MinRows \in Nat
  BY <1>2, ChunksAssumption DEF Packets
<1>4. n > MinRows
  <2>1. c.nrows \in Nat /\ c.brows \in Nat /\ c.brows >= MinRows /\ c.nrows <= c.brows
    BY <1>1 DEF ChunkOK, Arrays, Partial
  <2>2. n <= MinRows => Fits(c, Head(wire))
    BY <1>3, <2>1, ValueRoom DEF Fits
  <2> QED
    BY <1>1, <1>3, <2>2
<1>5. OverrunOK' /\ overrun' # 0
  BY <1>1, <1>2, <1>3, <1>4 DEF OverrunOK
<1>6. Flags' /\ AnswerOK' /\ Buffers' /\ ChunkOK' /\ Idle'
  BY <1>1 DEF Flags, AnswerOK, Buffers, ChunkOK, Idle
<1>7. Fence' /\ Flow' /\ RowsetIsOneAnswer'
  BY <1>1, <1>2, <1>5 DEF Fence, Flow, RowsetIsOneAnswer
<1> QED
  BY <1>2, <1>5, <1>6, <1>7

LEMMA EndChunkIInv ==
  ASSUME IInv, overrun = 0, EndChunk
  PROVE  IInv'
<1> USE DEF IInv
<1> DEFINE p == Head(wire)
<1>1. /\ Take("end")
      /\ UNCHANGED <<commands, sent, err, buffers, unfenced, freed, twice, overrun>>
      /\ reading' = FALSE /\ frames' = <<>> /\ chunk' = <<>>
  BY DEF EndChunk, Stray, Return
<1>2. reading /\ p.type = "end" /\ wire' = Tail(wire) /\ Wires'
  BY <1>1, TakeOK
<1>3. Flags' /\ Idle' /\ ChunkOK' /\ OverrunOK'
  BY <1>1 DEF Flags, Idle, ChunkOK, OverrunOK
<1>4. ~unfenced => chunk # <<>> /\ wire' = <<>>
  BY <1>2, AtHead DEF Starts
<1>5. Flow'
  BY <1>1, <1>4 DEF Flow
<1>6. CASE chunk = <<>>
  <2>1. answer' = Failed
    BY <1>6 DEF EndChunk, Stray
  <2>2. answer'.bufs = {} /\ AnswerOK' /\ RowsetIsOneAnswer'
    BY <2>1, AnswerGiven
  <2>3. Buffers'
    BY <1>1, <2>2 DEF Buffers
  <2>4. Fence'
    BY <1>1, <1>4, <1>6 DEF Fence
  <2> QED
    BY <1>2, <1>3, <1>5, <2>2, <2>3, <2>4
<1>7. CASE chunk # <<>>
  <2> DEFINE c == chunk[1]
  <2>1. answer' = [kind |-> "rowset", rows |-> c.rows, bufs |-> c.bufs]
    BY <1>7 DEF EndChunk, Return, Rowset
  <2>2. c.rows \in Values /\ c.bufs \in SUBSET Nat
    BY <1>7 DEF ChunkOK, Arrays, Partial
  <2>3. AnswerOK' /\ answer'.bufs = c.bufs /\ answer'.rows = c.rows
    BY <2>1, <2>2 DEF AnswerOK
  <2>4. Buffers'
    BY <1>1, <1>7, <2>3 DEF Buffers, ChunkOK
  <2>5. Fence'
    BY <1>1, <1>2, <1>7, <2>3, HeldNone DEF Fence
  <2>6. RowsetIsOneAnswer'
    <3> SUFFICES ASSUME ~unfenced
                 PROVE  c.rows = RowsTo(commands, sent[commands])
      BY <1>1, <2>3 DEF RowsetIsOneAnswer, RowsTo
    <3> QED
      BY <1>2, <1>7, AtHead DEF Resumes
  <2> QED
    BY <1>2, <1>3, <1>5, <2>3, <2>4, <2>5, <2>6
<1> QED
  BY <1>6, <1>7

LEMMA ConnectIInv ==
  ASSUME IInv, Connect
  PROVE  IInv'
<1> USE DEF IInv
<1>1. /\ UNCHANGED <<commands, sent, reading, frames, buffers, freed, overrun>>
      /\ err' = FALSE /\ wire' = <<>> /\ chunk' = <<>> /\ unfenced' = FALSE /\ twice' = FALSE
      /\ frames = <<>> /\ ~reading /\ answer' = None
  BY DEF Connect, Idle
<1>2. answer'.bufs = {} /\ AnswerOK' /\ RowsetIsOneAnswer'
  BY <1>1, AnswerGiven
<1>3. Wires'
  BY <1>1 DEF Wires
<1>4. Flags' /\ Idle' /\ ChunkOK' /\ Buffers' /\ OverrunOK'
  BY <1>1, <1>2 DEF Flags, Idle, ChunkOK, Buffers, OverrunOK
<1>5. Fence' /\ Flow'
  BY <1>1, <1>2, HeldNone DEF Fence, Flow
<1> QED
  BY <1>2, <1>3, <1>4, <1>5

-----------------------------------------------------------------------------
(* The inductive invariant, for any number of commands and chunks.         *)
THEOREM Inductive == Spec => []IInv
<1>1. IInv /\ [Next]_vars => IInv'
  <2> SUFFICES ASSUME IInv, [Next]_vars PROVE IInv'
    OBVIOUS
  <2>1. CASE UNCHANGED vars
    BY <2>1 DEF vars, IInv, Flags, Wires, AnswerOK, Buffers, ChunkOK, Idle, OverrunOK, Fence, Flow,
                HeadOK, RowsetIsOneAnswer
  <2> QED
    BY <2>1, CommandIInv, FirstChunkIInv, NextChunkIInv, OverrunIInv, EndChunkIInv, FailIInv,
       OtherReplyIInv, RestReplyIInv, ConnectIInv DEF Next, Read
<1> QED
  BY <1>1, InitIInv, PTL DEF Spec

LEMMA ChunkIsOne ==
  ASSUME IInv
  PROVE  Len(chunk) <= 1 /\ \A k \in 1..Len(chunk) : k = 1 /\ chunk # <<>>
<1>1. CASE chunk = <<>>
  BY <1>1
<1>2. CASE chunk # <<>>
  <2>1. PICK c : chunk = <<c>>
    BY <1>2, Zenon DEF IInv, ChunkOK
  <2> QED
    BY <2>1
<1> QED
  BY <1>1, <1>2

(* The packets, the rowset in _chunk and the buffers keep their types.     *)
THEOREM TypeCorrect == Spec => []TypeOK
<1>1. IInv => TypeOK
  <2> SUFFICES ASSUME IInv PROVE TypeOK
    OBVIOUS
  <2>1. commands \in Nat /\ sent \in Seq(Nat) /\ wire \in Seq(Packets) /\ overrun \in Nat
    BY DEF IInv, Flags, Wires, OverrunOK
  <2>2. reading \in BOOLEAN /\ err \in BOOLEAN /\ twice \in BOOLEAN /\ unfenced \in BOOLEAN
    BY Zenon DEF IInv, Flags
  <2>3. chunk \in Seq(Partial)
    <3>1. CASE chunk = <<>>
      BY <3>1
    <3>2. CASE chunk # <<>>
      <4>1. chunk = <<chunk[1]>> /\ chunk[1] \in Partial
        BY <3>2 DEF IInv, ChunkOK, Arrays
      <4>2. PICK c \in Partial : chunk = <<c>>
        BY <4>1, Zenon
      <4> QED
        BY <4>2
    <3> QED
      BY <3>1, <3>2
  <2>4. buffers \in Nat /\ frames \in Seq(1..buffers) /\ freed \subseteq 1..buffers
    BY DEF IInv, Buffers
  <2>5. answer \in [kind : {"none", "null", "other", "rowset"}, rows : Values, bufs : SUBSET (1..buffers)]
    BY DEF IInv, Buffers, AnswerOK
  <2> QED
    BY <2>1, <2>2, <2>3, <2>4, <2>5, ChunkIsOne, Zenon DEF TypeOK, Partial
<1> QED
  BY <1>1, Inductive, PTL

(* internal_parse_rowset_chunck writes beyond the end of rowset->data only *)
(* for a chunk of more than DEFAULT_CHUNK_MINROWS rows, and never beyond   *)
(* the end of rowset->buffers, however many chunks an answer has.          *)
THEOREM AlwaysInBounds == Spec => []InBounds
<1>1. IInv => InBounds
  <2> SUFFICES ASSUME IInv PROVE InBounds
    OBVIOUS
  <2>1. overrun # 0 => overrun > MinRows
    BY DEF IInv, OverrunOK
  <2>2. ASSUME NEW k \in 1..Len(chunk)
        PROVE  /\ chunk[k].bcount <= chunk[k].bnum
               /\ Len(chunk[k].rows) = chunk[k].nrows /\ chunk[k].nrows <= chunk[k].brows
    <3>1. k = 1 /\ chunk # <<>>
      BY ChunkIsOne
    <3>2. Arrays(chunk[1])
      BY <3>1 DEF IInv, ChunkOK
    <3> QED
      BY <3>1, <3>2 DEF Arrays, Partial
  <2> QED
    BY <2>1, <2>2 DEF InBounds
<1> QED
  BY <1>1, Inductive, PTL

(* No buffer is freed twice and none that is freed is returned, unless a   *)
(* function of a SQLiteCloudVM has gone on in spite of an error.           *)
THEOREM VMsReuseBuffers == Spec => []OnlyVMsReuseBuffers
<1>1. IInv => OnlyVMsReuseBuffers
  BY DEF IInv, Fence, OnlyVMsReuseBuffers
<1> QED
  BY <1>1, Inductive, PTL

(* A rowset cut off is barred by the error that has cut it off.            *)
THEOREM PartialsAreBarred == Spec => []PartialIsBarred
<1>1. IInv => PartialIsBarred
  BY DEF IInv, Fence, PartialIsBarred
<1> QED
  BY <1>1, Inductive, PTL

(* A rowset that is returned has all the rows of the answer to its own     *)
(* command, in order and no other, whatever timeouts, also in the middle   *)
(* of a packet, have come before on the connection or on earlier ones; an  *)
(* unguarded command over an error is the only exception.                  *)
THEOREM RowsetsAreOneAnswer == Spec => []RowsetIsOneAnswer
<1>1. IInv => RowsetIsOneAnswer
  BY DEF IInv
<1> QED
  BY <1>1, Inductive, PTL

(* "this should never happen" (sqcloud.c:1039): it does not, as long as no *)
(* unguarded command has gone on over an error.                            *)
THEOREM NoChunkIsStray == Spec => []NoStrayChunk
<1>1. IInv => NoStrayChunk
  <2> SUFFICES ASSUME IInv, reading, ~unfenced, wire # <<>>, chunk = <<>>,
                      Head(wire).type = "end" \/ Head(wire).idx > 1
               PROVE  FALSE
    BY DEF NoStrayChunk
  <2>1. overrun = 0
    BY DEF IInv, OverrunOK
  <2>2. Starts(Head(wire)) /\ (Head(wire).type # "chunk" => Head(wire).idx = 0)
    BY <2>1, AtHead
  <2> QED
    BY <2>2 DEF Starts
<1> QED
  BY <1>1, Inductive, PTL
=============================================================================
