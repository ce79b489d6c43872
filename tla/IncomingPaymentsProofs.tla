----------------------- MODULE IncomingPaymentsProofs -----------------------
(* What is proved of IncomingPayments, for every company, invoice, payment,  *)
(* export, deposit file and bound: all its properties but OncePerPayment.    *)
(*                                                                           *)
(* PaymentsInv, that each line is of a payment its bank has booked and holds *)
(* invoices of its own company only, gives OwnCompany and DoublesTold.       *)
(* MoneyInv adds what MoneyOnce needs: lines are told apart by their keys,   *)
(* and none has money gone to an invoice before it is reconciled. NamedInv   *)
(* adds what NamedOrNothing needs: the invoices a run has looked up are all  *)
(* that are open in the company still.                                       *)
EXTENDS IncomingPayments, FiniteSetTheorems, SequenceTheorems, WellFoundedInduction, TLAPS

-----------------------------------------------------------------------------
(* Folds *)

\* One line read: a new one settles its invoice.
Turned(books, new, l) == IF l \in new THEN SwishReconciled(books, l) ELSE books

\* The fold as a function of the places read.
Folds(f, db, new, read, S) ==
    f = [s \in SUBSET S |-> IF s = {} THEN db ELSE Turned(f[s \ {Max(s)}], new, read[Max(s)])]

\* Of a finite set of numbers that is not empty the greatest is in it.
LEMMA MaxIs ==
    ASSUME NEW n \in Nat, NEW s \in SUBSET (1..n), s # {}
    PROVE  Max(s) \in s /\ \A x \in s : x <= Max(s)
<1> DEFINE K == {n - x : x \in s}
<1>1. K \in SUBSET Nat /\ K # {}
  <2>1. \A x \in s : x \in 1..n /\ n - x \in Nat
    OBVIOUS
  <2> QED BY <2>1
<1>2. PICK k \in K : \A m \in Nat : <<m, k>> \in OpToRel(<, Nat) => m \notin K
  <2> HIDE DEF K
  <2> QED BY <1>1, WFMin, NatLessThanWellFounded
<1>3. \A m \in K : ~(m < k)
  BY <1>1, <1>2 DEF OpToRel
<1>4. PICK x \in s : k = n - x
  BY <1>2
<1>5. \A y \in s : x >= y
  <2> SUFFICES ASSUME NEW y \in s PROVE x >= y
    OBVIOUS
  <2>1. ~(n - y < n - x)
    BY <1>3, <1>4
  <2> QED BY <2>1
<1>6. Max(s) \in s /\ \A y \in s : Max(s) >= y
  BY <1>5 DEF Max
<1> QED BY <1>6

LEMMA FoldExists ==
    ASSUME NEW n \in Nat, NEW db, NEW new, NEW read
    PROVE  \E f : Folds(f, db, new, read, 1..n)
<1> DEFINE S == 1..n
           Small(k) == {s \in SUBSET S : Cardinality(s) <= k}
           Body(f, s) == IF s = {} THEN db ELSE Turned(f[s \ {Max(s)}], new, read[Max(s)])
           P(k) == \E f : f = [s \in Small(k) |-> Body(f, s)]
           Bad == {k \in Nat : ~P(k)}
<1>0. ASSUME NEW s \in SUBSET S PROVE IsFiniteSet(s) /\ Cardinality(s) \in Nat /\ (Cardinality(s) = 0 <=> s = {})
  <2>1. IsFiniteSet(1..n)
    BY FS_Interval
  <2>2. IsFiniteSet(s)
    BY <2>1, FS_Subset
  <2> QED BY <2>2, FS_CardinalityType, FS_EmptySet
<1>1. P(0)
  <2> DEFINE f == [s \in Small(0) |-> db]
  <2>1. \A s \in Small(0) : s = {}
    BY <1>0
  <2>2. f = [s \in Small(0) |-> Body(f, s)]
    BY <2>1
  <2> QED BY <2>2
<1>2. ASSUME NEW k \in Nat, P(k) PROVE P(k + 1)
  <2>1. PICK f : f = [s \in Small(k) |-> Body(f, s)]
    BY <1>2
  <2> DEFINE g == [s \in Small(k + 1) |-> Body(f, s)]
  <2>2. ASSUME NEW s \in Small(k + 1), s # {} PROVE s \ {Max(s)} \in Small(k)
    <3>1. Max(s) \in s
      BY <2>2, MaxIs
    <3> DEFINE c == Cardinality(s)
               m == Cardinality(s \ {Max(s)})
    <3>2. c \in Nat /\ m = c - 1 /\ c <= k + 1
      BY <1>0, <3>1, FS_RemoveElement
    <3> HIDE DEF c, m
    <3>3. m <= k
      BY <3>2
    <3> QED BY <3>3 DEF m
  <2>3. ASSUME NEW s \in Small(k) PROVE s \in Small(k + 1) /\ g[s] = f[s]
    <3>1. s \in Small(k + 1)
      <4> DEFINE c == Cardinality(s)
      <4>1. c \in Nat /\ c <= k
        BY <1>0
      <4> HIDE DEF c
      <4>2. c <= k + 1
        BY <4>1
      <4> QED BY <4>2 DEF c
    <3> HIDE DEF Small, Body
    <3>2. g[s] = Body(f, s)
      BY <3>1
    <3>3. f[s] = Body(f, s)
      BY <2>1
    <3> QED BY <3>1, <3>2, <3>3
  <2>4. ASSUME NEW s \in Small(k + 1) PROVE Body(f, s) = Body(g, s)
    BY <2>2, <2>3
  <2>5. g = [s \in Small(k + 1) |-> Body(g, s)]
    <3> HIDE DEF Small, Body
    <3> QED BY <2>4
  <2> QED BY <2>5
<1>3. Bad = {}
  <2> SUFFICES ASSUME Bad # {} PROVE FALSE
    OBVIOUS
  <2>1. PICK k \in Bad : \A m \in Nat : <<m, k>> \in OpToRel(<, Nat) => m \notin Bad
    <3>1. Bad \subseteq Nat
      OBVIOUS
    <3> HIDE DEF Bad
    <3> QED BY <3>1, WFMin, NatLessThanWellFounded
  <2> HIDE DEF P
  <2>2. k \in Nat /\ ~P(k) /\ k # 0
    BY <1>1
  <2>3. k - 1 \in Nat /\ k - 1 < k /\ (k - 1) + 1 = k
    BY <2>2
  <2>4. k - 1 \notin Bad
    BY <2>1, <2>3 DEF OpToRel
  <2>5. P(k - 1)
    BY <2>3, <2>4
  <2> QED BY <1>2, <2>2, <2>3, <2>5
<1>4. P(n)
  <2> HIDE DEF P
  <2> QED BY <1>3
<1>5. Small(n) = SUBSET S
  <2>1. ASSUME NEW s \in SUBSET S PROVE Cardinality(s) <= n
    <3>1. IsFiniteSet(1..n) /\ Cardinality(1..n) = n
      BY FS_Interval
    <3> QED BY <3>1, FS_Subset
  <2> QED BY <2>1
<1>6. PICK f : f = [s \in Small(n) |-> Body(f, s)]
  BY <1>4
<1>7. f = [s \in SUBSET S |-> Body(f, s)]
  <2> HIDE DEF Body, Small
  <2> QED BY <1>5, <1>6
<1> QED BY <1>7 DEF Folds

\* What SwishSettled comes to, line by line.
LEMMA FoldIs ==
    ASSUME NEW n \in Nat, NEW db, NEW new, NEW read, DOMAIN read = 1..n
    PROVE  \E G : /\ G[0] = db /\ SwishSettled(db, new, read) = G[n]
                  /\ \A i \in 1..n : G[i] = Turned(G[i - 1], new, read[i])
<1> DEFINE f == CHOOSE f : Folds(f, db, new, read, 1..n)
           G == [i \in 0..n |-> f[1..i]]
<1>1. Folds(f, db, new, read, 1..n)
  BY FoldExists
<1>2. SwishSettled(db, new, read) = f[1..n]
  BY DEF SwishSettled, FoldLeft, MapThenFoldSet, Folds, Turned
<1> HIDE DEF f
<1>3. \A s \in SUBSET (1..n) : f[s] = IF s = {} THEN db ELSE Turned(f[s \ {Max(s)}], new, read[Max(s)])
  BY <1>1 DEF Folds
<1>4. G[0] = db
  <2>1. 1..0 = {} /\ {} \in SUBSET (1..n)
    OBVIOUS
  <2>2. f[{}] = db
    BY <1>3, <2>1
  <2>3. G[0] = f[1..0]
    OBVIOUS
  <2> QED BY <2>1, <2>2, <2>3
<1>5. ASSUME NEW i \in 1..n PROVE G[i] = Turned(G[i - 1], new, read[i])
  <2>1. 1..i \in SUBSET (1..n) /\ 1..i # {} /\ i \in 1..i
    BY SMTT(30)
  <2>2. Max(1..i) \in 1..i /\ \A x \in 1..i : x <= Max(1..i)
    BY <2>1, MaxIs
  <2>3. Max(1..i) = i
    BY <2>1, <2>2
  <2>4. (1..i) \ {i} = 1..(i - 1)
    OBVIOUS
  <2>5. f[1..i] = Turned(f[1..(i - 1)], new, read[i])
    BY <1>3, <2>1, <2>3, <2>4
  <2> QED BY <2>5
<1>6. G[0] = db /\ SwishSettled(db, new, read) = G[n]
  BY <1>2, <1>4
<1> HIDE DEF G
<1> QED BY <1>5, <1>6

-----------------------------------------------------------------------------
(* Sequences and places *)

\* A set of numbers has a least one.
LEMMA LeastExists ==
    ASSUME NEW S \in SUBSET Nat, S # {}
    PROVE  \E n \in S : \A m \in S : n <= m
<1>1. PICK n \in S : \A m \in Nat : <<m, n>> \in OpToRel(<, Nat) => m \notin S
  BY WFMin, NatLessThanWellFounded
<1>2. \A m \in S : ~(m < n)
  BY <1>1 DEF OpToRel
<1> QED BY <1>2

\* The k-th of the places in F.
LEMMA CountedPlace ==
    ASSUME NEW n \in Nat, NEW F \in SUBSET (1..n), NEW k \in 1..Cardinality(F)
    PROVE  \E j \in F : Cardinality({h \in 1..j : h \in F}) = k
<1> DEFINE Upto(j) == {h \in 1..j : h \in F}
           C(j) == Cardinality(Upto(j))
           K == {j \in 0..n : k <= C(j)}
<1>1. ASSUME NEW j \in 0..n PROVE IsFiniteSet(Upto(j)) /\ C(j) \in Nat
  <2>1. IsFiniteSet(1..j) /\ Upto(j) \subseteq 1..j
    BY FS_Interval
  <2> QED BY <2>1, FS_Subset, FS_CardinalityType
<1>2. Upto(n) = F /\ Upto(0) = {}
  <2>1. 1..0 = {} /\ \A h \in F : h \in 1..n
    OBVIOUS
  <2> QED BY <2>1
<1>3. C(0) = 0 /\ C(n) = Cardinality(F)
  BY <1>2, FS_EmptySet
<1>4. K \in SUBSET Nat /\ n \in K
  <2>1. Cardinality(F) \in Nat
    BY <1>1, <1>3
  <2> QED BY <1>3, <2>1
<1>5. PICK j \in K : \A m \in K : j <= m
  <2> HIDE DEF K
  <2> QED BY <1>4, LeastExists
<1>6. j \in 0..n /\ k <= C(j) /\ j # 0 /\ k \in Nat
  <2>1. Cardinality(F) \in Nat
    BY <1>1, <1>3
  <2> QED BY <1>3, <2>1
<1>7. j - 1 \in 0..n /\ ~(k <= C(j - 1))
  BY <1>5, <1>6
<1>8. Upto(j) = IF j \in F THEN Upto(j - 1) \cup {j} ELSE Upto(j - 1)
  BY <1>6
<1>9. j \notin Upto(j - 1)
  BY <1>6
<1>10. C(j) = IF j \in F THEN C(j - 1) + 1 ELSE C(j - 1)
  <2>1. IsFiniteSet(Upto(j - 1))
    BY <1>1, <1>7
  <2> HIDE DEF Upto
  <2> QED BY <1>8, <1>9, <2>1, FS_AddElement
<1>11. C(j - 1) \in Nat
  BY <1>1, <1>7
<1>12. j \in F /\ C(j) = k
  <2> HIDE DEF C
  <2> QED BY <1>6, <1>7, <1>10, <1>11
<1> QED BY <1>12

\* Sequences put one after the other are one sequence.
LEMMA FlatIs ==
    ASSUME NEW T, NEW f \in Seq(Seq(T))
    PROVE  FlattenSeq(f) \in Seq(T)
<1> DEFINE M == Len(f)
           Body(g, i) == IF i = 1 THEN f[i] ELSE g[i - 1] \o f[i]
           P(k) == \E g : g = [i \in 1..k |-> Body(g, i)]
           Bad == {k \in Nat : ~P(k)}
<1>0. M \in Nat /\ \A i \in 1..M : f[i] \in Seq(T)
  OBVIOUS
<1>1. P(0)
  <2> DEFINE g == [i \in 1..0 |-> f[i]]
  <2>1. g = [i \in 1..0 |-> Body(g, i)]
    OBVIOUS
  <2> QED BY <2>1
<1>2. ASSUME NEW k \in Nat, P(k) PROVE P(k + 1)
  <2>1. PICK g : g = [i \in 1..k |-> Body(g, i)]
    BY <1>2
  <2> DEFINE h == [i \in 1..(k + 1) |-> Body(g, i)]
  <2>2. ASSUME NEW i \in 1..k PROVE h[i] = g[i]
    <3>1. h[i] = Body(g, i)
      OBVIOUS
    <3> QED BY <2>1, <3>1
  <2>3. ASSUME NEW i \in 1..(k + 1) PROVE Body(g, i) = Body(h, i)
    <3>1. i # 1 => i - 1 \in 1..k
      OBVIOUS
    <3> HIDE DEF h
    <3> QED BY <2>2, <3>1
  <2>4. h = [i \in 1..(k + 1) |-> Body(h, i)]
    <3> HIDE DEF Body
    <3> QED BY <2>3
  <2> QED BY <2>4
<1>3. Bad = {}
  <2> SUFFICES ASSUME Bad # {} PROVE FALSE
    OBVIOUS
  <2>1. PICK k \in Bad : \A j \in Bad : k <= j
    <3>1. Bad \in SUBSET Nat
      OBVIOUS
    <3> HIDE DEF Bad
    <3> QED BY <3>1, LeastExists
  <2> HIDE DEF P
  <2>2. k \in Nat /\ ~P(k) /\ k # 0
    BY <1>1
  <2>3. k - 1 \in Nat /\ k - 1 \notin Bad /\ (k - 1) + 1 = k
    BY <2>1, <2>2
  <2> QED BY <1>2, <2>2, <2>3
<1>4. P(M)
  <2> HIDE DEF P
  <2> QED BY <1>0, <1>3
<1> DEFINE g == CHOOSE g : g = [i \in 1..M |-> Body(g, i)]
<1>5. g = [i \in 1..M |-> Body(g, i)]
  BY <1>4
<1>6. Len(f) # 0 => FlattenSeq(f) = g[M]
  BY DEF FlattenSeq
<1> HIDE DEF g
<1>7. \A i \in 1..M : g[i] = Body(g, i)
  BY <1>5
<1> DEFINE Odd == {i \in 1..M : g[i] \notin Seq(T)}
<1>8. Odd = {}
  <2> SUFFICES ASSUME Odd # {} PROVE FALSE
    OBVIOUS
  <2>1. PICK i \in Odd : \A j \in Odd : i <= j
    <3>1. Odd \in SUBSET Nat
      BY <1>0
    <3> HIDE DEF Odd
    <3> QED BY <3>1, LeastExists
  <2>2. i \in 1..M /\ g[i] \notin Seq(T) /\ f[i] \in Seq(T) /\ g[i] = IF i = 1 THEN f[i] ELSE g[i - 1] \o f[i]
    BY <1>0, <1>7
  <2>3. i # 1
    BY <2>2
  <2>4. i - 1 \in 1..M /\ i - 1 \notin Odd
    BY <1>0, <2>1, <2>2, <2>3
  <2>5. g[i - 1] \in Seq(T)
    BY <2>4
  <2> QED BY <2>2, <2>3, <2>5
<1>9. Len(f) # 0 => g[M] \in Seq(T)
  BY <1>0, <1>8, SMTT(30)
<1>10. Len(f) = 0 => FlattenSeq(f) = <<>>
  <2>1. Len(f) = 0 => f = <<>>
    OBVIOUS
  <2> QED BY <2>1 DEF FlattenSeq
<1> QED BY <1>6, <1>9, <1>10

\* What a deposit file says of a payment is a sequence.
Told(txs) ==
    /\ txs \in Seq(Range(txs))
    /\ \A k \in DOMAIN txs : txs[k].refs \in Seq(Range(txs[k].refs))

LEMMA DetailsIs ==
    ASSUME NEW txs, Told(txs)
    PROVE  Len(Details(txs)) \in Nat /\ DOMAIN Details(txs) = 1..Len(Details(txs))
<1> DEFINE f == [k \in DOMAIN txs |-> Split(txs[k])]
           T == UNION {Range(Split(txs[k])) : k \in DOMAIN txs}
<1>1. ASSUME NEW k \in DOMAIN txs PROVE Split(txs[k]) \in Seq(T)
  <2> DEFINE tx == txs[k]
  <2>1. tx.refs \in Seq(Range(tx.refs))
    BY DEF Told
  <2>2. DOMAIN tx.refs = 1..Len(tx.refs) /\ Len(tx.refs) \in Nat
    BY <2>1
  <2> DEFINE each == [i \in DOMAIN tx.refs |->
                 [numbers |-> <<tx.refs[i].number>>, amount |-> tx.refs[i].amount,
                  printed |-> tx.printed, names |-> tx.names, bg |-> tx.bg]]
             one == [numbers |-> [i \in DOMAIN tx.refs |-> tx.refs[i].number], amount |-> tx.amount,
                     printed |-> tx.printed, names |-> tx.names, bg |-> tx.bg]
  <2>3. Split(tx) = each \/ Split(tx) = <<one>>
    BY DEF Split
  <2>4. Range(Split(tx)) \subseteq T
    OBVIOUS
  <2>5. CASE Split(tx) = each
    <3>1. \A i \in 1..Len(tx.refs) : each[i] \in T
      BY <2>2, <2>4, <2>5 DEF Range
    <3>2. each = [i \in 1..Len(tx.refs) |-> each[i]]
      BY <2>2
    <3> HIDE DEF each, T, tx
    <3>3. each \in Seq(T)
      BY <2>2, <3>1, <3>2, SMTT(30)
    <3> QED BY <2>5, <3>3 DEF tx
  <2>6. CASE Split(tx) = <<one>>
    <3>1. DOMAIN <<one>> = 1..1 /\ <<one>>[1] = one
      OBVIOUS
    <3>2. one \in T
      <4> HIDE DEF one, T, tx
      <4> QED BY <2>4, <2>6, <3>1 DEF Range
    <3> HIDE DEF one, T, tx
    <3> QED BY <2>6, <3>2 DEF tx
  <2> QED BY <2>3, <2>5, <2>6
<1>2. f \in Seq(Seq(T))
  <2>1. DOMAIN txs = 1..Len(txs) /\ Len(txs) \in Nat
    BY DEF Told
  <2> HIDE DEF T
  <2> QED BY <1>1, <2>1
<1>3. Details(txs) \in Seq(T)
  <2> HIDE DEF T
  <2> QED BY <1>2, FlatIs DEF Details
<1> HIDE DEF T
<1> QED BY <1>3

\* Each invoice proposed is one of those matched, open and at a place of its own.
LEMMA ProposedIs ==
    ASSUME NEW n \in Nat, NEW match, DOMAIN match = 1..n
    PROVE  /\ Proposed(match) \in Seq(Range(match) \ {NoInvoice})
           /\ \A k \in DOMAIN Proposed(match) : residual[Proposed(match)[k]] > 0
<1> DEFINE First(k) == match[k] # NoInvoice /\ residual[match[k]] > 0 /\ \A j \in 1..(k - 1) : match[j] # match[k]
           F == {j \in DOMAIN match : First(j)}
           c == Cardinality(F)
           At(k) == CHOOSE j \in DOMAIN match : First(j) /\ Cardinality({h \in 1..j : First(h)}) = k
<1>1. Proposed(match) = [k \in 1..c |-> match[At(k)]]
  BY DEF Proposed
<1>2. F \in SUBSET (1..n) /\ c \in Nat
  <2>1. F \in SUBSET (1..n)
    OBVIOUS
  <2>2. IsFiniteSet(1..n)
    BY FS_Interval
  <2> HIDE DEF F
  <2> QED BY <2>1, <2>2, FS_Subset, FS_CardinalityType
<1>3. ASSUME NEW k \in 1..c PROVE At(k) \in F
  <2>1. PICK j \in F : Cardinality({h \in 1..j : h \in F}) = k
    <3> HIDE DEF F
    <3> QED BY <1>2, CountedPlace
  <2>2. {h \in 1..j : h \in F} = {h \in 1..j : First(h)}
    <3>1. 1..j \subseteq DOMAIN match
      OBVIOUS
    <3> HIDE DEF First
    <3> QED BY <3>1
  <2>3. j \in DOMAIN match /\ First(j) /\ Cardinality({h \in 1..j : First(h)}) = k
    BY <2>1, <2>2
  <2> HIDE DEF First
  <2> QED BY <2>3
<1>4. ASSUME NEW k \in 1..c PROVE match[At(k)] \in Range(match) \ {NoInvoice} /\ residual[match[At(k)]] > 0
  <2> DEFINE j == At(k)
  <2>1. j \in F
    BY <1>3
  <2> HIDE DEF j
  <2>2. match[j] \in Range(match) \ {NoInvoice} /\ residual[match[j]] > 0
    BY <2>1 DEF Range
  <2> QED BY <2>2 DEF j
<1> HIDE DEF At, c
<1> QED BY <1>1, <1>2, <1>4

-----------------------------------------------------------------------------
(* The invoice of a detail *)

LEMMA FirstHitIs ==
    ASSUME NEW n \in Nat, NEW found, DOMAIN found = 1..n, NEW S, \A k \in 1..n : found[k] \subseteq S
    PROVE  FirstHit(found) \subseteq S
<1> DEFINE hits == {k \in DOMAIN found : found[k] # {}}
<1>1. hits # {} => Min(hits) \in hits
  <2> SUFFICES ASSUME hits # {} PROVE Min(hits) \in hits
    OBVIOUS
  <2>1. hits \in SUBSET Nat
    OBVIOUS
  <2> HIDE DEF hits
  <2>2. \E k \in hits : \A m \in hits : k <= m
    BY <2>1, LeastExists
  <2> QED BY <2>2 DEF Min
<1>2. hits # {} => found[Min(hits)] \subseteq S
  BY <1>1
<1>3. FirstHit(found) = IF hits = {} THEN {} ELSE found[Min(hits)]
  BY DEF FirstHit
<1> HIDE DEF hits
<1> QED BY <1>2, <1>3

LEMMA CandidatesAre ==
    ASSUME NEW d
    PROVE  \E n \in Nat : DOMAIN Candidates(d) = 1..n
<1> DEFINE n == d.numbers[1]
           tail == 10^(Width(n) - 4)
           short == Mod10Ok(n)
           year == n \div tail
           seq == IF short THEN (n % tail) \div 10 ELSE n % tail
           long == (Width(n) - 4 - (IF short THEN 1 ELSE 0)) \in {3, 4} \/ seq >= 100
           last == [number |-> seq, year |-> year, whole |-> long]
           three == [k \in 1..3 |-> [number |-> n \div 10^(k - 1), year |-> 0, whole |-> FALSE]]
           T == {three[1], three[2], three[3]}
<1>1. Candidates(d) = <<>> \/ Candidates(d) = three \o <<>> \/ Candidates(d) = three \o <<last>>
  <2> DEFINE whole == Width(n) > 5 /\ year \in 2000..2099
             more == IF whole THEN <<last>> ELSE <<>>
  <2>1. Candidates(d) = IF Len(d.numbers) # 1 THEN <<>> ELSE three \o more
    BY DEF Candidates
  <2> HIDE DEF three, last, year, n, whole
  <2>2. CASE whole
    <3>1. more = <<last>>
      BY <2>2
    <3> HIDE DEF more
    <3> QED BY <2>1, <3>1, Zenon
  <2>3. CASE ~whole
    <3>1. more = <<>>
      BY <2>3
    <3> HIDE DEF more
    <3> QED BY <2>1, <3>1, Zenon
  <2> QED BY <2>2, <2>3
<1>2. three \in Seq(T) /\ Len(three) = 3
  <2>1. \A k \in 1..3 : three[k] \in T
    <3>1. \A k \in 1..3 : k = 1 \/ k = 2 \/ k = 3
      OBVIOUS
    <3> HIDE DEF three
    <3> QED BY <3>1
  <2>2. three = [k \in 1..3 |-> three[k]]
    OBVIOUS
  <2> HIDE DEF three, T
  <2> QED BY <2>1, <2>2
<1> HIDE DEF three, T, last
<1>3. DOMAIN (three \o <<>>) = 1..3
  BY <1>2
<1>4. ASSUME NEW x PROVE DOMAIN (three \o <<x>>) = 1..4
  <2>1. three \in Seq(T \cup {x}) /\ <<x>> \in Seq(T \cup {x}) /\ Len(<<x>>) = 1
    BY <1>2
  <2> DEFINE U == T \cup {x}
             s == <<x>>
  <2> HIDE DEF s, U
  <2>3. three \in Seq(U) /\ s \in Seq(U) /\ Len(s) = 1
    BY <2>1 DEF s, U
  <2>4. three \o s \in Seq(U) /\ Len(three \o s) = Len(three) + Len(s)
    BY <2>3, ConcatProperties
  <2>2. Len(three \o s) = 4 /\ three \o s \in Seq(U)
    BY <1>2, <2>3, <2>4
  <2> QED BY <2>2 DEF s
<1>5. DOMAIN <<>> = 1..0
  OBVIOUS
<1> QED BY <1>1, <1>3, <1>4, <1>5

\* An invoice found is one of the index.
LEMMA FindIs ==
    ASSUME NEW company, NEW d, NEW index, NEW left
    PROVE  FindInvoice(company, d, index, left) \subseteq index \cup {NoInvoice}
<1> DEFINE rules == <<ByName(d, index, left), Printed(d, index), ByCandidates(d, index), ByAmount(d, index, left)>>
           found == FirstHit(rules)
<1>1. ByCandidates(d, index) \subseteq index
  <2> DEFINE fits == [k \in DOMAIN Candidates(d) |-> Fitting(Candidates(d)[k], index)]
  <2>1. PICK n \in Nat : DOMAIN Candidates(d) = 1..n
    BY CandidatesAre
  <2>2. ASSUME NEW k \in 1..n PROVE fits[k] \subseteq index
    <3>1. fits[k] = Fitting(Candidates(d)[k], index)
      BY <2>1
    <3>2. \A x : Fitting(x, index) \subseteq index
      BY DEF Fitting
    <3> QED BY <3>1, <3>2
  <2>3. DOMAIN fits = 1..n
    BY <2>1
  <2>4. ByCandidates(d, index) = FirstHit(fits)
    BY DEF ByCandidates
  <2> HIDE DEF fits
  <2> QED BY <2>2, <2>3, <2>4, FirstHitIs
<1>2. /\ ByName(d, index, left) \subseteq index /\ Printed(d, index) \subseteq index
      /\ ByAmount(d, index, left) \subseteq index /\ Exact(d, index) \subseteq index
  BY DEF ByName, Printed, ByAmount, Exact
<1>3. found \subseteq index
  <2>1. DOMAIN rules = 1..4
    OBVIOUS
  <2>2. \A k \in 1..4 : rules[k] \subseteq index
    <3>1. \A k \in 1..4 : k = 1 \/ k = 2 \/ k = 3 \/ k = 4
      OBVIOUS
    <3>2. rules[1] \subseteq index /\ rules[2] \subseteq index /\ rules[3] \subseteq index /\ rules[4] \subseteq index
      BY <1>1, <1>2
    <3> HIDE DEF rules
    <3> QED BY <3>1, <3>2
  <2> HIDE DEF rules
  <2> QED BY <2>1, <2>2, FirstHitIs
<1>4. FindInvoice(company, d, index, left) =
        IF Exact(d, index) # {} THEN Exact(d, index)
        ELSE IF SettledNamed(company, d, left) # {} \/ found = {} THEN {NoInvoice} ELSE found
  BY DEF FindInvoice
<1> HIDE DEF found
<1> QED BY <1>2, <1>3, <1>4

-----------------------------------------------------------------------------
(* The inductive invariant *)

LineFields ==
    {"company", "channel", "n", "day", "amount", "text", "id", "told", "partner", "note", "match",
     "proposal", "reconciled"}

\* A line that has been settled.
Done(l) == [l EXCEPT !.reconciled = TRUE, !.proposal = {}]

\* The bank's books are sequences of payments, numbered.
BookOK ==
    /\ today \in Nat
    /\ DOMAIN book = Companies
    /\ \A c \in Companies :
          /\ book[c] \in Seq(Range(book[c]))
          /\ \A n \in DOMAIN book[c] :
                /\ book[c][n].n = n /\ book[c][n].day \in Nat /\ book[c][n].amount \in Int
                /\ Told(book[c][n].txs)

\* What a run has looked up are invoices of the company it looked in.
WizardOK ==
    /\ DOMAIN wizard = {"open", "selected", "index"}
    /\ \A c \in DOMAIN wizard.index : wizard.index[c] \subseteq Scope(c)

\* The day a channel gives a payment.
DayOf(c, channel, n) == IF channel = "feed" THEN FeedDay(c, n) ELSE book[c][n].day

\* A line is of a payment of the bank's books; the feed's ids are its own.
PaymentOK(l) ==
    /\ l.n \in DOMAIN book[l.company]
    /\ l.amount = book[l.company][l.n].amount
    /\ l.day = DayOf(l.company, l.channel, l.n)
    /\ l.channel = "feed" => l.id = <<l.n>>

\* What OwnCompany says of a line.
Own(l) ==
    /\ (l.note # NoDeposit /\ Receiver[l.note.company] \in Registered) => l.company = l.note.company
    /\ \A i \in (Range(l.match) \ {NoInvoice}) \cup l.proposal : Invoice[i].company = l.company

LineOK(l) ==
    /\ DOMAIN l = LineFields /\ l.company \in Companies /\ l.channel \in {"feed", "csv"}
    /\ PaymentOK(l) /\ Own(l)

PaymentsInv == BookOK /\ WizardOK /\ \A l \in lines : LineOK(l)

LEMMA OwnIs == PaymentsInv => OwnCompany
<1>1. OwnCompany <=> \A l \in lines : Own(l)
  BY DEF OwnCompany, Own
<1> QED BY <1>1 DEF PaymentsInv, LineOK

LEMMA PaymentsInit == Init => PaymentsInv
<1> SUFFICES ASSUME Init PROVE PaymentsInv
  OBVIOUS
<1>1. BookOK
  <2>1. \A c \in Companies : book[c] = <<>>
    BY DEF Init
  <2>2. <<>> \in Seq(Range(<<>>)) /\ DOMAIN <<>> = {}
    OBVIOUS
  <2> QED BY <2>1, <2>2 DEF Init, BookOK
<1>2. WizardOK
  BY DEF Init, NoRun, WizardOK
<1> QED BY <1>1, <1>2 DEF Init, PaymentsInv

-----------------------------------------------------------------------------
(* Steps *)

\* What the bank has booked stays.
BookStays ==
    \A c \in Companies : \A n \in DOMAIN book[c] : n \in DOMAIN book'[c] /\ book'[c][n] = book[c][n]

LEMMA SameBook == ASSUME book' = book PROVE BookStays
BY DEF BookStays

LEMMA LineStays ==
    ASSUME NEW l, LineOK(l), BookStays
    PROVE  LineOK(l)'
BY DEF LineOK, PaymentOK, DayOf, FeedDay, Own, BookStays

LEMMA DoneIs ==
    ASSUME NEW l, LineOK(l)
    PROVE  /\ LineOK(Done(l))
           /\ Done(l).company = l.company /\ Done(l).channel = l.channel /\ Done(l).id = l.id
           /\ Done(l).n = l.n /\ Done(l).told = l.told /\ Done(l).note = l.note
           /\ Done(l).amount = l.amount /\ Done(l).reconciled = TRUE
<1>1. /\ DOMAIN Done(l) = LineFields /\ Done(l).proposal = {} /\ Done(l).match = l.match
      /\ Done(l).day = l.day
      /\ Done(l).company = l.company /\ Done(l).channel = l.channel /\ Done(l).id = l.id
      /\ Done(l).n = l.n /\ Done(l).told = l.told /\ Done(l).note = l.note
      /\ Done(l).amount = l.amount /\ Done(l).reconciled = TRUE
  BY DEF Done, LineOK, LineFields
<1>2. PaymentOK(Done(l))
  BY <1>1 DEF PaymentOK, LineOK
<1>3. Own(Done(l))
  BY <1>1 DEF Own, LineOK
<1> QED BY <1>1, <1>2, <1>3 DEF LineOK

LEMMA AppendedIs ==
    ASSUME NEW s, s \in Seq(Range(s)), NEW x
    PROVE  /\ Append(s, x) \in Seq(Range(Append(s, x)))
           /\ DOMAIN Append(s, x) = DOMAIN s \cup {Len(s) + 1} /\ Len(s) \in Nat
           /\ Append(s, x)[Len(s) + 1] = x
           /\ \A n \in DOMAIN s : n # Len(s) + 1 /\ Append(s, x)[n] = s[n]
<1> DEFINE T == Range(s) \cup {x}
           a == Append(s, x)
<1>1. s \in Seq(T) /\ x \in T
  BY DEF Range
<1>2. a \in Seq(T) /\ Len(a) = Len(s) + 1 /\ a[Len(s) + 1] = x /\ \A n \in 1..Len(s) : a[n] = s[n]
  <2> HIDE DEF T
  <2> QED BY <1>1, AppendProperties
<1>3. Len(s) \in Nat /\ DOMAIN s = 1..Len(s)
  OBVIOUS
<1> HIDE DEF a, T
<1>4. DOMAIN a = 1..(Len(s) + 1)
  BY <1>2, <1>3
<1>5. a \in Seq(Range(a))
  <2>1. \A n \in 1..(Len(s) + 1) : a[n] \in Range(a)
    BY <1>4 DEF Range
  <2> QED BY <1>2, <1>3, <1>4, <2>1
<1> QED BY <1>2, <1>3, <1>4, <1>5 DEF a

LEMMA BookStep ==
    ASSUME BookOK, NEW c \in Companies, NEW kind \in Kinds[c], Book(c, kind)
    PROVE  BookOK' /\ BookStays
<1> DEFINE p == [n |-> Len(book[c]) + 1, day |-> today, amount |-> kind.amount, text |-> kind.text,
                 txs |-> kind.txs,
                 saldo |-> IF kind.text \in BareTexts THEN NoSaldo ELSE Balance(c) + kind.amount]
<1>1. book' = [book EXCEPT ![c] = Append(book[c], p)] /\ today' = today
  BY DEF Book
<1>2. p.n = Len(book[c]) + 1 /\ p.day = today /\ p.amount = kind.amount /\ p.txs = kind.txs
  OBVIOUS
<1> HIDE DEF p
<1>3. p.day \in Nat /\ p.amount \in Int /\ Told(p.txs)
  BY <1>2, PaymentsAssumption DEF BookOK, Told
<1>4. book[c] \in Seq(Range(book[c]))
  BY DEF BookOK
<1>5. /\ book'[c] \in Seq(Range(book'[c]))
      /\ DOMAIN book'[c] = DOMAIN book[c] \cup {Len(book[c]) + 1} /\ Len(book[c]) \in Nat
      /\ book'[c][Len(book[c]) + 1] = p
      /\ \A n \in DOMAIN book[c] : n # Len(book[c]) + 1 /\ book'[c][n] = book[c][n]
  <2>1. book'[c] = Append(book[c], p)
    BY <1>1 DEF BookOK
  <2> QED BY <1>4, <2>1, AppendedIs
<1>6. DOMAIN book' = Companies /\ \A k \in Companies : k # c => book'[k] = book[k]
  BY <1>1 DEF BookOK
<1>7. BookStays
  BY <1>5, <1>6 DEF BookStays
<1>8. ASSUME NEW k \in Companies
      PROVE  /\ book'[k] \in Seq(Range(book'[k]))
             /\ \A n \in DOMAIN book'[k] :
                   /\ book'[k][n].n = n /\ book'[k][n].day \in Nat /\ book'[k][n].amount \in Int
                   /\ Told(book'[k][n].txs)
  <2>1. CASE k = c
    BY <1>2, <1>3, <1>5, <2>1 DEF BookOK
  <2>2. CASE k # c
    BY <1>6, <2>2 DEF BookOK
  <2> QED BY <2>1, <2>2
<1> QED BY <1>1, <1>6, <1>7, <1>8 DEF BookOK

-----------------------------------------------------------------------------
(* What an export holds *)

LEMMA OnceIs == ASSUME NEW T, NEW s \in Seq(T) PROVE Once(s) = s
BY ConcatEmptySeq DEF Once

LEMMA ReverseIs ==
    ASSUME NEW T, NEW s \in Seq(T)
    PROVE  Reverse(s) \in Seq(T) /\ DOMAIN Reverse(s) = DOMAIN s
<1>1. DOMAIN s = 1..Len(s) /\ Len(s) \in Nat /\ \A i \in 1..Len(s) : s[i] \in T
  OBVIOUS
<1>2. \A i \in 1..Len(s) : (Len(s) - i) + 1 \in 1..Len(s)
  BY <1>1
<1>3. Reverse(s) = [i \in 1..Len(s) |-> s[(Len(s) - i) + 1]]
  BY DEF Reverse
<1> QED BY <1>1, <1>2, <1>3

\* A file has rows of payments the bank has booked.
LEMMA FilesAre ==
    ASSUME BookOK, NEW c \in Companies, NEW file \in Files(c)
    PROVE  file \in Seq(DOMAIN book[c])
<1> DEFINE from(day) == Cardinality({n \in DOMAIN book[c] : book[c][n].day < day}) + 1
           exports == {[k \in 1..(made - f + 1) |-> k + f - 1] :
                          f \in {from(day) : day \in 1..today}, made \in DOMAIN book[c]} \ {<<>>}
<1>0. DOMAIN book[c] = 1..Len(book[c]) /\ Len(book[c]) \in Nat
  BY DEF BookOK
<1>1. ASSUME NEW day PROVE from(day) \in Nat /\ from(day) >= 1
  <2> DEFINE B == {n \in DOMAIN book[c] : book[c][n].day < day}
  <2>1. IsFiniteSet(1..Len(book[c])) /\ B \subseteq 1..Len(book[c])
    BY <1>0, FS_Interval
  <2> HIDE DEF B
  <2>2. Cardinality(B) \in Nat
    BY <2>1, FS_Subset, FS_CardinalityType
  <2>3. Cardinality(B) + 1 \in Nat /\ Cardinality(B) + 1 >= 1
    BY <2>2
  <2> QED BY <2>3 DEF B
<1>2. ASSUME NEW export \in exports PROVE export \in Seq(DOMAIN book[c])
  <2> HIDE DEF from
  <2>1. PICK day \in 1..today, made \in DOMAIN book[c] : export = [k \in 1..(made - from(day) + 1) |-> k + from(day) - 1]
    OBVIOUS
  <2> DEFINE f == from(day)
             m == made - f + 1
  <2>2. f \in Nat /\ f >= 1 /\ made \in 1..Len(book[c]) /\ export = [k \in 1..m |-> k + f - 1] /\ export # <<>>
    BY <1>0, <1>1, <2>1
  <2> HIDE DEF f
  <2>3. \A k \in 1..m : k + f - 1 \in 1..Len(book[c])
    BY <1>0, <2>2, SMTT(30)
  <2>4. m \in Nat
    <3> SUFFICES ASSUME m \notin Nat PROVE FALSE
      OBVIOUS
    <3>1. m \in Int /\ 1..m = {}
      BY <1>0, <2>2
    <3>2. export = <<>>
      BY <2>2, <3>1
    <3> QED BY <2>2, <3>2
  <2> HIDE DEF m
  <2> QED BY <1>0, <2>2, <2>3, <2>4
<1>4. Files(c) = exports \cup {Reverse(export) : export \in exports}
  BY DEF Files
<1> HIDE DEF exports
<1>3. file \in exports \/ \E export \in exports : file = Reverse(export)
  BY <1>4
<1> QED BY <1>2, <1>3, ReverseIs

\* Rows that share an id are told apart by their number.
LEMMA NumberedApart ==
    ASSUME NEW n \in Nat, NEW rows, DOMAIN rows = 1..n
    PROVE  /\ Once(NumberedIds(rows)) = NumberedIds(rows)
           /\ \A j, k \in 1..n : NumberedIds(rows)[j] = NumberedIds(rows)[k] => j = k
<1> DEFINE plain == [i \in DOMAIN rows |-> UniqueId(rows[i])]
           ids == Once(plain)
           Same(i) == {j \in 1..i : ids[j] = ids[i]}
           numbered == [i \in 1..n |-> <<ids[i], Cardinality(Same(i))>>]
<1>1. NumberedIds(rows) = numbered
  BY DEF NumberedIds
<1>2. numbered \in Seq({numbered[i] : i \in 1..n})
  <2> DEFINE T == {numbered[i] : i \in 1..n}
  <2>1. \A i \in 1..n : numbered[i] \in T
    OBVIOUS
  <2>2. numbered = [i \in 1..n |-> numbered[i]]
    OBVIOUS
  <2> HIDE DEF numbered, T
  <2>3. numbered \in Seq(T)
    BY <2>1, <2>2
  <2> QED BY <2>3 DEF T
<1>3. Once(numbered) = numbered
  <2> DEFINE T == {numbered[i] : i \in 1..n}
  <2> HIDE DEF T, numbered
  <2>1. numbered \in Seq(T)
    BY <1>2 DEF T
  <2> QED BY <2>1, OnceIs
<1> HIDE DEF ids
<1>4. ASSUME NEW i \in 1..n PROVE IsFiniteSet(Same(i)) /\ Cardinality(Same(i)) \in Nat
  <2>1. IsFiniteSet(1..i) /\ Same(i) \subseteq 1..i
    BY FS_Interval
  <2> HIDE DEF Same
  <2> QED BY <2>1, FS_Subset, FS_CardinalityType
<1>5. ASSUME NEW j \in 1..n, NEW k \in 1..n, j < k, ids[j] = ids[k] PROVE Cardinality(Same(j)) < Cardinality(Same(k))
  <2>1. Same(j) \cup {k} \subseteq Same(k) /\ k \notin Same(j)
    BY <1>5
  <2>2. IsFiniteSet(Same(j)) /\ IsFiniteSet(Same(k))
    BY <1>4
  <2> DEFINE A == Same(j)
             B == Same(k)
             U == A \cup {k}
  <2> HIDE DEF A, B
  <2>3. U \subseteq B /\ k \notin A /\ IsFiniteSet(A) /\ IsFiniteSet(B)
    BY <2>1, <2>2 DEF A, B
  <2>4. Cardinality(U) = Cardinality(A) + 1
    BY <2>3, FS_AddElement
  <2> HIDE DEF U
  <2>5. Cardinality(U) <= Cardinality(B) /\ Cardinality(A) \in Nat /\ Cardinality(B) \in Nat
    BY <2>3, FS_Subset, FS_CardinalityType
  <2>6. Cardinality(A) < Cardinality(B)
    BY <2>4, <2>5
  <2> QED BY <2>6 DEF A, B
<1>6. ASSUME NEW j \in 1..n, NEW k \in 1..n, numbered[j] = numbered[k] PROVE j = k
  <2> DEFINE C(i) == Cardinality(Same(i))
  <2>1. numbered[j] = <<ids[j], C(j)>> /\ numbered[k] = <<ids[k], C(k)>>
    OBVIOUS
  <2>2. C(j) \in Nat /\ C(k) \in Nat
    BY <1>4
  <2> HIDE DEF C
  <2>3. ids[j] = ids[k] /\ C(j) = C(k)
    BY <1>6, <2>1
  <2>4. ~(C(j) < C(k)) /\ ~(C(k) < C(j))
    BY <2>2, <2>3
  <2>5. ~(j < k) /\ ~(k < j)
    BY <1>5, <2>3, <2>4 DEF C
  <2> QED BY <2>5
<1> HIDE DEF numbered
<1> QED BY <1>1, <1>3, <1>6

\* The rows of a file are read each as a payment of the bank's.
LEMMA ParsedIs ==
    ASSUME BookOK, NEW c \in Companies, NEW file \in Files(c), NEW mine,
           NEW rows, rows = Once([k \in DOMAIN file |-> book[c][file[k]]])
    PROVE  \E n \in Nat : /\ DOMAIN Parsed(rows, mine) = 1..n
                          /\ \A k \in 1..n : Parsed(rows, mine)[k].row \in Range(book[c])
                          /\ \A j, k \in 1..n : Parsed(rows, mine)[j].id = Parsed(rows, mine)[k].id => j = k
<1> DEFINE picked == [k \in DOMAIN file |-> book[c][file[k]]]
           n == Len(file)
           T == Range(book[c])
           sorted == IF FileOrder(rows, mine) = "newest" THEN Once(Reverse(rows)) ELSE rows
<1>1. DOMAIN file = 1..n /\ n \in Nat /\ \A k \in 1..n : file[k] \in DOMAIN book[c]
  BY FilesAre
<1>2. picked \in Seq(T)
  <2>1. \A k \in 1..n : book[c][file[k]] \in T
    BY <1>1 DEF Range
  <2> HIDE DEF T
  <2> QED BY <1>1, <2>1
<1>3. rows \in Seq(T) /\ DOMAIN rows = 1..n
  <2>1. DOMAIN picked = 1..n
    BY <1>1
  <2> HIDE DEF picked, T, n
  <2>2. rows = picked
    BY <1>2, OnceIs DEF picked
  <2> QED BY <1>2, <2>1, <2>2
<1> HIDE DEF T, n, picked
<1>4. sorted \in Seq(T) /\ DOMAIN sorted = 1..n
  <2>1. Reverse(rows) \in Seq(T) /\ DOMAIN Reverse(rows) = 1..n
    BY <1>3, ReverseIs
  <2>2. Once(Reverse(rows)) = Reverse(rows)
    BY <2>1, OnceIs
  <2> QED BY <1>3, <2>1, <2>2
<1>5. Parsed(rows, mine) = [i \in DOMAIN rows |-> [row |-> sorted[i], id |-> Once(NumberedIds(sorted))[i]]]
  BY DEF Parsed
<1> HIDE DEF sorted
<1>6. \A i \in 1..n : sorted[i] \in T
  <2>1. sorted \in Seq(T)
    BY <1>4
  <2>2. \A i \in DOMAIN sorted : sorted[i] \in T
    BY <2>1
  <2> QED BY <1>4, <2>2
<1> DEFINE ids == Once(NumberedIds(sorted))
<1> HIDE DEF ids
<1>7. Parsed(rows, mine) = [i \in 1..n |-> [row |-> sorted[i], id |-> ids[i]]]
  BY <1>3, <1>5 DEF ids
<1>8. n \in Nat
  BY <1>1
<1>9. \A i \in 1..n : Parsed(rows, mine)[i].row = sorted[i]
  BY <1>7
<1>10. DOMAIN Parsed(rows, mine) = 1..n
  BY <1>7
<1>11. \A i \in 1..n : Parsed(rows, mine)[i].id = ids[i]
  BY <1>7
<1>12. \A j, k \in 1..n : ids[j] = ids[k] => j = k
  BY <1>4, <1>8, NumberedApart DEF ids
<1> QED BY <1>6, <1>8, <1>9, <1>10, <1>11, <1>12 DEF T

-----------------------------------------------------------------------------
(* What comes in *)

Other(channel) == IF channel = "csv" THEN "feed" ELSE "csv"

\* What a payment brought in becomes.
Read(c, channel, l) ==
    /\ DOMAIN l = LineFields /\ l.company = c /\ l.channel = channel /\ PaymentOK(l)
    /\ l.told = LooksAlike(c, Other(channel), l.day, l.amount)
    /\ l.note = NoDeposit /\ l.match = <<>> /\ l.proposal = {} /\ l.reconciled = FALSE

\* An import in the order its lines are read: books[k] is what the first k of them leave.
ImportedAs(c, channel, read, new, books) ==
    /\ \E n \in Nat :
          /\ DOMAIN read = 1..n
          /\ \A k \in 1..n : Read(c, channel, read[k])
          /\ \A j, k \in 1..n : read[j].id = read[k].id => j = k
          /\ books[0] = [lines |-> lines \cup new, residual |-> residual, partials |-> partials]
          /\ \A k \in 1..n : books[k] = Turned(books[k - 1], new, read[k])
          /\ lines' = books[n].lines /\ residual' = books[n].residual /\ partials' = books[n].partials
    /\ new \subseteq Range(read)
    /\ \A l \in new : \A m \in lines : m.company = c /\ m.channel = channel => m.id # l.id

\* Lines read, of which the new ones are taken in and settled.
TakenIn(read, new) ==
    LET db == SwishSettled([Books EXCEPT !.lines = @ \cup new], new, read)
    IN  lines' = db.lines /\ residual' = db.residual /\ partials' = db.partials

LEMMA TakenInIs ==
    ASSUME NEW c, NEW channel, NEW n \in Nat, NEW read, DOMAIN read = 1..n,
           \A k \in 1..n : Read(c, channel, read[k]),
           \A j, k \in 1..n : read[j].id = read[k].id => j = k,
           NEW new, new \subseteq Range(read),
           \A l \in new : \A m \in lines : m.company = c /\ m.channel = channel => m.id # l.id,
           TakenIn(read, new)
    PROVE  \E books : ImportedAs(c, channel, read, new, books)
<1> DEFINE start == [Books EXCEPT !.lines = @ \cup new]
           db == SwishSettled(start, new, read)
<1>1. lines' = db.lines /\ residual' = db.residual /\ partials' = db.partials
  BY DEF TakenIn
<1>2. start = [lines |-> lines \cup new, residual |-> residual, partials |-> partials]
  <2>1. \A x : [Books EXCEPT !.lines = x] = [lines |-> x, residual |-> residual, partials |-> partials]
    BY DEF Books
  <2>2. Books.lines = lines
    BY DEF Books
  <2> QED BY <2>1, <2>2
<1> HIDE DEF start
<1>3. PICK G : /\ G[0] = start /\ db = G[n]
               /\ \A i \in 1..n : G[i] = Turned(G[i - 1], new, read[i])
  BY FoldIs, SMTT(30)
<1> HIDE DEF db
<1>4. \E m \in Nat :
          /\ DOMAIN read = 1..m
          /\ \A k \in 1..m : Read(c, channel, read[k])
          /\ \A j, k \in 1..m : read[j].id = read[k].id => j = k
          /\ G[0] = [lines |-> lines \cup new, residual |-> residual, partials |-> partials]
          /\ \A k \in 1..m : G[k] = Turned(G[k - 1], new, read[k])
          /\ lines' = G[m].lines /\ residual' = G[m].residual /\ partials' = G[m].partials
  BY <1>1, <1>2, <1>3
<1>5. ImportedAs(c, channel, read, new, G)
  BY <1>4 DEF ImportedAs
<1> QED BY <1>5

\* Once leaves a sequence as it is.
LEMMA OnceOf ==
    ASSUME NEW n \in Nat, NEW each, each = [k \in 1..n |-> each[k]]
    PROVE  Once(each) = each
<1> DEFINE T == {each[k] : k \in 1..n}
<1>1. \A k \in 1..n : each[k] \in T
  OBVIOUS
<1> HIDE DEF T
<1>2. each \in Seq(T)
  BY <1>1
<1> QED BY <1>2, OnceIs

LEMMA CsvIs ==
    ASSUME BookOK, NEW c \in Companies, NEW file \in Files(c), ImportCsv(c, file)
    PROVE  \E read, new, books : ImportedAs(c, "csv", read, new, books)
<1> DEFINE rows == Once([k \in DOMAIN file |-> book[c][file[k]]])
           mine == {l \in lines : l.company = c /\ l.channel = "csv"}
           stored == {l.id : l \in mine}
           parsed == Parsed(rows, mine)
           each == [k \in DOMAIN parsed |->
                       NewLine(c, "csv", parsed[k].row.n, parsed[k].row.day, parsed[k].id,
                               LooksAlike(c, "feed", parsed[k].row.day, parsed[k].row.amount),
                               Payer(parsed[k].row.text))]
           read == Once(each)
           new == {l \in Range(read) : l.id \notin stored}
<1>1. TakenIn(read, new)
  BY DEF ImportCsv, TakenIn
<1>2. PICK n \in Nat : /\ DOMAIN parsed = 1..n
                       /\ \A k \in 1..n : parsed[k].row \in Range(book[c])
                       /\ \A j, k \in 1..n : parsed[j].id = parsed[k].id => j = k
  <2> HIDE DEF mine
  <2> QED BY ParsedIs, SMTT(30)
<1>3. new \subseteq Range(read) /\ \A l \in new : \A m \in lines : m.company = c /\ m.channel = "csv" => m.id # l.id
  <2> HIDE DEF read
  <2> QED OBVIOUS
<1> HIDE DEF rows, mine, stored, parsed
<1>4. ASSUME NEW k \in 1..n PROVE Read(c, "csv", each[k]) /\ each[k].id = parsed[k].id
  <2> DEFINE row == parsed[k].row
             alike == LooksAlike(c, "feed", row.day, row.amount)
             payer == Payer(row.text)
             l == NewLine(c, "csv", row.n, row.day, parsed[k].id, alike, payer)
  <2>1. each[k] = l
    BY <1>2
  <2>2. row \in Range(book[c])
    BY <1>2
  <2>3. PICK m \in DOMAIN book[c] : row = book[c][m]
    BY <2>2 DEF Range
  <2>4. row.n \in DOMAIN book[c] /\ row = book[c][row.n]
    BY <2>3 DEF BookOK
  <2> HIDE DEF row, alike, payer
  <2>5. /\ DOMAIN l = LineFields /\ l.company = c /\ l.channel = "csv" /\ l.n = row.n /\ l.id = parsed[k].id
        /\ l.day = row.day /\ l.amount = book[c][row.n].amount /\ l.told = alike
        /\ l.note = NoDeposit /\ l.match = <<>> /\ l.proposal = {} /\ l.reconciled = FALSE
    BY DEF NewLine, LineFields
  <2> HIDE DEF l
  <2>6. PaymentOK(l)
    BY <2>4, <2>5 DEF PaymentOK, DayOf
  <2>7. l.told = LooksAlike(c, Other("csv"), l.day, l.amount)
    BY <2>4, <2>5 DEF alike, Other
  <2>8. Read(c, "csv", l) /\ l.id = parsed[k].id
    BY <2>5, <2>6, <2>7 DEF Read
  <2> QED BY <2>1, <2>8
<1>5. read = each /\ DOMAIN each = 1..n
  <2>1. DOMAIN each = 1..n /\ each = [k \in 1..n |-> each[k]]
    BY <1>2
  <2> HIDE DEF each
  <2> QED BY <2>1, OnceOf
<1> HIDE DEF each
<1>6. \A k \in 1..n : Read(c, "csv", read[k])
  BY <1>4, <1>5
<1>7. \A j, k \in 1..n : read[j].id = read[k].id => j = k
  BY <1>2, <1>4, <1>5
<1>8. DOMAIN read = 1..n
  BY <1>5
<1> HIDE DEF read, new
<1>9. \E books : ImportedAs(c, "csv", read, new, books)
  <2>1. n \in Nat
    BY <1>2
  <2> QED BY <1>1, <1>3, <1>6, <1>7, <1>8, <2>1, TakenInIs
<1> QED BY <1>9

LEMMA FeedIs ==
    ASSUME PaymentsInv, NEW c \in Companies, Feed(c)
    PROVE  \E read, new, books : ImportedAs(c, "feed", read, new, books)
<1> DEFINE brought == {l.n : l \in {l \in lines : l.company = c /\ l.channel = "feed"}}
           left == DOMAIN book[c] \ brought
<1>1. PICK order \in SetToSeqs(left) :
          LET each == Once([k \in DOMAIN order |-> FeedLine(c, order[k])])
          IN  TakenIn(each, Range(each))
  BY DEF Feed, TakenIn
<1> DEFINE each == [k \in DOMAIN order |-> FeedLine(c, order[k])]
           read == Once(each)
           n == Cardinality(left)
<1>2. n \in Nat
  <2>1. DOMAIN book[c] = 1..Len(book[c]) /\ Len(book[c]) \in Nat
    BY DEF PaymentsInv, BookOK
  <2>2. IsFiniteSet(1..Len(book[c])) /\ left \subseteq 1..Len(book[c])
    BY <2>1, FS_Interval
  <2> HIDE DEF left
  <2> QED BY <2>2, FS_Subset, FS_CardinalityType
<1> HIDE DEF n
<1>3. order \in [1..n -> left] /\ \A j, k \in 1..n : j # k => order[j] # order[k]
  BY DEF SetToSeqs, n
<1>4. ASSUME NEW k \in 1..n
      PROVE  /\ Read(c, "feed", each[k])
             /\ each[k].id = <<order[k]>>
             /\ \A m \in lines : m.company = c /\ m.channel = "feed" => m.id # each[k].id
  <2> DEFINE p == order[k]
             alike == LooksAlike(c, "csv", FeedDay(c, p), book[c][p].amount)
             payer == SwishOwner(book[c][p].text)
             l == NewLine(c, "feed", p, FeedDay(c, p), <<p>>, alike, payer)
  <2>1. each[k] = l
    BY <1>3 DEF FeedLine
  <2>2. p \in DOMAIN book[c] /\ \A m \in lines : m.company = c /\ m.channel = "feed" => m.n # p
    BY <1>3
  <2> HIDE DEF p, alike, payer
  <2>3. /\ DOMAIN l = LineFields /\ l.company = c /\ l.channel = "feed" /\ l.n = p /\ l.id = <<p>>
        /\ l.day = FeedDay(c, p) /\ l.amount = book[c][p].amount /\ l.told = alike
        /\ l.note = NoDeposit /\ l.match = <<>> /\ l.proposal = {} /\ l.reconciled = FALSE
    BY DEF NewLine, LineFields
  <2> HIDE DEF l
  <2>4. PaymentOK(l)
    BY <2>2, <2>3 DEF PaymentOK, DayOf
  <2>5. l.told = LooksAlike(c, Other("feed"), l.day, l.amount)
    BY <2>3 DEF alike, Other
  <2>6. Read(c, "feed", l)
    BY <2>3, <2>4, <2>5 DEF Read
  <2>7. ASSUME NEW m \in lines, m.company = c, m.channel = "feed" PROVE m.id # <<p>>
    <3>1. m.id = <<m.n>>
      BY <2>7 DEF PaymentsInv, LineOK, PaymentOK
    <3> QED BY <2>2, <2>7, <3>1
  <2> QED BY <2>1, <2>3, <2>6, <2>7 DEF p
<1>5. read = each /\ DOMAIN each = 1..n
  <2>1. DOMAIN each = 1..n /\ each = [k \in 1..n |-> each[k]]
    BY <1>3
  <2> HIDE DEF each
  <2> QED BY <1>2, <2>1, OnceOf
<1>6. TakenIn(read, Range(read))
  BY <1>1
<1> HIDE DEF each
<1>7. \A k \in 1..n : Read(c, "feed", read[k])
  BY <1>4, <1>5
<1>8. ASSUME NEW j \in 1..n, NEW k \in 1..n, read[j].id = read[k].id PROVE j = k
  <2>1. <<order[j]>> = <<order[k]>>
    BY <1>4, <1>5, <1>8
  <2>2. order[j] = order[k]
    BY <2>1
  <2> QED BY <1>3, <2>2
<1>9. \A l \in Range(read) : \A m \in lines : m.company = c /\ m.channel = "feed" => m.id # l.id
  BY <1>4, <1>5 DEF Range
<1> HIDE DEF read
<1>10. \E books : ImportedAs(c, "feed", read, Range(read), books)
  <2> DEFINE new == Range(read)
  <2>1. TakenIn(read, new) /\ new \subseteq Range(read)
    BY <1>6
  <2>2. \A l \in new : \A m \in lines : m.company = c /\ m.channel = "feed" => m.id # l.id
    BY <1>9
  <2>3. DOMAIN read = 1..n /\ \A j, k \in 1..n : read[j].id = read[k].id => j = k
    BY <1>5, <1>8
  <2> HIDE DEF new
  <2>4. \E books : ImportedAs(c, "feed", read, new, books)
    BY <1>2, <1>7, <2>1, <2>2, <2>3, TakenInIs
  <2> QED BY <2>4 DEF new
<1> QED BY <1>10

\* An export, or a feed, in the order its lines are read.
LEMMA ImportIs ==
    ASSUME PaymentsInv, NEW c \in Companies,
           NEW channel, \/ channel = "csv" /\ \E file \in Files(c) : ImportCsv(c, file)
                        \/ channel = "feed" /\ Feed(c)
    PROVE  \E read, new, books : ImportedAs(c, channel, read, new, books)
BY CsvIs, FeedIs DEF PaymentsInv

LEMMA SettleLines ==
    ASSUME NEW db, NEW l, NEW invoices
    PROVE  Settle(db, l, invoices).lines = (db.lines \ {l}) \cup {Done(l)}
BY DEF Settle, Done

\* A row read leaves the other lines as they are.
LEMMA TurnedLines ==
    ASSUME NEW books, NEW new, NEW l
    PROVE  Turned(books, new, l).lines \subseteq books.lines \cup (IF l \in new THEN {Done(l)} ELSE {})
<1>1. CASE l \notin new
  BY <1>1 DEF Turned
<1>2. CASE l \in new
  <2>1. Turned(books, new, l) = SwishReconciled(books, l)
    BY <1>2 DEF Turned
  <2>2. SwishReconciled(books, l) = books \/ \E invoices : SwishReconciled(books, l) = Settle(books, l, invoices)
    BY DEF SwishReconciled
  <2> QED BY <1>2, <2>1, <2>2, SettleLines
<1> QED BY <1>1, <1>2

LEMMA ImportedLines ==
    ASSUME NEW c, NEW channel, NEW read, NEW new, NEW books, ImportedAs(c, channel, read, new, books)
    PROVE  \A l \in lines' : l \in lines \/ \E r \in new : l = r \/ l = Done(r)
<1> DEFINE All == lines \cup new \cup {Done(r) : r \in new}
<1>1. PICK n \in Nat :
          /\ books[0] = [lines |-> lines \cup new, residual |-> residual, partials |-> partials]
          /\ \A k \in 1..n : books[k] = Turned(books[k - 1], new, read[k])
          /\ lines' = books[n].lines
  BY DEF ImportedAs
<1> DEFINE Odd == {k \in 0..n : ~(books[k].lines \subseteq All)}
<1>2. Odd = {}
  <2> SUFFICES ASSUME Odd # {} PROVE FALSE
    OBVIOUS
  <2>1. PICK k \in Odd : \A j \in Odd : k <= j
    <3>1. Odd \in SUBSET Nat
      OBVIOUS
    <3> HIDE DEF Odd
    <3> QED BY <3>1, LeastExists
  <2>2. books[0].lines \subseteq All
    BY <1>1
  <2>3. k \in 1..n /\ k - 1 \in 0..n /\ k - 1 \notin Odd
    BY <2>1, <2>2
  <2>4. books[k - 1].lines \subseteq All
    BY <2>3
  <2>5. books[k].lines \subseteq books[k - 1].lines \cup (IF read[k] \in new THEN {Done(read[k])} ELSE {})
    BY <1>1, <2>3, TurnedLines
  <2>6. books[k].lines \subseteq All
    <3>1. CASE read[k] \in new
      BY <2>4, <2>5, <3>1
    <3>2. CASE read[k] \notin new
      BY <2>4, <2>5, <3>2
    <3> QED BY <3>1, <3>2
  <2> QED BY <2>1, <2>6
<1>3. lines' \subseteq All
  BY <1>1, <1>2
<1> QED BY <1>3

\* A line brought in is as the bank booked it, and told of when the other channel has the like of it.
Imported(c, channel, l) ==
    /\ LineOK(l) /\ l.company = c /\ l.channel = channel
    /\ l.told = LooksAlike(c, Other(channel), l.day, l.amount)

LEMMA ImportStep ==
    ASSUME NEW c \in Companies, NEW channel \in {"feed", "csv"},
           NEW read, NEW new, NEW books, ImportedAs(c, channel, read, new, books)
    PROVE  \A l \in lines' : l \in lines \/ (Imported(c, channel, l) /\ l.note = NoDeposit)
<1>1. ASSUME NEW r \in new PROVE Imported(c, channel, r) /\ r.note = NoDeposit
  <2>1. Read(c, channel, r)
    BY DEF ImportedAs, Range
  <2>2. Range(<<>>) = {}
    BY DEF Range
  <2>3. Own(r)
    BY <2>1, <2>2 DEF Own, Read
  <2>4. LineOK(r)
    BY <2>1, <2>3 DEF LineOK, Read
  <2> QED BY <2>1, <2>4 DEF Imported, Read
<1>2. ASSUME NEW r \in new PROVE Imported(c, channel, Done(r)) /\ Done(r).note = NoDeposit
  <2>1. LineOK(r)
    BY <1>1 DEF Imported
  <2>2. Done(r).day = r.day
    BY <2>1 DEF Done, LineOK, LineFields
  <2> QED BY <1>1, <2>1, <2>2, DoneIs DEF Imported
<1> QED BY <1>1, <1>2, ImportedLines

-----------------------------------------------------------------------------
(* A deposit *)

\* The line q is l with what the deposit tells.
Noted(l, q, deposit, match) ==
    /\ DOMAIN q = LineFields
    /\ q.company = l.company /\ q.channel = l.channel /\ q.n = l.n /\ q.day = l.day
    /\ q.amount = l.amount /\ q.id = l.id /\ q.told = l.told /\ q.reconciled = l.reconciled
    /\ q.note = deposit /\ q.match = match
    /\ q.proposal = l.proposal \/ q.proposal = Range(Proposed(match))

\* The books with q for l.
With(l, q) == [lines |-> (lines \ {l}) \cup {q}, residual |-> residual, partials |-> partials]

LEMMA EnrichIs ==
    ASSUME NEW l, DOMAIN l = LineFields, NEW deposit, NEW details, NEW match, Enrich(l, deposit, details, match)
    PROVE  \E q : /\ Noted(l, q, deposit, match)
                  /\ \E after \in {With(l, q)} \cup (IF l.reconciled THEN {} ELSE {Settle(With(l, q), q, Proposed(match))}) :
                        lines' = after.lines /\ residual' = after.residual /\ partials' = after.partials
<1> DEFINE c == l.company
           payers == {PayerOf(c, details[k], match[k], residual) : k \in DOMAIN details} \ {NoPayer}
           payer == IF Cardinality(payers) = 1 THEN CHOOSE p \in payers : TRUE ELSE l.partner
           noted == [l EXCEPT !.partner = payer, !.note = deposit, !.match = match]
           invoices == Proposed(match)
           proposed == IF invoices = <<>> \/ ~Proposable(l) THEN noted
                       ELSE [noted EXCEPT !.proposal = Range(invoices)]
           db == [Books EXCEPT !.lines = (@ \ {l}) \cup {proposed}]
           goes(balanced) == /\ Proposable(l) /\ c \in Automatic /\ invoices # <<>>
                             /\ balanced /\ Len(invoices) = Len(details)
           after(balanced) == IF goes(balanced) THEN Settle(db, proposed, invoices) ELSE db
<1>1. PICK balanced \in Balances(l, invoices) :
          lines' = after(balanced).lines /\ residual' = after(balanced).residual /\ partials' = after(balanced).partials
  BY DEF Enrich
<1>2. Noted(l, noted, deposit, match)
  <2> HIDE DEF payer
  <2> QED BY DEF Noted, LineFields
<1>3. [noted EXCEPT !.proposal = Range(invoices)] \in {q \in {[noted EXCEPT !.proposal = Range(invoices)]} : Noted(l, q, deposit, match)}
  <2> DEFINE r == Range(invoices)
             q == [noted EXCEPT !.proposal = r]
  <2>1. /\ DOMAIN noted = LineFields /\ noted.company = l.company /\ noted.channel = l.channel /\ noted.n = l.n
        /\ noted.day = l.day /\ noted.amount = l.amount /\ noted.id = l.id /\ noted.told = l.told
        /\ noted.reconciled = l.reconciled /\ noted.note = deposit /\ noted.match = match
    BY <1>2 DEF Noted
  <2> HIDE DEF r, noted
  <2>2. /\ DOMAIN q = LineFields /\ q.company = l.company /\ q.channel = l.channel /\ q.n = l.n
        /\ q.day = l.day /\ q.amount = l.amount /\ q.id = l.id /\ q.told = l.told
        /\ q.reconciled = l.reconciled /\ q.note = deposit /\ q.match = match /\ q.proposal = r
    BY <2>1 DEF LineFields
  <2> HIDE DEF q
  <2>3. Noted(l, q, deposit, match)
    BY <2>2 DEF Noted, r
  <2> QED BY <2>3 DEF q, r
<1>4. Noted(l, proposed, deposit, match)
  <2> HIDE DEF noted
  <2>1. CASE invoices = <<>> \/ ~Proposable(l)
    BY <1>2, <2>1
  <2>2. CASE ~(invoices = <<>> \/ ~Proposable(l))
    BY <1>3, <2>2
  <2> QED BY <2>1, <2>2
<1> HIDE DEF proposed
<1>5. db = With(l, proposed)
  <2>1. \A x : [Books EXCEPT !.lines = x] = [lines |-> x, residual |-> residual, partials |-> partials]
    BY DEF Books
  <2>2. Books.lines = lines
    BY DEF Books
  <2> QED BY <2>1, <2>2 DEF With
<1> HIDE DEF db, invoices
<1>6. after(balanced) \in {With(l, proposed)} \cup (IF l.reconciled THEN {} ELSE {Settle(With(l, proposed), proposed, invoices)})
  <2>1. CASE goes(balanced)
    <3>1. ~l.reconciled /\ after(balanced) = Settle(db, proposed, invoices)
      BY <2>1 DEF Proposable
    <3> HIDE DEF after
    <3> QED BY <1>5, <3>1
  <2>2. CASE ~goes(balanced)
    <3>1. after(balanced) = db
      BY <2>2
    <3> HIDE DEF after
    <3> QED BY <1>5, <3>1
  <2> QED BY <2>1, <2>2
<1> HIDE DEF after
<1>7. \E a \in {With(l, proposed)} \cup (IF l.reconciled THEN {} ELSE {Settle(With(l, proposed), proposed, invoices)}) :
          lines' = a.lines /\ residual' = a.residual /\ partials' = a.partials
  BY <1>1, <1>6
<1> QED BY <1>4, <1>7 DEF invoices

\* The n-th payment of c is a deposit noted on l, with invoices of the line's company that the
\* run finds for its details.
DepositOn(c, n, run, l, q, match) ==
    LET details == Details(book[c][n].txs)
    IN  /\ l \in lines /\ LineOK(q)
        /\ Noted(l, q, [company |-> c, n |-> n], match)
        /\ DOMAIN match = DOMAIN details /\ \E m \in Nat : DOMAIN match = 1..m
        /\ Range(match) \subseteq Invoices \cup {NoInvoice}
        /\ \A k \in DOMAIN details :
              match[k] \in FindInvoice(l.company, details[k], Index(run, l.company), residual)
        /\ Index(run, l.company) \subseteq Scope(l.company)
        /\ wizard'.index = [x \in DOMAIN run.index \cup {l.company} |-> Index(run, x)]
        /\ \E after \in {With(l, q)} \cup (IF l.reconciled THEN {} ELSE {Settle(With(l, q), q, Proposed(match))}) :
              lines' = after.lines /\ residual' = after.residual /\ partials' = after.partials

LEMMA DepositIs ==
    ASSUME PaymentsInv, NEW c \in Companies, NEW n \in DOMAIN book[c], NEW selected,
           ImportDeposit(c, n, selected)
    PROVE  (\E l, q, match : DepositOn(c, n, Run(selected), l, q, match)) /\ WizardOK'
<1> DEFINE p == book[c][n]
           run == Run(selected)
           details == Details(p.txs)
           deposit == [company |-> c, n |-> n]
<1>1. PICK l \in StatementLines(run, p, Receiver[c]) :
          /\ wizard' = [run EXCEPT !.index = [x \in DOMAIN run.index \cup {l.company} |-> Index(run, x)]]
          /\ \E match \in [DOMAIN details -> Invoices \cup {NoInvoice}] :
                /\ \A k \in DOMAIN details :
                      match[k] \in FindInvoice(l.company, details[k], Index(run, l.company), residual)
                /\ Enrich(l, deposit, details, match)
  BY DEF ImportDeposit
<1> DEFINE index == Index(run, l.company)
<1>2. PICK match \in [DOMAIN details -> Invoices \cup {NoInvoice}] :
          /\ \A k \in DOMAIN details : match[k] \in FindInvoice(l.company, details[k], index, residual)
          /\ Enrich(l, deposit, details, match)
  BY <1>1
<1>3. DOMAIN run = {"open", "selected", "index"} /\ \A x \in DOMAIN run.index : run.index[x] \subseteq Scope(x)
  BY DEF PaymentsInv, WizardOK, Run
<1>4. index \subseteq Scope(l.company)
  BY <1>3 DEF Index
<1>5. WizardOK' /\ wizard'.index = [x \in DOMAIN run.index \cup {l.company} |-> Index(run, x)]
  <2> DEFINE known == [x \in DOMAIN run.index \cup {l.company} |-> Index(run, x)]
  <2>1. wizard' = [run EXCEPT !.index = known]
    BY <1>1
  <2>2. \A x \in DOMAIN known : known[x] \subseteq Scope(x)
    <3>1. \A x : Index(run, x) \subseteq Scope(x)
      BY <1>3 DEF Index
    <3> HIDE DEF run
    <3> QED BY <3>1
  <2> HIDE DEF known, run, index
  <2>3. DOMAIN wizard' = {"open", "selected", "index"} /\ wizard'.index = known
    BY <1>3, <2>1
  <2>4. WizardOK'
    BY <2>2, <2>3 DEF WizardOK, Scope, OfCompany
  <2> QED BY <2>3, <2>4 DEF known
<1>6. l \in lines /\ l.company \in Searched(run, Receiver[c])
  BY DEF StatementLines
<1>7. LineOK(l)
  BY <1>6 DEF PaymentsInv
<1>8. PICK q : /\ Noted(l, q, deposit, match)
               /\ \E after \in {With(l, q)} \cup (IF l.reconciled THEN {} ELSE {Settle(With(l, q), q, Proposed(match))}) :
                     lines' = after.lines /\ residual' = after.residual /\ partials' = after.partials
  <2>1. DOMAIN l = LineFields
    BY <1>7 DEF LineOK
  <2> QED BY <1>2, <2>1, EnrichIs
<1>9. PICK m \in Nat : DOMAIN match = 1..m
  <2>1. Told(p.txs)
    BY DEF PaymentsInv, BookOK
  <2>2. DOMAIN details = 1..Len(details) /\ Len(details) \in Nat
    <3> HIDE DEF p
    <3> QED BY <2>1, DetailsIs
  <2> HIDE DEF details
  <2> QED BY <2>2
<1>10. \A i \in Range(match) \ {NoInvoice} : Invoice[i].company = l.company
  <2> SUFFICES ASSUME NEW i \in Range(match), i # NoInvoice PROVE Invoice[i].company = l.company
    OBVIOUS
  <2>1. PICK k \in DOMAIN match : i = match[k]
    BY DEF Range
  <2> HIDE DEF index, details
  <2>2. i \in FindInvoice(l.company, details[k], index, residual)
    BY <1>2, <2>1
  <2>3. i \in index
    BY <2>2, FindIs
  <2> QED BY <1>4, <2>3 DEF Scope, OfCompany
<1>11. Range(Proposed(match)) \subseteq Range(match) \ {NoInvoice}
  <2> DEFINE s == Proposed(match)
             T == Range(match) \ {NoInvoice}
  <2>1. s \in Seq(T)
    BY <1>9, ProposedIs
  <2> HIDE DEF s, T
  <2>2. \A k \in DOMAIN s : s[k] \in T
    BY <2>1
  <2>3. Range(s) \subseteq T
    BY <2>2 DEF Range
  <2> QED BY <2>3 DEF s, T
<1>12. Receiver[c] \in Registered => l.company = c
  BY <1>6, PaymentsAssumption DEF Searched
<1>13. Own(q)
  <2>1. deposit.company = c
    OBVIOUS
  <2> HIDE DEF deposit
  <2>2. /\ q.note = deposit /\ q.match = match /\ q.company = l.company
        /\ q.proposal = l.proposal \/ q.proposal = Range(Proposed(match))
    BY <1>8 DEF Noted
  <2>3. \A i \in l.proposal : Invoice[i].company = l.company
    BY <1>7 DEF LineOK, Own
  <2>4. \A i \in q.proposal : Invoice[i].company = l.company
    BY <1>10, <1>11, <2>2, <2>3
  <2> QED BY <1>10, <1>12, <2>1, <2>2, <2>4 DEF Own
<1>14. LineOK(q)
  <2>1. /\ DOMAIN q = LineFields /\ q.company = l.company /\ q.channel = l.channel /\ q.n = l.n
        /\ q.day = l.day /\ q.amount = l.amount /\ q.id = l.id
    BY <1>8 DEF Noted
  <2> QED BY <1>7, <1>13, <2>1 DEF LineOK, PaymentOK
<1>15. DepositOn(c, n, run, l, q, match)
  <2>1. Range(match) \subseteq Invoices \cup {NoInvoice} /\ DOMAIN match = DOMAIN details
    BY DEF Range
  <2>2. \A k \in DOMAIN details : match[k] \in FindInvoice(l.company, details[k], Index(run, l.company), residual)
    BY <1>2
  <2>3. Index(run, l.company) \subseteq Scope(l.company)
    BY <1>4
  <2> HIDE DEF run, index
  <2> QED BY <1>5, <1>6, <1>8, <1>9, <1>14, <2>1, <2>2, <2>3 DEF DepositOn
<1> QED BY <1>5, <1>15

\* What a step leaves in the journal.
LEMMA DepositStep ==
    ASSUME PaymentsInv, NEW c \in Companies, NEW n \in DOMAIN book[c], NEW selected,
           ImportDeposit(c, n, selected)
    PROVE  \A e \in lines' : e \in lines \/ (LineOK(e) /\ \E l \in lines : Key(e) = Key(l))
<1>1. PICK l, q, match : DepositOn(c, n, Run(selected), l, q, match)
  BY DepositIs
<1>2. l \in lines /\ LineOK(q) /\ Key(q) = Key(l)
  BY <1>1 DEF DepositOn, Noted, Key
<1>3. LineOK(Done(q)) /\ Key(Done(q)) = Key(q)
  BY <1>2, DoneIs DEF Key
<1>4. With(l, q).lines = (lines \ {l}) \cup {q}
  BY DEF With
<1>5. Settle(With(l, q), q, Proposed(match)).lines \subseteq lines \cup {q, Done(q)}
  BY <1>4, SettleLines
<1>6. lines' = With(l, q).lines \/ lines' = Settle(With(l, q), q, Proposed(match)).lines
  <2> DEFINE a == With(l, q)
             b == Settle(With(l, q), q, Proposed(match))
  <2>1. \E after \in {a} \cup (IF l.reconciled THEN {} ELSE {b}) : lines' = after.lines
    BY <1>1 DEF DepositOn
  <2> HIDE DEF a, b
  <2>2. lines' = a.lines \/ lines' = b.lines
    BY <2>1
  <2> QED BY <2>2 DEF a, b
<1>7. lines' \subseteq lines \cup {q, Done(q)}
  BY <1>4, <1>5, <1>6
<1> QED BY <1>2, <1>3, <1>7

LEMMA PaymentsStep == PaymentsInv /\ [Next]_vars => PaymentsInv'
<1> SUFFICES ASSUME PaymentsInv, [Next]_vars PROVE PaymentsInv'
  OBVIOUS
<1>1. ASSUME NEW c \in Companies, NEW kind \in Kinds[c], Book(c, kind) PROVE PaymentsInv'
  <2>1. BookOK' /\ BookStays
    BY <1>1, BookStep DEF PaymentsInv
  <2>2. lines' = lines /\ wizard' = wizard
    BY <1>1 DEF Book
  <2>3. \A l \in lines' : LineOK(l)'
    BY <2>1, <2>2, LineStays DEF PaymentsInv
  <2>4. WizardOK'
    BY <2>2 DEF PaymentsInv, WizardOK, Scope, OfCompany
  <2> QED BY <2>1, <2>3, <2>4 DEF PaymentsInv
<1>2. ASSUME book' = book, today' = today, WizardOK', \A l \in lines' : LineOK(l) PROVE PaymentsInv'
  <2>1. BookOK'
    BY <1>2 DEF PaymentsInv, BookOK, Told
  <2>2. \A l \in lines' : LineOK(l)'
    BY <1>2, SameBook, LineStays
  <2> QED BY <1>2, <2>1, <2>2 DEF PaymentsInv
<1>3. wizard' = wizard => WizardOK'
  BY DEF PaymentsInv, WizardOK, Scope, OfCompany
<1>4. \A l \in lines : LineOK(l)
  BY DEF PaymentsInv
<1>5. CASE NextDay
  <2>1. today' = today + 1 /\ book' = book /\ lines' = lines /\ wizard' = wizard
    BY <1>5 DEF NextDay
  <2>2. BookOK'
    BY <2>1 DEF PaymentsInv, BookOK, Told
  <2>3. \A l \in lines' : LineOK(l)'
    BY <1>4, <2>1, SameBook, LineStays
  <2> QED BY <1>3, <2>1, <2>2, <2>3 DEF PaymentsInv
<1>6. ASSUME NEW i \in Invoices, Credit(i) PROVE PaymentsInv'
  BY <1>2, <1>3, <1>4, <1>6 DEF Credit
<1>7. ASSUME NEW c \in FeedCompanies, Feed(c) PROVE PaymentsInv'
  <2>1. c \in Companies
    BY PaymentsAssumption
  <2>2. PICK read, new, books : ImportedAs(c, "feed", read, new, books)
    BY <1>7, <2>1, ImportIs
  <2>3. \A l \in lines' : LineOK(l)
    BY <1>4, <2>1, <2>2, ImportStep DEF Imported
  <2>4. book' = book /\ today' = today /\ wizard' = wizard
    BY <1>7 DEF Feed
  <2> QED BY <1>2, <1>3, <2>3, <2>4
<1>8. ASSUME NEW c \in CsvCompanies, NEW file \in Files(c), ImportCsv(c, file) PROVE PaymentsInv'
  <2>1. c \in Companies
    BY PaymentsAssumption
  <2>2. PICK read, new, books : ImportedAs(c, "csv", read, new, books)
    BY <1>8, <2>1, ImportIs
  <2>3. \A l \in lines' : LineOK(l)
    BY <1>4, <2>1, <2>2, ImportStep DEF Imported
  <2>4. book' = book /\ today' = today /\ wizard' = wizard
    BY <1>8 DEF ImportCsv
  <2> QED BY <1>2, <1>3, <2>3, <2>4
<1>9. ASSUME NEW c \in Companies, NEW n \in DOMAIN book[c], NEW selected, ImportDeposit(c, n, selected)
      PROVE  PaymentsInv'
  <2>1. \A l \in lines' : LineOK(l)
    BY <1>4, <1>9, DepositStep
  <2>2. book' = book /\ today' = today
    BY <1>9 DEF ImportDeposit
  <2>3. WizardOK'
    BY <1>9, DepositIs
  <2> QED BY <1>2, <2>1, <2>2, <2>3
<1>10. CASE EndRun
  <2>1. WizardOK'
    BY <1>10 DEF EndRun, WizardOK, NoRun
  <2> QED BY <1>2, <1>4, <1>10, <2>1 DEF EndRun
<1>11. CASE UNCHANGED vars
  BY <1>2, <1>3, <1>4, <1>11 DEF vars
<1> QED BY <1>1, <1>5, <1>6, <1>7, <1>8, <1>9, <1>10, <1>11 DEF Next

-----------------------------------------------------------------------------
(* Sums *)

Picked(s) == CHOOSE x \in s : TRUE

\* f sums what fee says, over the subsets of S.
Sums(f, fee, S) ==
    f = [s \in SUBSET S |-> IF s = {} THEN 0 ELSE fee[Picked(s)] + f[s \ {Picked(s)}]]

LEMMA SumExists ==
    ASSUME NEW S, IsFiniteSet(S), NEW fee
    PROVE  \E f : Sums(f, fee, S)
<1> DEFINE Small(k) == {s \in SUBSET S : Cardinality(s) <= k}
           P(k) == \E f : f = [s \in Small(k) |-> IF s = {} THEN 0 ELSE fee[Picked(s)] + f[s \ {Picked(s)}]]
           Bad == {k \in Nat : ~P(k)}
<1>0. ASSUME NEW s \in SUBSET S PROVE IsFiniteSet(s) /\ Cardinality(s) \in Nat /\ (Cardinality(s) = 0 <=> s = {})
  BY FS_Subset, FS_CardinalityType, FS_EmptySet
<1>1. P(0)
  <2> DEFINE f == [s \in Small(0) |-> 0]
  <2>1. \A s \in Small(0) : s = {}
    BY <1>0
  <2>2. f = [s \in Small(0) |-> IF s = {} THEN 0 ELSE fee[Picked(s)] + f[s \ {Picked(s)}]]
    BY <2>1
  <2> QED BY <2>2
<1>2. ASSUME NEW k \in Nat, P(k) PROVE P(k + 1)
  <2>1. PICK f : f = [s \in Small(k) |-> IF s = {} THEN 0 ELSE fee[Picked(s)] + f[s \ {Picked(s)}]]
    BY <1>2
  <2> DEFINE g == [s \in Small(k + 1) |-> IF s = {} THEN 0 ELSE fee[Picked(s)] + f[s \ {Picked(s)}]]
  <2>2. ASSUME NEW s \in Small(k + 1), s # {} PROVE s \ {Picked(s)} \in Small(k)
    <3>1. Picked(s) \in s
      BY <2>2 DEF Picked
    <3> DEFINE n == Cardinality(s)
               m == Cardinality(s \ {Picked(s)})
    <3>2. n \in Nat /\ m = n - 1 /\ n <= k + 1
      BY <1>0, <3>1, FS_RemoveElement
    <3> HIDE DEF n, m
    <3>3. m <= k
      BY <3>2
    <3> QED BY <3>3 DEF m
  <2>3. ASSUME NEW s \in Small(k) PROVE s \in Small(k + 1) /\ g[s] = f[s]
    <3>1. s \in Small(k + 1)
      <4> DEFINE n == Cardinality(s)
      <4>1. n \in Nat /\ n <= k
        BY <1>0
      <4> HIDE DEF n
      <4>2. n <= k + 1
        BY <4>1
      <4> QED BY <4>2 DEF n
    <3> HIDE DEF Small
    <3>2. g[s] = IF s = {} THEN 0 ELSE fee[Picked(s)] + f[s \ {Picked(s)}]
      BY <3>1
    <3>3. f[s] = IF s = {} THEN 0 ELSE fee[Picked(s)] + f[s \ {Picked(s)}]
      BY <2>1
    <3> QED BY <3>1, <3>2, <3>3
  <2>4. g = [s \in Small(k + 1) |-> IF s = {} THEN 0 ELSE fee[Picked(s)] + g[s \ {Picked(s)}]]
    <3>1. \A s \in Small(k + 1) : s # {} => g[s \ {Picked(s)}] = f[s \ {Picked(s)}]
      BY <2>2, <2>3
    <3> HIDE DEF Small
    <3> QED BY <3>1
  <2> HIDE DEF g, Small
  <2> QED BY <2>4
<1>3. Bad = {}
  <2> SUFFICES ASSUME Bad # {} PROVE FALSE
    OBVIOUS
  <2> HIDE DEF P
  <2>1. PICK n \in Bad : \A m \in Bad : n <= m
    <3> HIDE DEF Bad
    <3>1. Bad \in SUBSET Nat
      BY DEF Bad
    <3> QED BY <3>1, LeastExists
  <2>2. n # 0 /\ n \in Nat
    BY <1>1
  <2>3. n - 1 \in Nat /\ n - 1 \notin Bad
    BY <2>1, <2>2
  <2>4. P((n - 1) + 1)
    BY <1>2, <2>3
  <2> QED BY <2>1, <2>2, <2>4
<1>4. Small(Cardinality(S)) = SUBSET S
  BY FS_Subset
<1>5. P(Cardinality(S))
  <2> HIDE DEF P
  <2> QED BY <1>0, <1>3
<1>6. PICK f : f = [s \in Small(Cardinality(S)) |-> IF s = {} THEN 0 ELSE fee[Picked(s)] + f[s \ {Picked(s)}]]
  BY <1>5
<1> QED BY <1>4, <1>6 DEF Sums

\* Of sets in B, one that has no other in it.
LEMMA SmallestSet ==
    ASSUME NEW S, IsFiniteSet(S), NEW B \in SUBSET SUBSET S, B # {}
    PROVE  \E s \in B : \A t \in B : t \subseteq s => t = s
<1> DEFINE K == {Cardinality(s) : s \in B}
<1>1. \A s \in B : IsFiniteSet(s) /\ Cardinality(s) \in Nat
  BY FS_Subset, FS_CardinalityType
<1>2. K \in SUBSET Nat /\ K # {}
  BY <1>1
<1>3. PICK k \in K : \A m \in K : k <= m
  <2> HIDE DEF K
  <2> QED BY <1>2, LeastExists
<1>4. PICK s \in B : Cardinality(s) = k
  BY <1>3
<1>5. ASSUME NEW t \in B, t \subseteq s PROVE t = s
  <2>1. Cardinality(s) <= Cardinality(t)
    BY <1>3, <1>4
  <2>2. Cardinality(t) <= Cardinality(s) /\ (Cardinality(t) = Cardinality(s) => t = s)
    BY <1>1, <1>5, FS_Subset
  <2> DEFINE m == Cardinality(s)
             n == Cardinality(t)
  <2>3. m \in Nat /\ n \in Nat /\ m <= n /\ n <= m
    BY <1>1, <2>1, <2>2
  <2> HIDE DEF m, n
  <2>4. m = n
    BY <2>3
  <2> QED BY <2>2, <2>4 DEF m, n
<1> QED BY <1>5

LEMMA SumsAgree ==
    ASSUME NEW U, IsFiniteSet(U), NEW S, S \subseteq U, NEW fee, NEW other, \A x \in S : other[x] = fee[x],
           NEW F, Sums(F, fee, U), NEW f, Sums(f, other, S)
    PROVE  f[S] = F[S]
<1> DEFINE B == {s \in SUBSET S : f[s] # F[s]}
<1>1. B = {}
  <2> SUFFICES ASSUME B # {} PROVE FALSE
    OBVIOUS
  <2>0. IsFiniteSet(S)
    BY FS_Subset
  <2>1. PICK s \in B : \A t \in B : t \subseteq s => t = s
    <3>1. B \in SUBSET SUBSET S
      OBVIOUS
    <3> HIDE DEF B
    <3> QED BY <2>0, <3>1, SmallestSet
  <2> DEFINE t == s \ {Picked(s)}
  <2>2. s \in SUBSET S /\ s \in SUBSET U
    OBVIOUS
  <2>3. /\ f[s] = IF s = {} THEN 0 ELSE other[Picked(s)] + f[t]
        /\ F[s] = IF s = {} THEN 0 ELSE fee[Picked(s)] + F[t]
    BY <2>2 DEF Sums
  <2>4. s # {}
    BY <2>3
  <2>5. Picked(s) \in s
    BY <2>4 DEF Picked
  <2>6. t \notin B /\ t \in SUBSET S
    BY <2>1, <2>2, <2>5
  <2>7. f[t] = F[t]
    BY <2>6
  <2> QED BY <2>2, <2>3, <2>5, <2>7
<1> QED BY <1>1

\* What a sum is.
LEMMA SumsAre ==
    ASSUME NEW U, IsFiniteSet(U), NEW fee, NEW F, Sums(F, fee, U), \A x \in U : fee[x] \in Int
    PROVE  /\ F[{}] = 0
           /\ \A s \in SUBSET U : F[s] \in Int
           /\ \A s \in SUBSET U : \A x \in s : F[s] = fee[x] + F[s \ {x}]
<1>1. F[{}] = 0 /\ \A s \in SUBSET U : s # {} => Picked(s) \in s /\ F[s] = fee[Picked(s)] + F[s \ {Picked(s)}]
  BY DEF Sums, Picked
<1>2. \A s \in SUBSET U : F[s] \in Int
  <2> DEFINE B == {s \in SUBSET U : F[s] \notin Int}
  <2>1. B = {}
    <3> SUFFICES ASSUME B # {} PROVE FALSE
      OBVIOUS
    <3>1. PICK s \in B : \A t \in B : t \subseteq s => t = s
      <4>1. B \in SUBSET SUBSET U
        OBVIOUS
      <4> HIDE DEF B
      <4> QED BY <4>1, SmallestSet
    <3>0. s \in SUBSET U /\ F[s] \notin Int
      OBVIOUS
    <3>6. s # {}
      <4>1. F[{}] = 0 /\ 0 \in Int
        BY <1>1
      <4> QED BY <3>0, <4>1, Zenon
    <3>2. s # {} /\ Picked(s) \in s
      BY <3>6 DEF Picked
    <3>3. s \ {Picked(s)} \notin B /\ s \ {Picked(s)} \in SUBSET U
      BY <3>1, <3>2
    <3>4. F[s \ {Picked(s)}] \in Int /\ fee[Picked(s)] \in Int
      BY <3>2, <3>3
    <3>5. F[s] = fee[Picked(s)] + F[s \ {Picked(s)}]
      BY <1>1, <3>2
    <3> QED BY <3>4, <3>5
  <2> QED BY <2>1
<1>3. \A s \in SUBSET U : \A x \in s : F[s] = fee[x] + F[s \ {x}]
  <2> DEFINE B == {s \in SUBSET U : \E x \in s : F[s] # fee[x] + F[s \ {x}]}
  <2>1. B = {}
    <3> SUFFICES ASSUME B # {} PROVE FALSE
      OBVIOUS
    <3>1. PICK s \in B : \A t \in B : t \subseteq s => t = s
      <4>1. B \in SUBSET SUBSET U
        OBVIOUS
      <4> HIDE DEF B
      <4> QED BY <4>1, SmallestSet
    <3>2. PICK x \in s : F[s] # fee[x] + F[s \ {x}]
      OBVIOUS
    <3> DEFINE c == Picked(s)
               a == s \ {c}
               b == s \ {x}
               d == s \ {c, x}
    <3>3. s \in SUBSET U /\ c \in s /\ F[s] = fee[c] + F[a]
      BY <1>1, <3>2
    <3>4. x # c
      BY <3>2, <3>3
    <3> HIDE DEF c
    <3>5. a \notin B /\ a \in SUBSET U /\ b \notin B /\ b \in SUBSET U /\ d \in SUBSET U
      BY <3>1, <3>3
    <3>6. x \in a /\ c \in b /\ a \ {x} = d /\ b \ {c} = d
      BY <3>3, <3>4
    <3>7. F[a] = fee[x] + F[a \ {x}] /\ F[b] = fee[c] + F[b \ {c}]
      <4> HIDE DEF a, b
      <4> QED BY <3>5, <3>6
    <3>8. F[s] # fee[x] + F[b] /\ F[d] \in Int /\ fee[x] \in Int /\ fee[c] \in Int
      BY <1>2, <3>2, <3>3, <3>5
    <3>9. F[a] = fee[x] + F[d] /\ F[b] = fee[c] + F[d]
      BY <3>6, <3>7
    <3> HIDE DEF a, b, d
    <3> QED BY <3>3, <3>8, <3>9
  <2> QED BY <2>1
<1> QED BY <1>1, <1>2, <1>3

LEMMA SumOn ==
    ASSUME NEW U, IsFiniteSet(U), NEW S, S \subseteq U, NEW fee, NEW other, \A x \in S : other[x] = fee[x],
           NEW F, Sums(F, fee, U)
    PROVE  SumFunctionOnSet(other, S) = F[S]
<1>1. \E f : Sums(f, other, S)
  BY FS_Subset, SumExists
<1> DEFINE g == CHOOSE f : Sums(f, other, S)
<1>2. Sums(g, other, S)
  BY <1>1
<1>3. SumFunctionOnSet(other, S) = g[S]
  BY DEF SumFunctionOnSet, FoldFunctionOnSet, MapThenFoldSet, Sums, Picked
<1> HIDE DEF g
<1> QED BY <1>2, <1>3, SumsAgree

\* A sum grows by what is added.
LEMMA SumIs ==
    ASSUME NEW S, IsFiniteSet(S), NEW fee, \A x \in S : fee[x] \in Int
    PROVE  /\ SumFunctionOnSet(fee, {}) = 0
           /\ SumFunctionOnSet(fee, S) \in Int
           /\ \A x \in S : SumFunctionOnSet(fee, S) = fee[x] + SumFunctionOnSet(fee, S \ {x})
<1>1. PICK F : Sums(F, fee, S)
  BY SumExists
<1>2. \A s \in SUBSET S : SumFunctionOnSet(fee, s) = F[s]
  BY <1>1, SumOn
<1>3. /\ F[{}] = 0
      /\ \A s \in SUBSET S : F[s] \in Int
      /\ \A s \in SUBSET S : \A x \in s : F[s] = fee[x] + F[s \ {x}]
  BY <1>1, SumsAre
<1>4. {} \in SUBSET S /\ S \in SUBSET S /\ \A x \in S : S \ {x} \in SUBSET S
  OBVIOUS
<1> QED BY <1>2, <1>3, <1>4

\* A sum of what is not negative is not.
LEMMA SumNat ==
    ASSUME NEW S, IsFiniteSet(S), NEW fee, \A x \in S : fee[x] \in Int /\ fee[x] >= 0
    PROVE  SumFunctionOnSet(fee, S) \in Int /\ SumFunctionOnSet(fee, S) >= 0
<1>1. PICK F : Sums(F, fee, S)
  BY SumExists
<1>2. /\ F[{}] = 0
      /\ \A s \in SUBSET S : F[s] \in Int
      /\ \A s \in SUBSET S : \A x \in s : F[s] = fee[x] + F[s \ {x}]
  BY <1>1, SumsAre
<1> DEFINE B == {s \in SUBSET S : ~(F[s] >= 0)}
<1>3. B = {}
  <2> SUFFICES ASSUME B # {} PROVE FALSE
    OBVIOUS
  <2>1. PICK s \in B : \A t \in B : t \subseteq s => t = s
    <3>1. B \in SUBSET SUBSET S
      OBVIOUS
    <3> HIDE DEF B
    <3> QED BY <3>1, SmallestSet
  <2>2. s \in SUBSET S /\ ~(F[s] >= 0)
    OBVIOUS
  <2>3. s # {}
    <3>1. F[{}] >= 0
      BY <1>2
    <3> QED BY <2>2, <3>1, Zenon
  <2>4. PICK x \in s : TRUE
    BY <2>3
  <2> DEFINE t == s \ {x}
  <2>5. t \in SUBSET S /\ t \notin B
    BY <2>1, <2>2, <2>4
  <2>6. F[s] = fee[x] + F[t] /\ F[t] \in Int /\ F[t] >= 0 /\ fee[x] \in Int /\ fee[x] >= 0
    BY <1>2, <2>2, <2>4, <2>5
  <2> QED BY <2>2, <2>6
<1>4. SumFunctionOnSet(fee, S) = F[S]
  BY <1>1, SumOn
<1> QED BY <1>2, <1>3, <1>4

\* So does the total of what is settled.
LEMMA TotalIs ==
    ASSUME NEW P, IsFiniteSet(P), \A p \in P : p.amount \in Int
    PROVE  /\ Total({}) = 0 /\ Total(P) \in Int
           /\ \A p \in P : Total(P) = p.amount + Total(P \ {p})
<1> DEFINE fee == [p \in P |-> p.amount]
<1>1. PICK F : Sums(F, fee, P)
  BY SumExists
<1>2. ASSUME NEW s \in SUBSET P PROVE Total(s) = SumFunctionOnSet(fee, s)
  <2> DEFINE other == [p \in s |-> p.amount]
  <2>1. Total(s) = SumFunctionOnSet(other, s)
    BY DEF Total, SumFunction
  <2>2. (\A x \in s : other[x] = fee[x]) /\ (\A x \in s : fee[x] = fee[x])
    OBVIOUS
  <2> HIDE DEF other, fee
  <2>3. SumFunctionOnSet(other, s) = F[s]
    BY <1>1, <2>2, SumOn
  <2>4. SumFunctionOnSet(fee, s) = F[s]
    BY <1>1, <2>2, SumOn
  <2> QED BY <2>1, <2>3, <2>4
<1>3. \A p \in P : fee[p] \in Int /\ fee[p] = p.amount
  OBVIOUS
<1>4. {} \in SUBSET P /\ P \in SUBSET P /\ \A p \in P : P \ {p} \in SUBSET P
  OBVIOUS
<1> HIDE DEF fee
<1>5. /\ SumFunctionOnSet(fee, {}) = 0
      /\ SumFunctionOnSet(fee, P) \in Int
      /\ \A x \in P : SumFunctionOnSet(fee, P) = fee[x] + SumFunctionOnSet(fee, P \ {x})
  BY <1>3, SumIs
<1> QED BY <1>2, <1>3, <1>4, <1>5

-----------------------------------------------------------------------------
(* Settling *)

\* The greatest of 0 and the least of two.
LEMMA PartIs ==
    ASSUME NEW r \in Int, NEW m \in Int
    PROVE  LET x == Max({0, Min({r, m})})
           IN  x \in Int /\ x >= 0 /\ (x > 0 => x <= r /\ x <= m)
<1> DEFINE y == Min({r, m})
<1>1. y \in {r, m} /\ y <= r /\ y <= m
  <2>1. \E z \in {r, m} : \A w \in {r, m} : z <= w
    <3>1. CASE r <= m
      BY <3>1
    <3>2. CASE ~(r <= m)
      BY <3>2
    <3> QED BY <3>1, <3>2
  <2> QED BY <2>1 DEF Min
<1> HIDE DEF y
<1> DEFINE x == Max({0, y})
<1>2. x \in {0, y} /\ x >= 0
  <2>1. \E z \in {0, y} : \A w \in {0, y} : z >= w
    <3>1. CASE y <= 0
      BY <1>1, <3>1
    <3>2. CASE ~(y <= 0)
      BY <1>1, <3>2
    <3> QED BY <3>1, <3>2
  <2> QED BY <2>1 DEF Max
<1> HIDE DEF x
<1>3. x \in Int /\ x >= 0 /\ (x > 0 => x <= r /\ x <= m)
  BY <1>1, <1>2
<1> QED BY <1>3 DEF x, y

\* The partial of the k-th of the invoices, and those of the first j.
Partial(db, l, invoices, k) ==
    [line |-> Key(l), invoice |-> invoices[k], amount |-> Share(db, l, invoices, k)]
Parts(db, l, invoices, j) ==
    {Partial(db, l, invoices, k) : k \in {k \in 1..j : Share(db, l, invoices, k) > 0}}

\* What the invoices of a line get of its money is no more than there is.
LEMMA PartsAre ==
    ASSUME NEW db, NEW l, l.amount \in Int, NEW n \in Nat, NEW invoices, DOMAIN invoices = 1..n,
           \A k \in 1..n : db.residual[invoices[k]] \in Int /\ db.residual[invoices[k]] > 0
    PROVE  /\ \A k \in 1..n : Share(db, l, invoices, k) \in Int /\ Share(db, l, invoices, k) >= 0
           /\ IsFiniteSet(Parts(db, l, invoices, n))
           /\ \A p \in Parts(db, l, invoices, n) : p.line = Key(l) /\ p.amount \in Int
           /\ l.amount >= 0 => Total(Parts(db, l, invoices, n)) <= l.amount
<1> DEFINE due == [j \in DOMAIN invoices |-> db.residual[invoices[j]]]
           U == 1..n
           share(k) == Share(db, l, invoices, k)
           S(j) == Parts(db, l, invoices, j)
<1>0. IsFiniteSet(U) /\ \A k \in U : due[k] \in Int /\ due[k] > 0
  BY FS_Interval
<1> HIDE DEF due
<1>1. PICK F : Sums(F, due, U)
  BY <1>0, SumExists
<1>2. ASSUME NEW k \in 1..n PROVE F[1..(k - 1)] \in Int /\ F[1..k] = due[k] + F[1..(k - 1)] /\ SumFunctionOnSet(due, 1..(k - 1)) = F[1..(k - 1)]
  <2>1. 1..k \in SUBSET U /\ 1..(k - 1) \in SUBSET U /\ k \in 1..k /\ (1..k) \ {k} = 1..(k - 1)
    OBVIOUS
  <2>2. F[1..(k - 1)] \in Int /\ F[1..k] = due[k] + F[1..(k - 1)]
    <3>1. /\ \A s \in SUBSET U : F[s] \in Int
          /\ \A s \in SUBSET U : \A x \in s : F[s] = due[x] + F[s \ {x}]
      <4>1. \A x \in U : due[x] \in Int
        BY <1>0
      <4>2. IsFiniteSet(U)
        BY <1>0
      <4> HIDE DEF U
      <4> QED BY <1>1, <4>1, <4>2, SumsAre
    <3> HIDE DEF U
    <3> QED BY <2>1, <3>1
  <2>3. SumFunctionOnSet(due, 1..(k - 1)) = F[1..(k - 1)]
    <3> DEFINE V == 1..(k - 1)
    <3>1. V \subseteq U
      BY <2>1
    <3> HIDE DEF V, U
    <3>2. SumFunctionOnSet(due, V) = F[V]
      BY <1>0, <1>1, <3>1, SumOn
    <3> QED BY <3>2 DEF V
  <2> QED BY <2>2, <2>3
<1>3. ASSUME NEW k \in 1..n
      PROVE  share(k) \in Int /\ share(k) >= 0 /\ (share(k) > 0 => share(k) <= due[k] /\ share(k) <= l.amount - F[1..(k - 1)])
  <2> DEFINE b == F[1..(k - 1)]
             r == due[k]
             m == l.amount - b
  <2>1. db.residual[invoices[k]] = r
    BY DEF due
  <2>2. share(k) = Max({0, Min({r, m})})
    BY <1>2, <2>1 DEF Share, due
  <2>3. b \in Int /\ r \in Int
    BY <1>0, <1>2
  <2>4. m \in Int
    BY <2>3
  <2> HIDE DEF b, r, m
  <2>5. share(k) \in Int /\ share(k) >= 0 /\ (share(k) > 0 => share(k) <= r /\ share(k) <= m)
    BY <2>2, <2>3, <2>4, PartIs
  <2> QED BY <2>5 DEF b, r, m
<1> HIDE DEF share
<1>4. F[{}] = 0 /\ 1..0 = {}
  BY <1>0, <1>1, SumsAre
<1>5. ASSUME NEW j \in 0..n
      PROVE  \A p \in S(j) : p.line = Key(l) /\ p.amount \in Int
  BY <1>3 DEF Parts, Partial, share
<1> DEFINE Good(j) == /\ IsFiniteSet(S(j)) /\ Total(S(j)) \in Int /\ F[1..j] \in Int
                      /\ l.amount >= 0 => Total(S(j)) <= F[1..j] /\ Total(S(j)) <= l.amount
           Odd == {j \in 0..n : ~Good(j)}
<1>6. Good(0)
  <2>1. S(0) = {}
    BY DEF Parts
  <2>2. IsFiniteSet({}) /\ Total({}) = 0
    BY FS_EmptySet, TotalIs
  <2>3. F[1..0] = 0
    BY <1>4
  <2> HIDE DEF S
  <2>4. IsFiniteSet(S(0)) /\ Total(S(0)) = 0
    BY <2>1, <2>2
  <2> DEFINE a == Total(S(0))
             b == F[1..0]
  <2>5. a = 0 /\ b = 0
    BY <2>3, <2>4
  <2> HIDE DEF a, b
  <2>6. a \in Int /\ b \in Int /\ (l.amount >= 0 => a <= b /\ a <= l.amount)
    BY <2>5
  <2> QED BY <2>4, <2>6 DEF a, b
<1>7. ASSUME NEW j \in 1..n, Good(j - 1) PROVE Good(j)
  <2> DEFINE p == Partial(db, l, invoices, j)
             A == S(j - 1)
             B == S(j)
             a == Total(A)
             f == F[1..(j - 1)]
             g == F[1..j]
  <2>1. B = IF share(j) > 0 THEN A \cup {p} ELSE A
    <3>1. {k \in 1..j : share(k) > 0} = IF share(j) > 0 THEN {k \in 1..(j - 1) : share(k) > 0} \cup {j} ELSE {k \in 1..(j - 1) : share(k) > 0}
      OBVIOUS
    <3>2. CASE share(j) > 0
      BY <3>1, <3>2 DEF Parts, share
    <3>3. CASE ~(share(j) > 0)
      BY <3>1, <3>3 DEF Parts, share
    <3> QED BY <3>2, <3>3
  <2>2. p.amount = share(j) /\ p.amount \in Int
    BY <1>3 DEF Partial, share
  <2>3. \A q \in A : q.amount \in Int
    <3>1. j - 1 \in 0..n
      OBVIOUS
    <3> QED BY <1>5, <3>1
  <2>4. /\ IsFiniteSet(A) /\ a \in Int /\ f \in Int
        /\ l.amount >= 0 => a <= f /\ a <= l.amount
    BY <1>7
  <2>5. g = due[j] + f /\ due[j] \in Int /\ due[j] > 0
    BY <1>0, <1>2
  <2> HIDE DEF f, g
  <2>6. share(j) \in Int /\ (share(j) > 0 => share(j) <= due[j] /\ share(j) <= l.amount - f)
    BY <1>3 DEF f
  <2>7. g \in Int /\ f <= g
    BY <2>4, <2>5
  <2>8. IsFiniteSet(B) /\ (Total(B) = a \/ (share(j) > 0 /\ Total(B) = share(j) + a))
    <3>1. CASE share(j) > 0 /\ p \notin A
      <4>1. B = A \cup {p} /\ B \ {p} = A /\ \A q \in B : q.amount \in Int
        BY <2>1, <2>2, <2>3, <3>1
      <4> HIDE DEF p, A, B
      <4>2. IsFiniteSet(B)
        BY <2>4, <4>1, FS_AddElement
      <4>3. Total(B) = p.amount + Total(B \ {p})
        <5>1. p \in B
          BY <4>1
        <5> QED BY <4>1, <4>2, <5>1, TotalIs
      <4> QED BY <2>2, <3>1, <4>1, <4>2, <4>3
    <3>2. CASE ~(share(j) > 0 /\ p \notin A)
      <4>1. B = A
        BY <2>1, <3>2
      <4> HIDE DEF p, A, B
      <4> QED BY <2>4, <4>1
    <3> QED BY <3>1, <3>2
  <2> DEFINE b == Total(B)
  <2>9. b = a \/ (share(j) > 0 /\ b = share(j) + a)
    BY <2>8
  <2> HIDE DEF a, b, A, B, p
  <2>10. b \in Int
    BY <2>4, <2>6, <2>9
  <2>11. l.amount >= 0 => b <= g /\ b <= l.amount
    BY <2>4, <2>5, <2>6, <2>7, <2>9
  <2> QED BY <2>7, <2>8, <2>10, <2>11 DEF b, B, g
<1> HIDE DEF Good
<1>8. Odd = {}
  <2> SUFFICES ASSUME Odd # {} PROVE FALSE
    OBVIOUS
  <2>1. PICK j \in Odd : \A i \in Odd : j <= i
    <3>1. Odd \in SUBSET Nat
      OBVIOUS
    <3> HIDE DEF Odd
    <3> QED BY <3>1, LeastExists
  <2>2. j \in 1..n /\ j - 1 \in 0..n /\ j - 1 \notin Odd
    BY <1>6, <2>1
  <2> QED BY <1>7, <2>1, <2>2
<1>9. Good(n)
  BY <1>8
<1> QED BY <1>3, <1>5, <1>9 DEF Good, share

\* The partials of a line.
Of(settled, key) == {p \in settled : p.line = key}

\* No more than a line's money is settled with it, and none before it is reconciled.
Covered(l, settled) ==
    LET own == Of(settled, Key(l))
    IN  /\ IsFiniteSet(own) /\ \A p \in own : p.amount \in Int
        /\ l.reconciled \/ own = {}
        /\ Total(own) <= l.amount \/ l.amount < 0

\* Lines are told apart by their key, and every partial is of one of them.
Sound(db) ==
    /\ \A i \in Invoices : db.residual[i] \in Int
    /\ \A l \in db.lines : DOMAIN l = LineFields /\ l.amount \in Int /\ Covered(l, db.partials)
    /\ \A l, m \in db.lines : Key(l) = Key(m) => l = m
    /\ \A p \in db.partials : \E l \in db.lines : p.line = Key(l)

\* Invoices that can be settled are open ones.
Payable(db, n, invoices) ==
    /\ n \in Nat /\ DOMAIN invoices = 1..n
    /\ \A k \in 1..n : invoices[k] \in Invoices /\ db.residual[invoices[k]] > 0

LEMMA SettleSound ==
    ASSUME NEW db, Sound(db), NEW l \in db.lines, ~l.reconciled, NEW n, NEW invoices, Payable(db, n, invoices)
    PROVE  /\ Sound(Settle(db, l, invoices))
           /\ \A i \in Invoices : Settle(db, l, invoices).residual[i] <= db.residual[i]
<1> DEFINE after == Settle(db, l, invoices)
           P == Parts(db, l, invoices, n)
           d == Done(l)
<1>1. /\ \A k \in 1..n : Share(db, l, invoices, k) \in Int /\ Share(db, l, invoices, k) >= 0
      /\ IsFiniteSet(P)
      /\ \A p \in P : p.line = Key(l) /\ p.amount \in Int
      /\ l.amount >= 0 => Total(P) <= l.amount
  <2>1. l.amount \in Int /\ n \in Nat /\ DOMAIN invoices = 1..n
    BY DEF Sound, Payable
  <2>2. \A k \in 1..n : db.residual[invoices[k]] \in Int /\ db.residual[invoices[k]] > 0
    BY DEF Sound, Payable
  <2> QED BY <2>1, <2>2, PartsAre
<1>2. after.partials = db.partials \cup P
  <2>1. after.partials = db.partials \cup
          {Partial(db, l, invoices, k) : k \in {k \in DOMAIN invoices : Share(db, l, invoices, k) > 0}}
    BY DEF Settle, Partial
  <2>2. DOMAIN invoices = 1..n
    BY DEF Payable
  <2> QED BY <2>1, <2>2 DEF Parts
<1>3. after.lines = (db.lines \ {l}) \cup {d}
  BY SettleLines
<1>4. /\ DOMAIN d = LineFields /\ Key(d) = Key(l) /\ d.amount = l.amount /\ d.reconciled = TRUE
  <2>1. DOMAIN l = LineFields
    BY DEF Sound
  <2>2. /\ DOMAIN d = LineFields /\ d.company = l.company /\ d.channel = l.channel /\ d.id = l.id
        /\ d.amount = l.amount /\ d.reconciled = TRUE
    BY <2>1 DEF Done, LineFields
  <2> QED BY <2>2 DEF Key
<1>5. ASSUME NEW i \in Invoices PROVE after.residual[i] \in Int /\ after.residual[i] <= db.residual[i]
  <2> DEFINE share == [k \in DOMAIN invoices |-> Share(db, l, invoices, k)]
             its == {k \in DOMAIN invoices : invoices[k] = i}
  <2>1. after.residual[i] = db.residual[i] - SumFunctionOnSet(share, its)
    BY DEF Settle
  <2>2. IsFiniteSet(1..n) /\ its \subseteq 1..n /\ \A k \in its : share[k] \in Int /\ share[k] >= 0
    <3>1. DOMAIN invoices = 1..n /\ n \in Nat
      BY DEF Payable
    <3> QED BY <1>1, <3>1, FS_Interval, SMTT(30)
  <2> HIDE DEF share, its
  <2>3. SumFunctionOnSet(share, its) \in Int /\ SumFunctionOnSet(share, its) >= 0
    <3>1. IsFiniteSet(its)
      BY <2>2, FS_Subset
    <3> QED BY <2>2, <3>1, SumNat
  <2>4. db.residual[i] \in Int
    BY DEF Sound
  <2> QED BY <2>1, <2>3, <2>4
<1> HIDE DEF after, P, d
<1>6. Covered(d, after.partials)
  <2>1. Of(db.partials, Key(l)) = {}
    BY DEF Sound, Covered
  <2>2. Of(after.partials, Key(d)) = P
    BY <1>1, <1>2, <1>4, <2>1 DEF Of
  <2>3. Total(P) <= d.amount \/ d.amount < 0
    <3>1. l.amount \in Int
      BY DEF Sound
    <3> QED BY <1>1, <1>4, <3>1
  <2> QED BY <1>1, <1>4, <2>2, <2>3 DEF Covered
<1>7. ASSUME NEW m \in db.lines, m # l PROVE Covered(m, after.partials)
  <2>1. Key(m) # Key(l)
    BY <1>7 DEF Sound
  <2>2. Of(after.partials, Key(m)) = Of(db.partials, Key(m))
    BY <1>1, <1>2, <2>1 DEF Of
  <2> QED BY <2>2 DEF Covered, Sound
<1>8. \A m \in after.lines : DOMAIN m = LineFields /\ m.amount \in Int /\ Covered(m, after.partials)
  <2>1. \A m \in db.lines : DOMAIN m = LineFields /\ m.amount \in Int
    BY DEF Sound
  <2> QED BY <1>3, <1>4, <1>6, <1>7, <2>1
<1>9. \A j, m \in after.lines : Key(j) = Key(m) => j = m
  <2>1. \A j, m \in db.lines : Key(j) = Key(m) => j = m
    BY DEF Sound
  <2> QED BY <1>3, <1>4, <2>1
<1>10. \A p \in after.partials : \E m \in after.lines : p.line = Key(m)
  <2>1. \A p \in db.partials : \E m \in db.lines : p.line = Key(m)
    BY DEF Sound
  <2>2. d \in after.lines /\ \A m \in db.lines : m = l \/ m \in after.lines
    BY <1>3
  <2> QED BY <1>1, <1>2, <1>4, <2>1, <2>2
<1>11. Sound(after)
  BY <1>5, <1>8, <1>9, <1>10 DEF Sound
<1> QED BY <1>5, <1>11 DEF after

\* Lines with keys of their own come in.
LEMMA AddSound ==
    ASSUME NEW db, Sound(db), NEW new, \A l \in new : DOMAIN l = LineFields /\ l.amount \in Int,
           \A l \in new : \A m \in db.lines : Key(l) # Key(m),
           \A l, m \in new : Key(l) = Key(m) => l = m,
           NEW after, after.lines = db.lines \cup new, after.residual = db.residual,
           after.partials = db.partials
    PROVE  Sound(after)
<1>1. ASSUME NEW l \in new PROVE Covered(l, db.partials)
  <2>1. Of(db.partials, Key(l)) = {}
    BY DEF Of, Sound
  <2>2. IsFiniteSet({}) /\ Total({}) = 0
    BY FS_EmptySet, TotalIs
  <2>3. 0 <= l.amount \/ l.amount < 0
    BY <1>1
  <2> QED BY <2>1, <2>2, <2>3 DEF Covered
<1>2. \A l \in after.lines : DOMAIN l = LineFields /\ l.amount \in Int /\ Covered(l, after.partials)
  BY <1>1 DEF Sound
<1>3. \A l, m \in after.lines : Key(l) = Key(m) => l = m
  BY DEF Sound
<1>4. \A p \in after.partials : \E l \in after.lines : p.line = Key(l)
  BY DEF Sound
<1>5. \A i \in Invoices : after.residual[i] \in Int
  BY DEF Sound
<1> QED BY <1>2, <1>3, <1>4, <1>5 DEF Sound

\* A line is written over by one with the same key and money.
LEMMA ReplaceSound ==
    ASSUME NEW db, Sound(db), NEW l \in db.lines, NEW q, DOMAIN q = LineFields, Key(q) = Key(l),
           q.amount = l.amount, q.reconciled = l.reconciled,
           NEW after, after.lines = (db.lines \ {l}) \cup {q}, after.residual = db.residual,
           after.partials = db.partials
    PROVE  Sound(after)
<1>1. Covered(q, db.partials)
  BY DEF Sound, Covered
<1>2. \A m \in after.lines : DOMAIN m = LineFields /\ m.amount \in Int /\ Covered(m, after.partials)
  BY <1>1 DEF Sound
<1>3. \A j, m \in after.lines : Key(j) = Key(m) => j = m
  BY DEF Sound
<1>4. \A p \in after.partials : \E m \in after.lines : p.line = Key(m)
  BY DEF Sound
<1>5. \A i \in Invoices : after.residual[i] \in Int
  BY DEF Sound
<1> QED BY <1>2, <1>3, <1>4, <1>5 DEF Sound

\* No more than the money of each line has gone to invoices.
MoneyInv == PaymentsInv /\ Sound(Books)

\* No invoice comes to more.
LessDue == \A i \in Invoices : residual'[i] <= residual[i]

LEMMA SoundBooks ==
    ASSUME NEW after, Sound(after),
           lines' = after.lines, residual' = after.residual, partials' = after.partials
    PROVE  Sound(Books)'
<1>1. \A a, b : a.lines = b.lines /\ a.residual = b.residual /\ a.partials = b.partials /\ Sound(a) => Sound(b)
  BY DEF Sound
<1>2. Books'.lines = lines' /\ Books'.residual = residual' /\ Books'.partials = partials'
  BY DEF Books
<1>3. Sound(Books')
  BY <1>1, <1>2
<1> QED BY <1>3 DEF Sound, Covered

LEMMA BooksAre == Books.lines = lines /\ Books.residual = residual /\ Books.partials = partials
BY DEF Books

LEMMA MoneyInit == Init => MoneyInv
<1> SUFFICES ASSUME Init PROVE MoneyInv
  OBVIOUS
<1>1. PaymentsInv
  BY PaymentsInit
<1>2. lines = {} /\ partials = {}
  BY DEF Init
<1>3. \A i \in Invoices : residual[i] \in Int
  BY PaymentsAssumption DEF Init
<1>4. Sound(Books)
  BY <1>2, <1>3, BooksAre DEF Sound
<1> QED BY <1>1, <1>2, <1>4 DEF MoneyInv

\* A Swish payment is settled when its line is one of the books, and not yet reconciled.
LEMMA TurnedSound ==
    ASSUME NEW books, Sound(books), NEW new, NEW l, l \in new => l \in books.lines /\ ~l.reconciled
    PROVE  /\ Sound(Turned(books, new, l))
           /\ \A i \in Invoices : Turned(books, new, l).residual[i] <= books.residual[i]
<1> DEFINE after == Turned(books, new, l)
           S == SwishInvoices(books, l)
           i == CHOOSE i \in S : TRUE
<1>1. CASE after = books
  BY <1>1 DEF Sound
<1>2. CASE after # books
  <2>1. l \in new /\ after = SwishReconciled(books, l)
    BY <1>2 DEF Turned
  <2>2. l.amount > 0 /\ Cardinality(S) = 1 /\ after = Settle(books, l, <<i>>)
    BY <1>2, <2>1 DEF SwishReconciled
  <2>3. S # {}
    <3>1. Cardinality({}) = 0
      BY FS_EmptySet
    <3> HIDE DEF S
    <3> QED BY <2>2, <3>1
  <2>4. i \in S
    BY <2>3
  <2>5. i \in Invoices /\ books.residual[i] = l.amount
    BY <2>4 DEF SwishInvoices, OfCompany
  <2> HIDE DEF i, S, after
  <2>6. Payable(books, 1, <<i>>)
    BY <2>2, <2>5 DEF Payable
  <2>7. Sound(Settle(books, l, <<i>>)) /\ \A j \in Invoices : Settle(books, l, <<i>>).residual[j] <= books.residual[j]
    BY <2>1, <2>6, SettleSound
  <2>8. Sound(after) /\ \A j \in Invoices : after.residual[j] <= books.residual[j]
    BY <2>2, <2>7
  <2> QED BY <2>8 DEF after
<1> QED BY <1>1, <1>2

\* What comes in has keys of its own, and settles no more than is due.
LEMMA ImportMoney ==
    ASSUME MoneyInv, NEW c \in Companies, NEW channel, NEW read, NEW new, NEW G,
           ImportedAs(c, channel, read, new, G)
    PROVE  LessDue /\ Sound(Books)'
<1>1. PICK n \in Nat :
          /\ DOMAIN read = 1..n
          /\ \A k \in 1..n : Read(c, channel, read[k])
          /\ \A j, k \in 1..n : read[j].id = read[k].id => j = k
          /\ G[0] = [lines |-> lines \cup new, residual |-> residual, partials |-> partials]
          /\ \A k \in 1..n : G[k] = Turned(G[k - 1], new, read[k])
          /\ lines' = G[n].lines /\ residual' = G[n].residual /\ partials' = G[n].partials
  BY DEF ImportedAs
<1>2. /\ new \subseteq Range(read)
      /\ \A l \in new : \A m \in lines : m.company = c /\ m.channel = channel => m.id # l.id
  BY DEF ImportedAs
<1>3. ASSUME NEW l \in new
      PROVE  /\ \E k \in 1..n : l = read[k]
             /\ DOMAIN l = LineFields /\ l.amount \in Int /\ Key(l) = <<c, channel, l.id>>
             /\ ~l.reconciled
  <2>1. PICK k \in 1..n : l = read[k]
    BY <1>1, <1>2 DEF Range
  <2>2. Read(c, channel, l)
    BY <1>1, <2>1
  <2>3. l.amount \in Int
    BY <2>2 DEF Read, PaymentOK, MoneyInv, PaymentsInv, BookOK
  <2>4. DOMAIN l = LineFields /\ Key(l) = <<c, channel, l.id>> /\ ~l.reconciled
    BY <2>2 DEF Read, Key
  <2> QED BY <2>1, <2>3, <2>4
<1>4. \A l \in new : \A m \in lines : Key(l) # Key(m)
  <2> SUFFICES ASSUME NEW l \in new, NEW m \in lines, Key(l) = Key(m) PROVE FALSE
    OBVIOUS
  <2>1. m.company = c /\ m.channel = channel /\ m.id = l.id
    BY <1>3 DEF Key
  <2> QED BY <1>2, <2>1
<1>5. \A l, m \in new : Key(l) = Key(m) => l = m
  <2> SUFFICES ASSUME NEW l \in new, NEW m \in new, Key(l) = Key(m) PROVE l = m
    OBVIOUS
  <2>1. l.id = m.id
    BY <1>3
  <2>2. PICK j \in 1..n : l = read[j]
    BY <1>3
  <2>3. PICK k \in 1..n : m = read[k]
    BY <1>3
  <2> QED BY <1>1, <2>1, <2>2, <2>3
<1>6. Sound(G[0])
  <2>1. G[0].lines = Books.lines \cup new /\ G[0].residual = Books.residual /\ G[0].partials = Books.partials
    BY <1>1, BooksAre
  <2>2. Sound(Books) /\ Books.lines = lines
    BY BooksAre DEF MoneyInv
  <2> QED BY <1>3, <1>4, <1>5, <2>1, <2>2, AddSound
<1> DEFINE Good(k) == /\ Sound(G[k])
                      /\ \A i \in Invoices : G[k].residual[i] <= residual[i]
                      /\ \A j \in (k + 1)..n : read[j] \in new => read[j] \in G[k].lines
           Odd == {k \in 0..n : ~Good(k)}
<1>7. Good(0)
  BY <1>1, <1>6 DEF Sound
<1>8. ASSUME NEW k \in 1..n, Good(k - 1) PROVE Good(k)
  <2>1. k \in ((k - 1) + 1)..n /\ \A j \in (k + 1)..n : j \in ((k - 1) + 1)..n /\ j # k /\ j \in 1..n
    OBVIOUS
  <2>2. read[k] \in new => read[k] \in G[k - 1].lines /\ ~read[k].reconciled
    BY <1>3, <1>8, <2>1
  <2>3. Sound(G[k]) /\ \A i \in Invoices : G[k].residual[i] <= residual[i]
    <3> DEFINE books == G[k - 1]
               l == read[k]
    <3>1. Sound(books) /\ (l \in new => l \in books.lines /\ ~l.reconciled)
      BY <1>8, <2>2
    <3>2. G[k] = Turned(books, new, l)
      BY <1>1
    <3>4. \A i \in Invoices : books.residual[i] <= residual[i] /\ residual[i] \in Int
      BY <1>8, BooksAre DEF MoneyInv, Sound
    <3> HIDE DEF books, l, Good
    <3>3. Sound(Turned(books, new, l)) /\ \A i \in Invoices : Turned(books, new, l).residual[i] <= books.residual[i]
      BY <3>1, TurnedSound
    <3>5. \A i \in Invoices : books.residual[i] \in Int /\ Turned(books, new, l).residual[i] \in Int
      BY <3>1, <3>3 DEF Sound
    <3>6. \A i \in Invoices : Turned(books, new, l).residual[i] <= residual[i]
      BY <3>3, <3>4, <3>5
    <3> QED BY <3>2, <3>3, <3>6
  <2>4. ASSUME NEW j \in (k + 1)..n, read[j] \in new PROVE read[j] \in G[k].lines
    <3>1. read[j] \in G[k - 1].lines
      BY <1>8, <2>1, <2>4
    <3>2. read[j] # read[k]
      BY <1>1, <2>1
    <3>3. G[k] = Turned(G[k - 1], new, read[k])
      BY <1>1
    <3>4. \A x \in G[k - 1].lines : x # read[k] => x \in Turned(G[k - 1], new, read[k]).lines
      BY SettleLines DEF Turned, SwishReconciled
    <3> QED BY <3>1, <3>2, <3>3, <3>4
  <2> QED BY <2>3, <2>4
<1> HIDE DEF Good
<1>9. Odd = {}
  <2> SUFFICES ASSUME Odd # {} PROVE FALSE
    OBVIOUS
  <2>1. PICK k \in Odd : \A j \in Odd : k <= j
    <3>1. Odd \in SUBSET Nat
      OBVIOUS
    <3> HIDE DEF Odd
    <3> QED BY <3>1, LeastExists
  <2>2. k \in 1..n /\ k - 1 \in 0..n /\ k - 1 \notin Odd
    BY <1>7, <2>1
  <2> QED BY <1>8, <2>1, <2>2
<1>10. Sound(G[n]) /\ \A i \in Invoices : G[n].residual[i] <= residual[i]
  BY <1>9 DEF Good
<1>11. Sound(Books)'
  BY <1>1, <1>10, SoundBooks
<1>12. LessDue
  BY <1>1, <1>10 DEF LessDue
<1> QED BY <1>11, <1>12

LEMMA DepositMoney ==
    ASSUME MoneyInv, NEW c \in Companies, NEW n \in DOMAIN book[c], NEW selected,
           ImportDeposit(c, n, selected)
    PROVE  LessDue /\ Sound(Books)'
<1>1. PICK l, q, match : DepositOn(c, n, Run(selected), l, q, match)
  BY DepositIs DEF MoneyInv
<1> DEFINE a == With(l, q)
           invoices == Proposed(match)
           b == Settle(a, q, invoices)
<1>2. /\ l \in lines /\ DOMAIN q = LineFields /\ Key(q) = Key(l) /\ q.amount = l.amount
      /\ q.reconciled = l.reconciled
  BY <1>1 DEF DepositOn, Noted, Key
<1>3. a.lines = (lines \ {l}) \cup {q} /\ a.residual = residual /\ a.partials = partials
  BY DEF With
<1>4. Sound(a)
  <2>1. Sound(Books) /\ l \in Books.lines
    BY <1>2, BooksAre DEF MoneyInv
  <2> HIDE DEF a
  <2>2. a.lines = (Books.lines \ {l}) \cup {q} /\ a.residual = Books.residual /\ a.partials = Books.partials
    BY <1>3, BooksAre
  <2> QED BY <1>2, <2>1, <2>2, ReplaceSound
<1>5. PICK m \in Nat : DOMAIN match = 1..m
  BY <1>1 DEF DepositOn
<1>6. Payable(a, Len(invoices), invoices)
  <2> DEFINE T == Range(match) \ {NoInvoice}
  <2>1. invoices \in Seq(T) /\ \A k \in DOMAIN invoices : residual[invoices[k]] > 0
    BY <1>5, ProposedIs
  <2>2. T \subseteq Invoices
    BY <1>1 DEF DepositOn
  <2> HIDE DEF T, invoices, a
  <2>3. Len(invoices) \in Nat /\ DOMAIN invoices = 1..Len(invoices)
    BY <2>1
  <2>4. \A k \in DOMAIN invoices : invoices[k] \in T
    BY <2>1
  <2> QED BY <1>3, <2>1, <2>2, <2>3, <2>4 DEF Payable
<1>7. ~l.reconciled => Sound(b) /\ \A i \in Invoices : b.residual[i] <= a.residual[i]
  <2>1. q \in a.lines
    BY <1>3
  <2> HIDE DEF a, invoices
  <2> QED BY <1>2, <1>4, <1>6, <2>1, SettleSound
<1>8. b.lines = (a.lines \ {q}) \cup {Done(q)}
  BY SettleLines
<1>9. PICK after \in {a} \cup (IF l.reconciled THEN {} ELSE {b}) :
          lines' = after.lines /\ residual' = after.residual /\ partials' = after.partials
  BY <1>1 DEF DepositOn
<1> HIDE DEF a, b, invoices
<1>10. after = a \/ (~l.reconciled /\ after = b)
  BY <1>9
<1>11. Sound(after)
  BY <1>4, <1>7, <1>10
<1>12. Sound(Books)'
  BY <1>9, <1>11, SoundBooks
<1>13. LessDue
  <2>1. \A i \in Invoices : residual[i] <= residual[i]
    BY BooksAre DEF MoneyInv, Sound
  <2> QED BY <1>3, <1>7, <1>9, <1>10, <2>1 DEF LessDue
<1> QED BY <1>12, <1>13

LEMMA MoneyStep == MoneyInv /\ [Next]_vars => MoneyInv'
<1> SUFFICES ASSUME MoneyInv, [Next]_vars PROVE MoneyInv'
  OBVIOUS
<1>1. PaymentsInv'
  BY PaymentsStep DEF MoneyInv
<1>2. ASSUME Sound(Books)' PROVE MoneyInv'
  BY <1>1, <1>2 DEF MoneyInv
<1>3. ASSUME lines' = lines, partials' = partials, \A i \in Invoices : residual'[i] \in Int PROVE MoneyInv'
  <2> DEFINE after == [lines |-> lines, residual |-> residual', partials |-> partials]
  <2>1. after.lines = lines /\ after.residual = residual' /\ after.partials = partials
    OBVIOUS
  <2> HIDE DEF after
  <2>2. Sound(after)
    <3>1. Sound(Books)
      BY DEF MoneyInv
    <3> QED BY <1>3, <2>1, <3>1, BooksAre DEF Sound
  <2>3. Sound(Books)'
    BY <1>3, <2>1, <2>2, SoundBooks
  <2> QED BY <1>2, <1>3, <2>3 DEF MoneyInv
<1>4. \A i \in Invoices : residual[i] \in Int
  BY BooksAre DEF MoneyInv, Sound
<1>5. ASSUME NEW c \in Companies, NEW kind \in Kinds[c], Book(c, kind) PROVE MoneyInv'
  BY <1>3, <1>4, <1>5 DEF Book
<1>6. CASE NextDay
  BY <1>3, <1>4, <1>6 DEF NextDay
<1>7. ASSUME NEW i \in Invoices, Credit(i) PROVE MoneyInv'
  <2>1. residual' = [residual EXCEPT ![i] = 0] /\ lines' = lines /\ partials' = partials
    BY <1>7 DEF Credit
  <2>2. \A j \in Invoices : residual'[j] = residual[j] \/ residual'[j] = 0
    BY <2>1
  <2>3. \A j \in Invoices : residual'[j] \in Int
    BY <1>4, <2>2
  <2> QED BY <1>3, <2>1, <2>3
<1>8. ASSUME NEW c \in FeedCompanies, Feed(c) PROVE MoneyInv'
  <2>1. c \in Companies
    BY PaymentsAssumption
  <2>2. PICK read, new, books : ImportedAs(c, "feed", read, new, books)
    BY <1>8, <2>1, ImportIs DEF MoneyInv
  <2> QED BY <1>2, <2>1, <2>2, ImportMoney
<1>9. ASSUME NEW c \in CsvCompanies, NEW file \in Files(c), ImportCsv(c, file) PROVE MoneyInv'
  <2>1. c \in Companies
    BY PaymentsAssumption
  <2>2. PICK read, new, books : ImportedAs(c, "csv", read, new, books)
    BY <1>9, <2>1, ImportIs DEF MoneyInv
  <2> QED BY <1>2, <2>1, <2>2, ImportMoney
<1>10. ASSUME NEW c \in Companies, NEW n \in DOMAIN book[c], NEW selected, ImportDeposit(c, n, selected)
       PROVE  MoneyInv'
  BY <1>2, <1>10, DepositMoney
<1>11. CASE EndRun
  BY <1>3, <1>4, <1>11 DEF EndRun
<1>12. CASE UNCHANGED vars
  BY <1>3, <1>4, <1>12 DEF vars
<1> QED BY <1>5, <1>6, <1>7, <1>8, <1>9, <1>10, <1>11, <1>12 DEF Next

-----------------------------------------------------------------------------
(* Invoices named *)

\* What a run has looked up is all there was to find, and no invoice has been opened since.
IndexFull ==
    \A c \in DOMAIN wizard.index : {i \in Scope(c) : IsSie(i) \/ residual[i] > 0} \subseteq wizard.index[c]

\* What NamedOrNothing says of a line and the payments its deposit is of.
Ends(l, txs) ==
    LET details == Details(txs)
        named(k) == Exact(details[k], OfCompany(l.company))
    IN  \A k \in DOMAIN details :
            (named(k) # {} /\ Printed(details[k], OfCompany(l.company)) \subseteq named(k)) =>
                l.match[k] \in named(k) \cup {NoInvoice}

Named(l) == l.note # NoDeposit => Ends(l, book[l.note.company][l.note.n].txs)

\* A line is noted for a payment the bank has booked.
Noting(l) ==
    l.note # NoDeposit => l.note.company \in Companies /\ l.note.n \in DOMAIN book[l.note.company]

NamedInv == MoneyInv /\ IndexFull /\ \A l \in lines : Noting(l) /\ Named(l)

LEMMA NamedInit == Init => NamedInv
<1> SUFFICES ASSUME Init PROVE NamedInv
  OBVIOUS
<1>1. MoneyInv
  BY MoneyInit
<1>2. IndexFull
  BY DEF Init, NoRun, IndexFull
<1> QED BY <1>1, <1>2 DEF Init, NamedInv

LEMMA NamedStays ==
    ASSUME NEW l, Noting(l), Named(l), BookStays
    PROVE  Noting(l)' /\ Named(l)'
<1>1. CASE l.note = NoDeposit
  BY <1>1 DEF Noting, Named
<1>2. CASE l.note # NoDeposit
  <2>1. book'[l.note.company][l.note.n] = book[l.note.company][l.note.n]
        /\ l.note.company \in Companies /\ l.note.n \in DOMAIN book'[l.note.company]
    BY <1>2 DEF Noting, BookStays
  <2>2. Noting(l)'
    BY <2>1 DEF Noting
  <2>3. Named(l)'
    BY <1>2, <2>1 DEF Named
  <2> QED BY <2>2, <2>3
<1> QED BY <1>1, <1>2

LEMMA IndexStays ==
    ASSUME IndexFull, wizard' = wizard, LessDue, \A i \in Invoices : residual[i] \in Int /\ residual'[i] \in Int
    PROVE  IndexFull'
<1>1. \A i \in Invoices : residual'[i] > 0 => residual[i] > 0
  BY DEF LessDue
<1>2. \A c : Scope(c) \subseteq Invoices
  BY DEF Scope, OfCompany
<1> QED BY <1>1, <1>2 DEF IndexFull, Scope, OfCompany, IsSie

\* A detail that names one invoice and no other is found that one, or none.
LEMMA FoundNamed ==
    ASSUME NEW company, NEW d, NEW index, index \subseteq Scope(company),
           {i \in Scope(company) : IsSie(i) \/ residual[i] > 0} \subseteq index,
           Exact(d, OfCompany(company)) # {},
           Printed(d, OfCompany(company)) \subseteq Exact(d, OfCompany(company))
    PROVE  FindInvoice(company, d, index, residual) \subseteq Exact(d, OfCompany(company)) \cup {NoInvoice}
<1> DEFINE exact == Exact(d, OfCompany(company))
           settled == SettledNamed(company, d, residual)
           found == FirstHit(<<ByName(d, index, residual), Printed(d, index),
                               ByCandidates(d, index), ByAmount(d, index, residual)>>)
<1>1. FindInvoice(company, d, index, residual) =
        IF Exact(d, index) # {} THEN Exact(d, index)
        ELSE IF settled # {} \/ found = {} THEN {NoInvoice} ELSE found
  BY DEF FindInvoice
<1> HIDE DEF found
<1>2. Exact(d, index) = {i \in index : i \in exact}
  BY DEF Exact, Scope, OfCompany
<1>3. CASE Exact(d, index) # {}
  BY <1>1, <1>2, <1>3
<1>4. CASE Exact(d, index) = {}
  <2>1. \A i \in exact : i \in Scope(company) /\ i \notin index
    BY <1>2, <1>4 DEF Exact, Scope
  <2>2. \A i \in exact : ~IsSie(i) /\ ~(residual[i] > 0)
    BY <2>1
  <2>3. settled = IF \E i \in exact : residual[i] > 0 THEN {} ELSE exact
    <3> DEFINE named == {i \in Exact(d, Scope(company)) \cup Printed(d, Scope(company)) : ~IsSie(i)}
    <3>1. named = exact
      BY <2>2 DEF Scope
    <3>2. settled = IF \E i \in named : residual[i] > 0 THEN {} ELSE named
      BY DEF SettledNamed
    <3> HIDE DEF named, settled, exact
    <3> QED BY <3>1, <3>2
  <2> HIDE DEF settled, exact
  <2>4. settled = exact
    BY <2>2, <2>3
  <2>5. settled # {}
    BY <2>4 DEF exact
  <2>6. FindInvoice(company, d, index, residual) = {NoInvoice}
    BY <1>1, <1>4, <2>5
  <2> QED BY <2>6
<1> QED BY <1>3, <1>4

LEMMA DepositNamed ==
    ASSUME NamedInv, NEW c \in Companies, NEW n \in DOMAIN book[c], NEW selected,
           ImportDeposit(c, n, selected)
    PROVE  IndexFull' /\ \A l \in lines' : Noting(l)' /\ Named(l)'
<1> DEFINE run == Run(selected)
           details == Details(book[c][n].txs)
           deposit == [company |-> c, n |-> n]
           Open(x) == {i \in Scope(x) : IsSie(i) \/ residual[i] > 0}
<1>1. PICK l, q, match : DepositOn(c, n, run, l, q, match)
  BY DepositIs DEF NamedInv, MoneyInv
<1>2. \A x : Open(x) \subseteq Index(run, x)
  <2>1. run = wizard \/ run.index = <<>>
    BY DEF Run
  <2>2. \A x \in DOMAIN run.index : Open(x) \subseteq run.index[x]
    BY <2>1 DEF NamedInv, IndexFull
  <2> QED BY <2>2 DEF Index
<1>3. book' = book
  BY DEF ImportDeposit
<1>4. IndexFull'
  <2>1. LessDue /\ \A i \in Invoices : residual[i] \in Int /\ residual'[i] \in Int
    <3>1. LessDue /\ Sound(Books)' /\ Sound(Books)
      BY DepositMoney DEF NamedInv, MoneyInv
    <3>2. Books'.residual = residual' /\ Books.residual = residual
      BY DEF Books
    <3> QED BY <3>1, <3>2 DEF Sound
  <2>2. \A i \in Invoices : residual'[i] > 0 => residual[i] > 0
    BY <2>1 DEF LessDue
  <2>3. wizard'.index = [x \in DOMAIN run.index \cup {l.company} |-> Index(run, x)]
    BY <1>1 DEF DepositOn
  <2> HIDE DEF run
  <2>4. \A x \in DOMAIN wizard'.index : Open(x) \subseteq wizard'.index[x]
    BY <1>2, <2>3
  <2>5. \A x \in DOMAIN wizard'.index : {i \in Scope(x) : IsSie(i) \/ residual'[i] > 0} \subseteq wizard'.index[x]
    <3>1. \A x : Scope(x) \subseteq Invoices
      BY DEF Scope, OfCompany
    <3> QED BY <2>2, <2>4, <3>1
  <2> QED BY <2>5 DEF IndexFull, Scope, OfCompany, IsSie
<1>5. /\ l \in lines /\ q.note = deposit /\ q.match = match /\ q.company = l.company /\ DOMAIN q = LineFields
      /\ Index(run, l.company) \subseteq Scope(l.company)
      /\ \A k \in DOMAIN details : match[k] \in FindInvoice(l.company, details[k], Index(run, l.company), residual)
  BY <1>1 DEF DepositOn, Noted
<1>6. ASSUME NEW k \in DOMAIN details, Exact(details[k], OfCompany(l.company)) # {},
             Printed(details[k], OfCompany(l.company)) \subseteq Exact(details[k], OfCompany(l.company))
      PROVE  match[k] \in Exact(details[k], OfCompany(l.company)) \cup {NoInvoice}
  <2> DEFINE d == details[k]
             index == Index(run, l.company)
  <2>1. Open(l.company) \subseteq index /\ index \subseteq Scope(l.company) /\ match[k] \in FindInvoice(l.company, d, index, residual)
    BY <1>2, <1>5
  <2> HIDE DEF d, index, run
  <2>2. Exact(d, OfCompany(l.company)) # {} /\ Printed(d, OfCompany(l.company)) \subseteq Exact(d, OfCompany(l.company))
    BY <1>6 DEF d
  <2>3. FindInvoice(l.company, d, index, residual) \subseteq Exact(d, OfCompany(l.company)) \cup {NoInvoice}
    BY <2>1, <2>2, FoundNamed
  <2> QED BY <2>1, <2>3 DEF d
<1>7. ASSUME NEW e, e.note = deposit, e.match = match, e.company = l.company PROVE Noting(e) /\ Named(e)
  <2>1. deposit.company = c /\ deposit.n = n
    OBVIOUS
  <2> HIDE DEF deposit
  <2>2. Noting(e)
    BY <1>7, <2>1 DEF Noting
  <2>3. Named(e)
    BY <1>6, <1>7, <2>1 DEF Named, Ends
  <2> QED BY <2>2, <2>3
<1> HIDE DEF deposit
<1>8. Done(q).note = q.note /\ Done(q).match = q.match /\ Done(q).company = q.company
  BY <1>5 DEF Done, LineFields
<1>9. lines' \subseteq lines \cup {q, Done(q)}
  <2> DEFINE a == With(l, q)
             b == Settle(a, q, Proposed(match))
  <2>1. a.lines = (lines \ {l}) \cup {q}
    BY DEF With
  <2>2. b.lines = (a.lines \ {q}) \cup {Done(q)}
    BY SettleLines
  <2>3. PICK after \in {a} \cup (IF l.reconciled THEN {} ELSE {b}) : lines' = after.lines
    BY <1>1 DEF DepositOn
  <2> HIDE DEF a, b
  <2>4. lines' = a.lines \/ lines' = b.lines
    BY <2>3
  <2> QED BY <2>1, <2>2, <2>4
<1>10. \A e \in lines' : Noting(e) /\ Named(e)
  <2>1. \A e \in lines : Noting(e) /\ Named(e)
    BY DEF NamedInv
  <2>2. Noting(q) /\ Named(q)
    BY <1>5, <1>7
  <2>3. Noting(Done(q)) /\ Named(Done(q))
    BY <1>5, <1>7, <1>8
  <2> QED BY <1>9, <2>1, <2>2, <2>3
<1>11. BookStays
  BY <1>3, SameBook
<1>12. \A e \in lines' : Noting(e)' /\ Named(e)'
  BY <1>10, <1>11, NamedStays
<1> QED BY <1>4, <1>12

LEMMA NamedStep == NamedInv /\ [Next]_vars => NamedInv'
<1> SUFFICES ASSUME NamedInv, [Next]_vars PROVE NamedInv'
  OBVIOUS
<1>1. MoneyInv' /\ \A i \in Invoices : residual[i] \in Int /\ residual'[i] \in Int
  <2>1. MoneyInv' /\ MoneyInv
    BY MoneyStep DEF NamedInv
  <2>2. Sound(Books)' /\ Sound(Books)
    BY <2>1 DEF MoneyInv
  <2>3. Books'.residual = residual' /\ Books.residual = residual
    BY DEF Books
  <2> QED BY <2>1, <2>2, <2>3 DEF Sound
<1>2. \A l \in lines : Noting(l) /\ Named(l)
  BY DEF NamedInv
<1>3. ASSUME BookStays, wizard' = wizard, LessDue, \A l \in lines' : l \in lines \/ l.note = NoDeposit
      PROVE  NamedInv'
  <2>1. \A l \in lines' : Noting(l) /\ Named(l)
    BY <1>2, <1>3 DEF Noting, Named
  <2>2. \A l \in lines' : Noting(l)' /\ Named(l)'
    BY <1>3, <2>1, NamedStays
  <2>3. IndexFull'
    BY <1>1, <1>3, IndexStays DEF NamedInv
  <2> QED BY <1>1, <2>2, <2>3 DEF NamedInv
<1>4. residual' = residual => LessDue
  BY <1>1 DEF LessDue
<1>5. ASSUME NEW c \in Companies, NEW kind \in Kinds[c], Book(c, kind) PROVE NamedInv'
  <2>1. BookStays
    BY <1>5, BookStep DEF NamedInv, MoneyInv, PaymentsInv
  <2> QED BY <1>3, <1>4, <1>5, <2>1 DEF Book
<1>6. CASE NextDay
  BY <1>3, <1>4, <1>6, SameBook DEF NextDay
<1>7. ASSUME NEW i \in Invoices, Credit(i) PROVE NamedInv'
  <2>1. /\ residual' = [residual EXCEPT ![i] = 0] /\ residual[i] > 0
        /\ lines' = lines /\ book' = book /\ wizard' = wizard
    BY <1>7 DEF Credit
  <2>2. \A j \in Invoices : residual'[j] = residual[j] \/ (j = i /\ residual'[j] = 0)
    BY <2>1
  <2>3. LessDue
    BY <1>1, <2>1, <2>2 DEF LessDue
  <2> QED BY <1>3, <2>1, <2>3, SameBook
<1>8. ASSUME NEW c \in FeedCompanies, Feed(c) PROVE NamedInv'
  <2>1. c \in Companies
    BY PaymentsAssumption
  <2>2. PICK read, new, books : ImportedAs(c, "feed", read, new, books)
    BY <1>8, <2>1, ImportIs DEF NamedInv, MoneyInv
  <2>3. \A l \in lines' : l \in lines \/ l.note = NoDeposit
    BY <2>1, <2>2, ImportStep
  <2>4. LessDue
    BY <2>1, <2>2, ImportMoney DEF NamedInv
  <2>5. book' = book /\ wizard' = wizard
    BY <1>8 DEF Feed
  <2> QED BY <1>3, <2>3, <2>4, <2>5, SameBook
<1>9. ASSUME NEW c \in CsvCompanies, NEW file \in Files(c), ImportCsv(c, file) PROVE NamedInv'
  <2>1. c \in Companies
    BY PaymentsAssumption
  <2>2. PICK read, new, books : ImportedAs(c, "csv", read, new, books)
    BY <1>9, <2>1, ImportIs DEF NamedInv, MoneyInv
  <2>3. \A l \in lines' : l \in lines \/ l.note = NoDeposit
    BY <2>1, <2>2, ImportStep
  <2>4. LessDue
    BY <2>1, <2>2, ImportMoney DEF NamedInv
  <2>5. book' = book /\ wizard' = wizard
    BY <1>9 DEF ImportCsv
  <2> QED BY <1>3, <2>3, <2>4, <2>5, SameBook
<1>10. ASSUME NEW c \in Companies, NEW n \in DOMAIN book[c], NEW selected, ImportDeposit(c, n, selected)
       PROVE  NamedInv'
  BY <1>1, <1>10, DepositNamed DEF NamedInv
<1>11. CASE EndRun
  <2>1. wizard' = NoRun /\ lines' = lines /\ book' = book
    BY <1>11 DEF EndRun
  <2>2. IndexFull'
    BY <2>1 DEF IndexFull, NoRun
  <2>3. \A l \in lines' : Noting(l)' /\ Named(l)'
    BY <1>2, <2>1, SameBook, NamedStays
  <2> QED BY <1>1, <2>2, <2>3 DEF NamedInv
<1>12. CASE UNCHANGED vars
  BY <1>3, <1>4, <1>12, SameBook DEF vars
<1> QED BY <1>5, <1>6, <1>7, <1>8, <1>9, <1>10, <1>11, <1>12 DEF Next

-----------------------------------------------------------------------------
(* Results *)

\* OwnCompany: a deposit to a registered number touches a line of its own company only, and an
\* invoice matched or proposed on a line is of the line's company (_find_statement_line, the
\* company_id of every search of _find_invoice).
THEOREM OwnCompanyAlways == Spec => []OwnCompany
BY OwnIs, PaymentsInit, PaymentsStep, PTL DEF Spec

\* A payment the other channel had brought in is told of.
TellsDoubles ==
    \A l \in lines' \ lines :
        /\ ~\E k \in lines : Key(k) = Key(l)
        /\ \E f \in lines : f.channel # l.channel /\ f.company = l.company /\ f.n = l.n
        => l.told

LEMMA ImportTells ==
    ASSUME PaymentsInv, NEW c \in Companies, NEW channel \in {"feed", "csv"},
           NEW read, NEW new, NEW books, ImportedAs(c, channel, read, new, books)
    PROVE  TellsDoubles
<1> SUFFICES ASSUME NEW l \in lines', l \notin lines,
                    NEW f \in lines, f.channel # l.channel, f.company = l.company, f.n = l.n
             PROVE  l.told
  BY DEF TellsDoubles
<1>1. Imported(c, channel, l)
  BY ImportStep
<1>2. LineOK(l) /\ LineOK(f) /\ l.company = c /\ l.channel = channel
  BY <1>1 DEF Imported, PaymentsInv
<1>3. f.channel = Other(channel)
  BY <1>2 DEF LineOK, Other
<1>4. f.amount = l.amount /\ l.n \in DOMAIN book[c]
  BY <1>2 DEF LineOK, PaymentOK
<1>5. f.day = DayOf(c, f.channel, l.n) /\ l.day = DayOf(c, l.channel, l.n)
  BY <1>2 DEF LineOK, PaymentOK
<1> DEFINE day == book[c][l.n].day
<1>6. day \in Nat
  BY <1>4 DEF PaymentsInv, BookOK
<1>7. \A ch : DayOf(c, ch, l.n) = day \/ (c \in ValueDated /\ DayOf(c, ch, l.n) = day + DaysOff)
              \/ (c \notin ValueDated /\ DayOf(c, ch, l.n) = day + 0)
  BY DEF DayOf, FeedDay
<1> HIDE DEF day
<1>8. f.day \in (l.day - LookAlikeDays(c))..(l.day + LookAlikeDays(c))
  <2>1. CASE c \in ValueDated
    BY <1>5, <1>6, <1>7, <2>1, PaymentsAssumption DEF LookAlikeDays
  <2>2. CASE c \notin ValueDated
    BY <1>5, <1>6, <1>7, <2>2 DEF LookAlikeDays
  <2> QED BY <2>1, <2>2
<1>9. LooksAlike(c, Other(channel), l.day, l.amount)
  BY <1>2, <1>3, <1>4, <1>8 DEF LooksAlike
<1> QED BY <1>1, <1>9 DEF Imported

LEMMA DoublesToldStep == PaymentsInv /\ [Next]_vars => [TellsDoubles]_vars
<1> SUFFICES ASSUME PaymentsInv, Next PROVE TellsDoubles
  OBVIOUS
<1>1. ASSUME lines' = lines PROVE TellsDoubles
  BY <1>1 DEF TellsDoubles
<1>2. ASSUME NEW c \in FeedCompanies, Feed(c) PROVE TellsDoubles
  <2>1. c \in Companies
    BY PaymentsAssumption
  <2>2. PICK read, new, books : ImportedAs(c, "feed", read, new, books)
    BY <1>2, <2>1, ImportIs
  <2> QED BY <2>1, <2>2, ImportTells
<1>3. ASSUME NEW c \in CsvCompanies, NEW file \in Files(c), ImportCsv(c, file) PROVE TellsDoubles
  <2>1. c \in Companies
    BY PaymentsAssumption
  <2>2. PICK read, new, books : ImportedAs(c, "csv", read, new, books)
    BY <1>3, <2>1, ImportIs
  <2> QED BY <2>1, <2>2, ImportTells
<1>4. ASSUME NEW c \in Companies, NEW n \in DOMAIN book[c], NEW selected, ImportDeposit(c, n, selected)
      PROVE  TellsDoubles
  BY <1>4, DepositStep DEF TellsDoubles
<1>5. \/ \E c \in Companies : \E kind \in Kinds[c] : Book(c, kind)
      \/ NextDay
      \/ \E i \in Invoices : Credit(i)
      \/ EndRun
      => lines' = lines
  BY DEF Book, NextDay, Credit, EndRun
<1> QED BY <1>1, <1>2, <1>3, <1>4, <1>5 DEF Next

\* DoublesTold: a payment one channel brought in before is told of when the other brings it in
\* again, whichever came first and by the value day too (_swedbank_look_alikes,
\* _enable_banking_file_look_alikes).
THEOREM DoublesToldAlways == Spec => DoublesTold
<1>1. PaymentsInv /\ [Next]_vars => [TellsDoubles]_vars
  BY DoublesToldStep
<1> QED BY <1>1, PaymentsInit, PaymentsStep, PTL DEF Spec, DoublesTold, TellsDoubles

\* MoneyOnce: no more than the money of a line is settled with it, however often its deposit or an
\* equal one comes: only a line not yet reconciled is settled (_import_deposit,
\* swedbank_auto_reconcile_swish).
THEOREM MoneyOnceAlways == Spec => []MoneyOnce
<1>1. MoneyInv => MoneyOnce
  <2> SUFFICES ASSUME MoneyInv, NEW l \in lines
               PROVE  Total({p \in partials : p.line = Key(l)}) <= l.amount \/ l.amount < 0
    BY DEF MoneyOnce
  <2>1. Covered(l, partials)
    BY BooksAre DEF MoneyInv, Sound
  <2> QED BY <2>1 DEF Covered, Of
<1> QED BY <1>1, MoneyInit, MoneyStep, PTL DEF Spec

\* NamedOrNothing: a detail that names one invoice exactly and writes out no other is matched with
\* that one or with none, also when it was paid since (_find_settled_invoice).
THEOREM NamedOrNothingAlways == Spec => []NamedOrNothing
<1>1. NamedInv => NamedOrNothing
  BY DEF NamedInv, Named, Ends, NamedOrNothing
<1> QED BY <1>1, NamedInit, NamedStep, PTL DEF Spec
=============================================================================
