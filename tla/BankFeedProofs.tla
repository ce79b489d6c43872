--------------------------- MODULE BankFeedProofs ---------------------------
(***************************************************************************)
(* Proofs about BankFeed, for any accounts, consents, retry limit and      *)
(* payments, and however users, the bank and the scheduled pull interleave:*)
(* providers on one session agree, no payment is missed, and the balance   *)
(* check warns when it should.                                             *)
(***************************************************************************)
EXTENDS BankFeed, FiniteSetTheorems, FunctionTheorems, TLAPS

-----------------------------------------------------------------------------
(* Types *)

Provider ==
    [auth : BOOLEAN, session : Nat, account : BOOLEAN, until : Nat, last : Nat, next : Nat,
     resume : Nat, todo : BOOLEAN, alarm : Int, pulls : Nat]

Providers == [Accounts -> Provider]
Lines == [Accounts -> SUBSET (Days \X (0..MaxBooked))]
Granted == [until : Nat, live : BOOLEAN]

\* A pull at work on a provider, and one that is about to commit.
Working ==
    [at : {"day", "balance"}, a : Accounts, d : Days, due : SUBSET Accounts, seen : Providers,
     prov : Providers, lines : Lines, skipped : SUBSET (Accounts \X Days)]

Ending ==
    [at : {"end"}, seen : Providers, prov : Providers, lines : Lines, skipped : SUBSET (Accounts \X Days)]

BankOK ==
    /\ day \in Days
    /\ booked \in [Accounts -> [Days -> 0..MaxBooked]]
    /\ granted \in Seq(Granted)

\* A pull keeps its types, and every provider's next pull starts no later than it is due,
\* so that a day it turns to is not after today.
Ordered(provs) == \A a \in Accounts : provs[a].last \in 1..provs[a].next

PullOK(t) ==
    /\ t \in Working \cup Ending
    /\ Ordered(t.prov)
    /\ t.at # "end" =>
        /\ t \in Working
        /\ t.d <= day
        /\ t.a \notin t.due
        /\ t.prov[t.a].resume = 0
        /\ \A a \in t.due : t.prov[a].next <= day

TypeOK ==
    /\ BankOK
    /\ prov \in Providers
    /\ lines \in Lines
    /\ skipped \in SUBSET (Accounts \X Days)
    /\ Ordered(prov)
    /\ tx # None => PullOK(tx)

-----------------------------------------------------------------------------
(* The operators *)

\* Today is a day.
LEMMA DayNat ==
    ASSUME BankOK
    PROVE  day \in Nat /\ day >= 1 /\ day <= LastDay /\ LastDay \in Nat
  BY FeedAssumption DEF BankOK, Days

\* A provider's next run starts today, or where its pull failed.
LEMMA NextRunType ==
    ASSUME BankOK, NEW p \in Provider, p.resume \in 0..day + 1
    PROVE  /\ NextRun(p) \in Provider
           /\ NextRun(p).last = (IF p.resume # 0 THEN p.resume ELSE day)
           /\ NextRun(p).last \in 1..day + 1 /\ NextRun(p).next = day + 1
           /\ NextRun(p).session = p.session /\ NextRun(p).until = p.until /\ NextRun(p).todo = p.todo
  <1> DEFINE last == IF p.resume # 0 THEN p.resume ELSE day
             q == [p EXCEPT !.last = last, !.next = day + 1]
  <1>1. last \in 1..day + 1 /\ last \in Nat /\ day + 1 \in Nat
    BY DayNat
  <1>2. NextRun(p) = q
    BY DEF NextRun
  <1> HIDE DEF last
  <1>3. q \in Provider
    BY <1>1 DEF Provider
  <1>4. /\ q.last = last /\ q.next = day + 1
        /\ q.session = p.session /\ q.until = p.until /\ (q.todo <=> p.todo)
    BY DEF Provider
  <1> QED
    BY <1>1, <1>2, <1>3, <1>4 DEF last

\* What the pull turns to.
LEMMA TurnsTo ==
    ASSUME NEW t, NEW provs, NEW due, NEW x \in Turns(t, provs, due)
    PROVE  \/ /\ due = {}
              /\ x = [at |-> "end", seen |-> t.seen, prov |-> provs, lines |-> t.lines, skipped |-> t.skipped]
           \/ \E a \in due :
                x = [at |-> "day", a |-> a, d |-> provs[a].last, due |-> due \ {a}, seen |-> t.seen,
                     prov |-> [provs EXCEPT ![a].resume = 0], lines |-> t.lines, skipped |-> t.skipped]
  BY DEF Turns

\* Turning to a provider that is due keeps the types.
LEMMA TurnsType ==
    ASSUME BankOK, NEW t, NEW provs \in Providers, NEW due \in SUBSET Accounts,
           t.seen \in Providers, t.lines \in Lines, t.skipped \in SUBSET (Accounts \X Days),
           Ordered(provs), \A a \in due : provs[a].next <= day,
           NEW x \in Turns(t, provs, due)
    PROVE  PullOK(x) /\ x.at \in {"day", "end"}
  <1>1. CASE due = {}
    <2>1. x = [at |-> "end", seen |-> t.seen, prov |-> provs, lines |-> t.lines, skipped |-> t.skipped]
      BY <1>1, TurnsTo
    <2>2. x \in Ending
      BY <2>1 DEF Ending
    <2> QED
      BY <2>1, <2>2 DEF PullOK
  <1>2. CASE due # {}
    <2>1. PICK a \in due :
            x = [at |-> "day", a |-> a, d |-> provs[a].last, due |-> due \ {a}, seen |-> t.seen,
                 prov |-> [provs EXCEPT ![a].resume = 0], lines |-> t.lines, skipped |-> t.skipped]
      BY <1>2, TurnsTo
    <2>2. [provs EXCEPT ![a].resume = 0] \in Providers
      BY DEF Providers, Provider
    <2>3. /\ \A c \in Accounts : /\ [provs EXCEPT ![a].resume = 0][c].last = provs[c].last
                                 /\ [provs EXCEPT ![a].resume = 0][c].next = provs[c].next
          /\ [provs EXCEPT ![a].resume = 0][a].resume = 0
      BY DEF Providers, Provider
    <2>4. provs[a].last \in Days /\ provs[a].last <= day
      <3>1. provs[a].next \in Nat /\ provs[a].next <= day
        BY DEF Providers, Provider
      <3>2. provs[a].last \in 1..provs[a].next
        BY DEF Ordered
      <3> QED
        BY <3>1, <3>2, DayNat DEF Days
    <2>5. x \in Working
      BY <2>1, <2>2, <2>4 DEF Working
    <2> QED
      BY <2>1, <2>3, <2>4, <2>5 DEF PullOK, Ordered
  <1> QED
    BY <1>1, <1>2

\* So does the end of a provider's pull.
LEMMA EndsType ==
    ASSUME BankOK, PullOK(tx), tx \in Working, NEW t,
           t.a = tx.a, t.due = tx.due, t.seen = tx.seen, t.lines = tx.lines,
           t.skipped \in SUBSET (Accounts \X Days),
           NEW provs \in Providers, provs[tx.a].resume \in 0..day + 1,
           \A a \in Accounts : provs[a].last = tx.prov[a].last /\ provs[a].next = tx.prov[a].next,
           NEW x \in EndProvider(t, provs)
    PROVE  PullOK(x)
  <1> DEFINE after == [provs EXCEPT ![tx.a] = NextRun(provs[tx.a])]
  <1>1. tx.a \in Accounts /\ tx.due \subseteq Accounts /\ tx.seen \in Providers /\ tx.lines \in Lines
    BY DEF Working
  <1>2. day \in Nat \ {0}
    BY DayNat
  <1>3. /\ NextRun(provs[tx.a]) \in Provider
        /\ NextRun(provs[tx.a]).last \in 1..day + 1 /\ NextRun(provs[tx.a]).next = day + 1
    BY <1>1, NextRunType DEF Providers
  <1>4. after \in Providers /\ Ordered(after)
    BY <1>1, <1>2, <1>3 DEF Providers, Ordered, PullOK
  <1>5. tx.a \notin tx.due /\ \A a \in tx.due : tx.prov[a].next <= day
    BY DEF PullOK, Working
  <1>6. \A a \in tx.due : after[a].next <= day
    BY <1>1, <1>4, <1>5 DEF Providers
  <1>7. x \in Turns(t, after, tx.due)
    BY DEF EndProvider
  <1> HIDE DEF after
  <1> QED
    BY <1>1, <1>4, <1>6, <1>7, TurnsType

\* The import ids of a day's payments.
LEMMA IdsType ==
    ASSUME NEW d \in Days, NEW n \in 0..MaxBooked
    PROVE  Ids(d, n) \subseteq Days \X (0..MaxBooked)
  BY FeedAssumption DEF Ids

\* A provider that is connected.
LEMMA ConnectedType ==
    ASSUME NEW p \in Provider, NEW n \in Nat, NEW m \in Nat, NEW q, q = Connected(p, n, m)
    PROVE  /\ q \in Provider
           /\ q.session = n /\ q.until = m /\ ~q.todo /\ q.last = p.last /\ q.next = p.next /\ q.resume = p.resume
  <1>1. q \in Provider
    BY DEF Provider, Connected
  <1>2. q.session = n /\ q.until = m /\ ~q.todo /\ q.last = p.last /\ q.next = p.next /\ q.resume = p.resume
    BY DEF Provider, Connected
  <1> QED
    BY <1>1, <1>2

\* Statement lines and payments are finitely many.
LEMMA LinesFinite ==
    ASSUME NEW S \in SUBSET (Days \X (0..MaxBooked))
    PROVE  IsFiniteSet(S) /\ Cardinality(S) \in Nat
  <1>1. IsFiniteSet(Days) /\ IsFiniteSet(0..MaxBooked)
    BY FeedAssumption, FS_Interval DEF Days
  <1>2. IsFiniteSet(Days \X (0..MaxBooked))
    BY <1>1, FS_Product
  <1> QED
    BY <1>2, FS_Subset, FS_CardinalityType

LEMMA PaymentsFinite ==
    ASSUME NEW a
    PROVE  /\ Payments(a) \in SUBSET (Days \X (0..MaxBooked))
           /\ Cardinality(Payments(a)) \in Nat
  <1>1. Payments(a) \in SUBSET (Days \X (0..MaxBooked))
    BY FeedAssumption DEF Payments
  <1> QED
    BY <1>1, LinesFinite

\* The difference it warns of is a number.
LEMMA AlarmInt ==
    ASSUME BankOK, NEW a \in Accounts, NEW S \in SUBSET (Days \X (0..MaxBooked)), NEW balance \in Balances(a)
    PROVE  Alarm(S, balance) \in Int
  <1>1. Cardinality(S) \in Nat
    BY LinesFinite
  <1>2. balance.booked \in Int
    <2>1. Cardinality(Payments(a)) \in Nat /\ booked[a][day] \in Nat
      BY PaymentsFinite, FeedAssumption DEF BankOK
    <2> QED
      BY <2>1 DEF Balances
  <1> QED
    BY <1>1, <1>2 DEF Alarm

-----------------------------------------------------------------------------
(* The types are kept *)

LEMMA InitTypeOK == Init => TypeOK
  <1> SUFFICES ASSUME Init PROVE TypeOK
    OBVIOUS
  <1>1. NewProvider \in Provider
    BY DEF NewProvider, Provider
  <1>2. prov \in Providers /\ Ordered(prov)
    BY <1>1 DEF Init, Providers, Ordered, NewProvider
  <1>3. BankOK
    BY FeedAssumption DEF Init, BankOK, Days, Granted
  <1> QED
    BY <1>2, <1>3 DEF Init, TypeOK, Lines

\* A session is granted.
LEMMA CallbackTypeOK ==
    ASSUME TypeOK, NEW a \in Accounts, NEW chosen \in SUBSET Accounts, Callback(a, chosen)
    PROVE  TypeOK'
  <1> DEFINE s == Len(granted) + 1
             until == day + ConsentDays
             old == [r \in DOMAIN granted |-> [granted[r] EXCEPT !.live = FALSE]]
  <1>1. s \in Nat /\ until \in Nat
    BY FeedAssumption, DayNat DEF TypeOK, BankOK
  <1>2. granted' \in Seq(Granted)
    <2>1. granted \in Seq(Granted)
      BY DEF TypeOK, BankOK
    <2>2. \A g \in Granted : [g EXCEPT !.live = FALSE] \in Granted
      BY DEF Granted
    <2>3. old \in Seq(Granted)
      BY <2>1, <2>2
    <2>4. [until |-> until, live |-> TRUE] \in Granted
      BY <1>1 DEF Granted
    <2>5. granted' = Append(old, [until |-> until, live |-> TRUE])
      BY DEF Callback
    <2> HIDE DEF old, until
    <2> QED
      BY <2>3, <2>4, <2>5
  <1>3. prov' \in Providers /\ Ordered(prov')
    <2>1. prov \in Providers /\ Ordered(prov)
      BY DEF TypeOK
    <2>2. ASSUME NEW b \in Accounts
          PROVE  prov'[b] \in Provider /\ prov'[b].last = prov[b].last /\ prov'[b].next = prov[b].next
      <3>1. prov[b] \in Provider
        BY <2>1 DEF Providers
      <3>2. prov'[b] = IF b \in chosen THEN Connected(prov[b], s, until)
                       ELSE IF b = a THEN [prov[b] EXCEPT !.auth = FALSE, !.session = s, !.account = FALSE,
                                                          !.until = until]
                       ELSE prov[b]
        BY DEF Callback
      <3> HIDE DEF s, until
      <3>3. CASE b \in chosen
        <4>1. /\ Connected(prov[b], s, until) \in Provider
              /\ Connected(prov[b], s, until).last = prov[b].last /\ Connected(prov[b], s, until).next = prov[b].next
          BY <1>1, <3>1, ConnectedType, SMTT(30)
        <4> QED
          BY <3>2, <3>3, <4>1
      <3>4. CASE b \notin chosen /\ b = a
        <4> DEFINE q == [prov[b] EXCEPT !.auth = FALSE, !.session = s, !.account = FALSE, !.until = until]
        <4>1. q \in Provider /\ q.last = prov[b].last /\ q.next = prov[b].next
          BY <1>1, <3>1 DEF Provider
        <4>2. prov'[b] = q
          BY <3>2, <3>4
        <4> QED
          BY <4>1, <4>2
      <3>5. CASE b \notin chosen /\ b # a
        BY <3>1, <3>2, <3>5
      <3> QED
        BY <3>3, <3>4, <3>5
    <2>3. prov' = [b \in Accounts |-> prov'[b]]
      BY DEF Callback
    <2> QED
      BY <2>1, <2>2, <2>3 DEF Providers, Ordered
  <1> QED
    BY <1>2, <1>3 DEF Callback, TypeOK, BankOK, PullOK

\* Users, consents and the bank keep the types.
LEMMA OthersTypeOK ==
    ASSUME TypeOK,
           \/ \E a \in Accounts : Authorize(a) \/ Reset(a)
           \/ CheckConsents
           \/ \E s \in DOMAIN granted : EndSession(s)
    PROVE  TypeOK'
  <1>1. prov \in Providers /\ Ordered(prov)
    BY DEF TypeOK
  <1>2. ASSUME prov' = [c \in Accounts |-> prov'[c]],
               \A c \in Accounts : /\ prov'[c] \in Provider
                                   /\ prov'[c].last = prov[c].last /\ prov'[c].next = prov[c].next
        PROVE  prov' \in Providers /\ Ordered(prov')
    BY <1>1, <1>2 DEF Providers, Ordered
  <1>3. ASSUME NEW a \in Accounts, Authorize(a) PROVE TypeOK'
    <2>1. prov' = [c \in Accounts |-> prov'[c]]
      BY <1>1, <1>3 DEF Authorize, Providers
    <2>2. \A c \in Accounts : /\ prov'[c] \in Provider
                              /\ prov'[c].last = prov[c].last /\ prov'[c].next = prov[c].next
      BY <1>1, <1>3 DEF Authorize, Providers, Provider
    <2> QED
      BY <1>2, <1>3, <2>1, <2>2 DEF Authorize, TypeOK, BankOK, PullOK, bank
  <1>4. ASSUME NEW a \in Accounts, Reset(a) PROVE TypeOK'
    <2>1. prov' = [c \in Accounts |-> prov'[c]]
      BY <1>1, <1>4 DEF Reset, Providers
    <2>4. prov[a] \in Provider /\ \A c \in Accounts : c # a => prov'[c] = prov[c]
      BY <1>1, <1>4 DEF Reset, Providers
    <2>5. prov'[a] = [prov[a] EXCEPT !.auth = FALSE, !.session = 0, !.until = 0, !.account = FALSE]
      BY <1>1, <1>4 DEF Reset, Providers
    <2>6. prov'[a] \in Provider /\ prov'[a].last = prov[a].last /\ prov'[a].next = prov[a].next
      <3> DEFINE old == prov[a]
                 new == [old EXCEPT !.auth = FALSE, !.session = 0, !.until = 0, !.account = FALSE]
      <3>1. old \in Provider /\ prov'[a] = new
        BY <2>4, <2>5
      <3> HIDE DEF old
      <3>2. new \in Provider
        BY <3>1 DEF Provider
      <3>3. new.last = old.last /\ new.next = old.next
        BY <3>1 DEF Provider
      <3> HIDE DEF new
      <3> QED
        BY <3>1, <3>2, <3>3 DEF old
    <2>2. \A c \in Accounts : prov'[c] \in Provider
      BY <1>1, <2>4, <2>6 DEF Providers
    <2>3. \A c \in Accounts : prov'[c].last = prov[c].last /\ prov'[c].next = prov[c].next
      BY <2>4, <2>6
    <2> QED
      BY <1>2, <1>4, <2>1, <2>2, <2>3 DEF Reset, TypeOK, BankOK, PullOK, bank
  <1>5. CASE CheckConsents
    <2>1. prov' = [c \in Accounts |-> prov'[c]]
      BY <1>5 DEF CheckConsents
    <2>2. \A c \in Accounts : prov'[c] \in Provider
      BY <1>1, <1>5 DEF CheckConsents, Providers, Provider
    <2>3. \A c \in Accounts : prov'[c].last = prov[c].last /\ prov'[c].next = prov[c].next
      BY <1>1, <1>5 DEF CheckConsents, Providers, Provider
    <2> QED
      BY <1>2, <1>5, <2>1, <2>2, <2>3 DEF CheckConsents, TypeOK, BankOK, PullOK, bank
  <1>6. ASSUME NEW s \in DOMAIN granted, EndSession(s)
        PROVE  TypeOK'
    <2>1. granted \in Seq(Granted)
      BY DEF TypeOK, BankOK
    <2>2. granted' = [granted EXCEPT ![s] = [granted[s] EXCEPT !.live = FALSE]]
      BY <1>6 DEF EndSession
    <2>3. [granted[s] EXCEPT !.live = FALSE] \in Granted
      <3>1. granted[s] \in Granted
        BY <2>1
      <3> QED
        BY <3>1 DEF Granted
    <2>4. granted' \in Seq(Granted)
      BY <2>1, <2>2, <2>3, <1>6
    <2> QED
      BY <1>6, <2>4 DEF EndSession, TypeOK, BankOK, PullOK, db
  <1> QED
    BY <1>3, <1>4, <1>5, <1>6

\* Payments of a day that is not over can be booked while there is room.
LEMMA BookTypeOK ==
    ASSUME TypeOK, NEW a \in Accounts, Book(a)
    PROVE  TypeOK'
  <1> DEFINE all == UNION {{b} \X Payments(b) : b \in Accounts}
             today == {a} \X ({day} \X (1..booked[a][day]))
             f == [k \in 1..booked[a][day] |-> <<a, <<day, k>>>>]
  <1>1. BankOK /\ MaxBooked \in Nat
    BY FeedAssumption DEF TypeOK
  <1>2. booked[a][day] \in 0..MaxBooked /\ day \in Days
    BY <1>1 DEF BankOK
  <1>3. IsFiniteSet(all) /\ Cardinality(all) \in Nat
    <2>1. all \in SUBSET (Accounts \X (Days \X (0..MaxBooked)))
      BY PaymentsFinite
    <2>2. IsFiniteSet(Days) /\ IsFiniteSet(0..MaxBooked)
      BY FeedAssumption, FS_Interval DEF Days
    <2>3. IsFiniteSet(Accounts \X (Days \X (0..MaxBooked)))
      BY <2>2, FS_Product, FeedAssumption
    <2> QED
      BY <2>1, <2>3, FS_Subset, FS_CardinalityType
  <1>4. booked[a][day] <= Cardinality(all)
    <2>1. \A k \in 1..booked[a][day] : <<day, k>> \in Payments(a)
      BY <1>1, <1>2 DEF Payments
    <2>2. f \in [1..booked[a][day] -> all]
      BY <2>1
    <2>3. \A j, k \in 1..booked[a][day] : f[j] = f[k] => j = k
      OBVIOUS
    <2>4. f \in Injection(1..booked[a][day], all)
      BY <2>2, <2>3, Fun_IsInj
    <2>5. Cardinality(1..booked[a][day]) <= Cardinality(all)
      BY <1>3, <2>4, FS_Injection
    <2>6. Cardinality(1..booked[a][day]) = booked[a][day]
      BY <1>2, FS_Interval
    <2> QED
      BY <2>5, <2>6
  <1>5. Cardinality(all) < MaxBooked
    BY DEF Book
  <1>6. booked[a][day] + 1 \in 0..MaxBooked
    <2> HIDE DEF all
    <2> QED
      BY <1>1, <1>2, <1>3, <1>4, <1>5
  <1>7. booked' \in [Accounts -> [Days -> 0..MaxBooked]]
    BY <1>1, <1>6 DEF Book, BankOK
  <1> QED
    BY <1>7 DEF Book, TypeOK, BankOK, PullOK, db

\* Days pass between the pulls.
LEMMA NextDayTypeOK ==
    ASSUME TypeOK, NextDay
    PROVE  TypeOK'
  <1>1. day + 1 \in Days
    BY FeedAssumption DEF NextDay, TypeOK, BankOK, Days
  <1> QED
    BY <1>1 DEF NextDay, TypeOK, BankOK, db

\* Imports by hand keep the types.
LEMMA ImportTypeOK ==
    ASSUME TypeOK, NEW a \in Accounts,
           \/ \E first, last \in 1..day : ManualPull(a, first, last)
           \/ \E d \in 1..day : ImportFile(a, d)
    PROVE  TypeOK'
  <1>1. BankOK /\ prov \in Providers /\ Ordered(prov) /\ lines \in Lines
    BY DEF TypeOK
  <1>2. \A d \in 1..day : d \in Days
    BY <1>1, DayNat DEF Days
  <1>3. ASSUME NEW first \in 1..day, NEW last \in 1..day, ManualPull(a, first, last)
        PROVE  TypeOK'
    <2>1. ASSUME NEW d \in first..last PROVE Ids(d, booked[a][d]) \subseteq Days \X (0..MaxBooked)
      <3>1. d \in Days
        BY <1>1, <1>2, DayNat
      <3>2. booked[a][d] \in 0..MaxBooked
        BY <1>1, <3>1 DEF BankOK
      <3> QED
        BY <3>1, <3>2, IdsType
    <2>2. lines' = [lines EXCEPT ![a] = lines[a] \cup UNION {Ids(d, booked[a][d]) : d \in first..last}]
      BY <1>3 DEF ManualPull
    <2>3. UNION {Ids(d, booked[a][d]) : d \in first..last} \subseteq Days \X (0..MaxBooked)
      BY <2>1
    <2>4. lines' \in Lines
      <3> HIDE DEF Ids
      <3> QED
        BY <1>1, <2>2, <2>3 DEF Lines
    <2>5. PICK balance \in Balances(a) :
              prov' = [prov EXCEPT ![a].resume = 0, ![a].pulls = @ + 1,
                                   ![a].alarm = IF last = day THEN Alarm(lines'[a], balance) ELSE @]
      BY <1>3 DEF ManualPull
    <2>6. lines'[a] \in SUBSET (Days \X (0..MaxBooked))
      BY <2>4 DEF Lines
    <2>7. Alarm(lines'[a], balance) \in Int
      BY <1>1, <2>6, AlarmInt
    <2> DEFINE alarm == IF last = day THEN Alarm(lines'[a], balance) ELSE prov[a].alarm
    <2>8. alarm \in Int /\ prov' = [prov EXCEPT ![a].resume = 0, ![a].pulls = @ + 1, ![a].alarm = alarm]
      <3>1. prov[a].alarm \in Int
        BY <1>1 DEF Providers, Provider
      <3>2. alarm \in Int
        BY <2>7, <3>1
      <3> QED
        BY <2>5, <3>2 DEF Providers
    <2> HIDE DEF alarm
    <2>9. prov' = [c \in Accounts |-> prov'[c]]
      BY <1>1, <2>8 DEF Providers
    <2>10. \A c \in Accounts : prov'[c] \in Provider
      BY <1>1, <2>8 DEF Providers, Provider
    <2>11. \A c \in Accounts : prov'[c].last = prov[c].last /\ prov'[c].next = prov[c].next
      BY <1>1, <2>8 DEF Providers, Provider
    <2>12. prov' \in Providers /\ Ordered(prov')
      BY <1>1, <2>9, <2>10, <2>11 DEF Providers, Ordered
    <2> QED
      BY <1>3, <2>4, <2>12 DEF ManualPull, TypeOK, BankOK, PullOK, bank
  <1>4. ASSUME NEW d \in 1..day, ImportFile(a, d)
        PROVE  TypeOK'
    <2>1. <<d, 0>> \in Days \X (0..MaxBooked)
      BY <1>2, FeedAssumption
    <2>2. lines' \in Lines
      BY <1>1, <1>4, <2>1 DEF ImportFile, Lines
    <2> QED
      BY <1>4, <2>2 DEF ImportFile, TypeOK, BankOK, PullOK, bank
  <1> QED
    BY <1>3, <1>4

\* The steps of the scheduled pull keep the types.
LEMMA StartTypeOK ==
    ASSUME TypeOK, StartPull
    PROVE  TypeOK'
  <1> DEFINE t == [seen |-> prov, lines |-> lines, skipped |-> skipped]
             due == {a \in Accounts : prov[a].next <= day}
  <1>1. tx' \in Turns(t, prov, due)
    BY DEF StartPull
  <1>2. t.seen \in Providers /\ t.lines \in Lines /\ t.skipped \in SUBSET (Accounts \X Days)
    BY DEF TypeOK
  <1>3. PullOK(tx')
    <2> HIDE DEF t
    <2> QED
      BY <1>1, <1>2, TurnsType DEF TypeOK
  <1> QED
    BY <1>3 DEF StartPull, TypeOK, BankOK, PullOK, bank, db

\* A pull at work has these types.
LEMMA AtWork ==
    ASSUME TypeOK, tx.at \in {"day", "balance"}
    PROVE  /\ tx \in Working /\ PullOK(tx) /\ BankOK
           /\ tx.a \in Accounts /\ tx.d \in 1..day /\ tx.d \in Days /\ tx.prov \in Providers /\ tx.lines \in Lines
           /\ tx.seen \in Providers /\ tx.skipped \in SUBSET (Accounts \X Days) /\ tx.due \in SUBSET Accounts
  <1>1. tx # None
    BY DEF None
  <1>2. PullOK(tx) /\ BankOK /\ tx \in Working /\ tx.d <= day
    BY <1>1 DEF TypeOK, PullOK
  <1>3. tx.d \in 1..day
    BY <1>2, DayNat DEF Working, Days
  <1> QED
    BY <1>2, <1>3 DEF Working

LEMMA PullDayTypeOK ==
    ASSUME TypeOK, PullDay
    PROVE  TypeOK'
  <1>1. tx.at = "day" /\ tx \in Working
    BY AtWork DEF PullDay
  <1> DEFINE ls == [tx.lines EXCEPT ![tx.a] = @ \cup Ids(tx.d, booked[tx.a][tx.d])]
             d == IF tx.d < day THEN tx.d + 1 ELSE tx.d
             at == IF tx.d < day THEN "day" ELSE "balance"
  <1>2. tx' = [tx EXCEPT !.lines = ls, !.d = d, !.at = at]
    BY <1>1 DEF PullDay, Working
  <1>3. ls \in Lines
    <2>1. booked[tx.a][tx.d] \in 0..MaxBooked
      BY <1>1, AtWork DEF BankOK
    <2>2. Ids(tx.d, booked[tx.a][tx.d]) \subseteq Days \X (0..MaxBooked)
      BY <1>1, <2>1, AtWork, IdsType
    <2> HIDE DEF Ids
    <2> QED
      BY <1>1, <2>2, AtWork DEF Lines
  <1>4. d \in Days /\ d <= day /\ at \in {"day", "balance"}
    BY <1>1, AtWork, DayNat DEF Days
  <1> HIDE DEF ls, d, at
  <1>5. tx' \in Working
    BY <1>1, <1>2, <1>3, <1>4 DEF Working
  <1>6. tx'.prov = tx.prov /\ tx'.d = d /\ tx'.a = tx.a /\ tx'.due = tx.due
    BY <1>1, <1>2 DEF Working
  <1>7. PullOK(tx')
    <2>1. PullOK(tx)
      BY <1>1, AtWork
    <2> QED
      BY <1>1, <1>4, <1>5, <1>6, <2>1 DEF PullOK
  <1> QED
    BY <1>7 DEF PullDay, TypeOK, BankOK, PullOK, bank, db

\* A failed day ends the provider's pull: it says where the next one starts or what is
\* skipped, and ends the session of all on it when the bank has ended it.
Failed(outcome, provs, t) ==
    /\ t.a = tx.a /\ t.due = tx.due /\ t.seen = tx.seen /\ t.lines = tx.lines
    /\ t.skipped = tx.skipped \cup (IF Retried(outcome, tx.d) THEN {} ELSE {<<tx.a, tx.d>>})
    /\ provs \in Providers
    /\ provs[tx.a].resume = ResumeFrom(outcome, tx.d)
    /\ \A c \in Accounts : /\ provs[c].last = tx.prov[c].last /\ provs[c].next = tx.prov[c].next
                           /\ provs[c].session = tx.prov[c].session
    /\ \/ \A c \in Accounts : provs[c].until = tx.prov[c].until /\ (provs[c].todo <=> tx.prov[c].todo)
       \/ \A c \in Accounts : IF tx.prov[c].session = tx.prov[tx.a].session
                              THEN provs[c].until = day /\ provs[c].todo
                              ELSE provs[c].until = tx.prov[c].until /\ (provs[c].todo <=> tx.prov[c].todo)
    /\ tx' \in EndProvider(t, provs)

LEMMA FailDayTo ==
    ASSUME TypeOK, FailDay
    PROVE  \E outcome, provs, t : Failed(outcome, provs, t)
  <1>1. tx.at = "day" /\ tx \in Working
    BY AtWork DEF FailDay
  <1>2. PICK outcome \in Outcomes(tx.prov[tx.a], tx.a) \ {"answer"} :
          LET resumed == [tx.prov EXCEPT ![tx.a].resume = ResumeFrom(outcome, tx.d)]
              provs == IF outcome = "ended" THEN Ended(resumed, tx.a) ELSE resumed
          IN  tx' \in EndProvider([tx EXCEPT !.skipped =
                          @ \cup (IF Retried(outcome, tx.d) THEN {} ELSE {<<tx.a, tx.d>>})], provs)
    BY DEF FailDay
  <1> DEFINE resumed == [tx.prov EXCEPT ![tx.a].resume = ResumeFrom(outcome, tx.d)]
             provs == IF outcome = "ended" THEN Ended(resumed, tx.a) ELSE resumed
             sk == tx.skipped \cup (IF Retried(outcome, tx.d) THEN {} ELSE {<<tx.a, tx.d>>})
             t == [tx EXCEPT !.skipped = sk]
  <1>3. ResumeFrom(outcome, tx.d) \in 0..day + 1 /\ ResumeFrom(outcome, tx.d) \in Nat
    BY <1>1, AtWork, DayNat DEF ResumeFrom
  <1>4. /\ resumed \in Providers /\ resumed[tx.a].resume = ResumeFrom(outcome, tx.d)
        /\ \A c \in Accounts : /\ resumed[c].last = tx.prov[c].last /\ resumed[c].next = tx.prov[c].next
                               /\ resumed[c].session = tx.prov[c].session /\ resumed[c].until = tx.prov[c].until
                               /\ (resumed[c].todo <=> tx.prov[c].todo)
    <2> HIDE DEF ResumeFrom
    <2>1. resumed = [c \in Accounts |-> resumed[c]]
      BY <1>1, AtWork DEF Providers
    <2>2. \A c \in Accounts : resumed[c] \in Provider
      BY <1>1, <1>3, AtWork DEF Providers, Provider
    <2>3. \A c \in Accounts : /\ resumed[c].last = tx.prov[c].last /\ resumed[c].next = tx.prov[c].next
                              /\ resumed[c].session = tx.prov[c].session /\ resumed[c].until = tx.prov[c].until
                              /\ (resumed[c].todo <=> tx.prov[c].todo)
      BY <1>1, AtWork DEF Providers, Provider
    <2>4. resumed[tx.a].resume = ResumeFrom(outcome, tx.d)
      BY <1>1, AtWork DEF Providers, Provider
    <2> QED
      BY <2>1, <2>2, <2>3, <2>4 DEF Providers
  <1> HIDE DEF resumed
  <1>5. /\ Ended(resumed, tx.a) \in Providers
        /\ \A c \in Accounts : /\ Ended(resumed, tx.a)[c].last = resumed[c].last
                               /\ Ended(resumed, tx.a)[c].next = resumed[c].next
                               /\ Ended(resumed, tx.a)[c].resume = resumed[c].resume
                               /\ Ended(resumed, tx.a)[c].session = resumed[c].session
                               /\ IF resumed[c].session = resumed[tx.a].session
                                  THEN Ended(resumed, tx.a)[c].until = day /\ Ended(resumed, tx.a)[c].todo
                                  ELSE /\ Ended(resumed, tx.a)[c].until = resumed[c].until
                                       /\ (Ended(resumed, tx.a)[c].todo <=> resumed[c].todo)
    <2> DEFINE e == Ended(resumed, tx.a)
    <2>1. e = [c \in Accounts |-> e[c]]
      BY DEF Ended
    <2>2. ASSUME NEW c \in Accounts
          PROVE  /\ e[c] \in Provider
                 /\ e[c].last = resumed[c].last /\ e[c].next = resumed[c].next /\ e[c].resume = resumed[c].resume
                 /\ e[c].session = resumed[c].session
                 /\ IF resumed[c].session = resumed[tx.a].session THEN e[c].until = day /\ e[c].todo
                    ELSE e[c].until = resumed[c].until /\ (e[c].todo <=> resumed[c].todo)
      <3>1. resumed[c] \in Provider /\ day \in Nat
        BY <1>1, <1>4, AtWork, DayNat DEF Providers
      <3>2. CASE resumed[c].session = resumed[tx.a].session
        <4>1. e[c] = [resumed[c] EXCEPT !.until = day, !.todo = TRUE]
          BY <3>2 DEF Ended, OnSession
        <4>2. e[c] \in Provider
          BY <3>1, <4>1 DEF Provider
        <4> QED
          BY <3>1, <3>2, <4>1, <4>2 DEF Provider
      <3>3. CASE resumed[c].session # resumed[tx.a].session
        BY <3>1, <3>3 DEF Ended, OnSession
      <3> QED
        BY <3>2, <3>3
    <2> QED
      BY <2>1, <2>2 DEF Providers
  <1>6. /\ provs \in Providers /\ provs[tx.a].resume = ResumeFrom(outcome, tx.d)
        /\ \A c \in Accounts : /\ provs[c].last = tx.prov[c].last /\ provs[c].next = tx.prov[c].next
                               /\ provs[c].session = tx.prov[c].session
    <2> HIDE DEF ResumeFrom, Ended
    <2> QED
      BY <1>1, <1>4, <1>5, AtWork
  <1>7. \/ \A c \in Accounts : provs[c].until = tx.prov[c].until /\ (provs[c].todo <=> tx.prov[c].todo)
        \/ \A c \in Accounts : IF tx.prov[c].session = tx.prov[tx.a].session
                               THEN provs[c].until = day /\ provs[c].todo
                               ELSE provs[c].until = tx.prov[c].until /\ (provs[c].todo <=> tx.prov[c].todo)
    <2>1. CASE outcome = "ended"
      <3>1. provs = Ended(resumed, tx.a)
        BY <2>1
      <3> HIDE DEF provs
      <3> QED
        BY <1>1, <1>4, <1>5, <3>1, AtWork
    <2>2. CASE outcome # "ended"
      <3>1. provs = resumed
        BY <2>2
      <3> HIDE DEF provs
      <3> QED
        BY <1>4, <3>1
    <2> QED
      BY <2>1, <2>2
  <1>8. tx' \in EndProvider(t, provs)
    <2>1. t = [tx EXCEPT !.skipped = @ \cup (IF Retried(outcome, tx.d) THEN {} ELSE {<<tx.a, tx.d>>})]
      OBVIOUS
    <2> QED
      BY <1>2, <2>1 DEF resumed
  <1> HIDE DEF provs, sk
  <1>9. t.a = tx.a /\ t.due = tx.due /\ t.seen = tx.seen /\ t.lines = tx.lines /\ t.skipped = sk
    BY <1>1 DEF Working
  <1> HIDE DEF t
  <1>10. Failed(outcome, provs, t)
    BY <1>6, <1>7, <1>8, <1>9 DEF Failed, sk
  <1> QED
    BY <1>10

\* Where the next pull starts is a day.
LEMMA ResumeFromType ==
    ASSUME TypeOK, tx.at = "day", NEW outcome
    PROVE  ResumeFrom(outcome, tx.d) \in 1..day + 1
  BY AtWork, DayNat DEF ResumeFrom

LEMMA FailDayTypeOK ==
    ASSUME TypeOK, FailDay
    PROVE  TypeOK'
  <1>1. tx.at = "day" /\ tx \in Working /\ PullOK(tx) /\ BankOK
    BY AtWork DEF FailDay
  <1>2. PICK outcome, provs, t : Failed(outcome, provs, t)
    BY FailDayTo
  <1>3. provs[tx.a].resume \in 0..day + 1
    BY <1>1, <1>2, ResumeFromType DEF Failed
  <1>4. t.skipped \in SUBSET (Accounts \X Days)
    BY <1>1, <1>2, AtWork DEF Failed
  <1>5. PullOK(tx')
    BY <1>1, <1>2, <1>3, <1>4, EndsType DEF Failed
  <1> QED
    BY <1>5 DEF FailDay, TypeOK, BankOK, PullOK, bank, db

\* A provider's pull ends with its balances.
LEMMA BalanceTypeOK ==
    ASSUME TypeOK, CheckBalance \/ NoBalance
    PROVE  TypeOK'
  <1>1. tx.at = "balance" /\ tx \in Working /\ tx.prov[tx.a].resume = 0 /\ day \in Nat
    BY AtWork, DayNat DEF CheckBalance, NoBalance, PullOK
  <1>2. PullOK(tx) /\ BankOK /\ tx.skipped \in SUBSET (Accounts \X Days)
    BY <1>1, AtWork
  <1>3. CASE CheckBalance
    <2>1. PICK balance \in Balances(tx.a) :
              tx' \in EndProvider(tx, [tx.prov EXCEPT ![tx.a].alarm = Alarm(tx.lines[tx.a], balance)])
      BY <1>3 DEF CheckBalance
    <2> DEFINE alarm == Alarm(tx.lines[tx.a], balance)
               provs == [tx.prov EXCEPT ![tx.a].alarm = alarm]
    <2>2. alarm \in Int
      <3>1. tx.lines[tx.a] \in SUBSET (Days \X (0..MaxBooked))
        BY <1>1, AtWork DEF Lines
      <3> QED
        BY <1>1, <3>1, AtWork, AlarmInt
    <2> HIDE DEF alarm
    <2>9. tx.prov \in Providers /\ tx.a \in Accounts
      BY <1>1, AtWork
    <2>3. /\ provs = [c \in Accounts |-> provs[c]]
          /\ provs[tx.a] = [tx.prov[tx.a] EXCEPT !.alarm = alarm]
          /\ \A c \in Accounts : c # tx.a => provs[c] = tx.prov[c]
      BY <2>9 DEF Providers
    <2>4. provs \in Providers
      <3>1. provs[tx.a] \in Provider
        BY <2>2, <2>3, <2>9 DEF Providers, Provider
      <3>2. \A c \in Accounts : provs[c] \in Provider
        BY <2>3, <2>9, <3>1 DEF Providers
      <3> HIDE DEF provs
      <3> QED
        BY <2>3, <3>2 DEF Providers
    <2>5. \A c \in Accounts : /\ provs[c].last = tx.prov[c].last /\ provs[c].next = tx.prov[c].next
                              /\ provs[c].resume = tx.prov[c].resume
      BY <2>3, <2>9 DEF Providers, Provider
    <2>6. provs[tx.a].resume \in 0..day + 1
      BY <1>1, <2>5, AtWork
    <2>7. tx' \in EndProvider(tx, provs)
      BY <2>1 DEF alarm
    <2> HIDE DEF provs
    <2>8. PullOK(tx')
      BY <1>1, <1>2, <2>4, <2>5, <2>6, <2>7, EndsType
    <2> QED
      BY <1>3, <2>8 DEF CheckBalance, TypeOK, BankOK, PullOK, bank, db
  <1>4. CASE NoBalance
    <2>1. PullOK(tx')
      <3>1. tx.prov \in Providers /\ tx.prov[tx.a].resume \in 0..day + 1
        BY <1>1, AtWork
      <3> QED
        BY <1>1, <1>2, <1>4, <3>1, EndsType DEF NoBalance
    <2> QED
      BY <1>4, <2>1 DEF NoBalance, TypeOK, BankOK, PullOK, bank, db
  <1> QED
    BY <1>3, <1>4

\* What the commit writes.
LEMMA CommitTypeOK ==
    ASSUME TypeOK, CommitPull
    PROVE  TypeOK'
  <1>1. tx.at = "end" /\ tx # None
    BY DEF CommitPull, None
  <1>2. tx.prov \in Providers /\ Ordered(tx.prov) /\ tx.lines \in Lines /\ tx.skipped \in SUBSET (Accounts \X Days)
    BY <1>1 DEF TypeOK, PullOK, Working, Ending
  <1>3. CASE Taken
    BY <1>3 DEF CommitPull, TypeOK, BankOK, PullOK, bank, db
  <1>4. CASE ~Taken
    <2>1. prov' \in Providers /\ Ordered(prov')
      BY <1>2, <1>4 DEF CommitPull, TypeOK, Providers, Ordered
    <2>2. lines' \in Lines
      BY <1>2, <1>4 DEF CommitPull, TypeOK, Lines
    <2>3. skipped' \in SUBSET (Accounts \X Days)
      BY <1>2, <1>4 DEF CommitPull, TypeOK
    <2> QED
      BY <2>1, <2>2, <2>3 DEF CommitPull, TypeOK, BankOK, bank
  <1> QED
    BY <1>3, <1>4

LEMMA NextTypeOK == TypeOK /\ [Next]_vars => TypeOK'
  <1> SUFFICES ASSUME TypeOK, [Next]_vars PROVE TypeOK'
    OBVIOUS
  <1>1. CASE UNCHANGED vars
    BY <1>1 DEF vars, bank, db, TypeOK, BankOK, PullOK
  <1>2. CASE CheckConsents
    BY <1>2, OthersTypeOK
  <1>3. ASSUME NEW s \in DOMAIN granted, EndSession(s) PROVE TypeOK'
    BY <1>3, OthersTypeOK
  <1>4. CASE ScheduledPull
    BY <1>4, StartTypeOK, PullDayTypeOK, FailDayTypeOK, BalanceTypeOK, CommitTypeOK DEF ScheduledPull
  <1> QED
    BY <1>1, <1>2, <1>3, <1>4, CallbackTypeOK, OthersTypeOK, BookTypeOK, ImportTypeOK, NextDayTypeOK DEF Next

\* The types hold throughout.
THEOREM Typing == Spec => []TypeOK
  BY InitTypeOK, NextTypeOK, PTL DEF Spec

-----------------------------------------------------------------------------
(* Providers on one session agree *)

\* SessionsAgree for any providers, those a pull has read and written included.
Agree(provs) ==
    \A a, b \in Accounts :
        provs[a].session # 0 /\ provs[a].session = provs[b].session =>
            /\ provs[a].until = provs[b].until
            /\ provs[a].until < granted[provs[a].session].until => provs[a].todo

Bound(provs) == \A a \in Accounts : provs[a].session <= Len(granted)

\* A pull leaves the sessions alone, what it read and what it writes agree, and a provider
\* that others have meanwhile bound to a session is on none that the pull has read.
PullAgrees(t) ==
    /\ Agree(t.prov) /\ Agree(t.seen) /\ Bound(t.seen)
    /\ \A a \in Accounts :
        /\ t.prov[a].session = t.seen[a].session
        /\ \/ prov[a].session \in {0, t.seen[a].session}
           \/ \A b \in Accounts : prov[a].session > t.seen[b].session

SessionInv == Agree(prov) /\ Bound(prov) /\ (tx # None => PullAgrees(tx))

\* Providers that are on the same sessions for as long agree when they have more to-dos.
LEMMA SameAgree ==
    ASSUME NEW old, NEW new, Agree(old),
           \A a \in Accounts : /\ new[a].session = old[a].session /\ new[a].until = old[a].until
                               /\ (old[a].todo => new[a].todo)
    PROVE  Agree(new)
  BY DEF Agree

\* New sessions change nothing about the old ones.
LEMMA GrantedAgree ==
    ASSUME NEW provs \in Providers, Agree(provs), Bound(provs), granted \in Seq(Granted),
           Len(granted') >= Len(granted), Len(granted') \in Nat,
           \A r \in 1..Len(granted) : granted'[r].until = granted[r].until
    PROVE  /\ \A a, b \in Accounts :
                provs[a].session # 0 /\ provs[a].session = provs[b].session =>
                    /\ provs[a].until = provs[b].until
                    /\ provs[a].until < granted'[provs[a].session].until => provs[a].todo
           /\ \A a \in Accounts : provs[a].session <= Len(granted')
  <1>1. \A a \in Accounts : provs[a].session \in Nat
    BY DEF Providers, Provider
  <1>2. Len(granted) \in Nat
    OBVIOUS
  <1>3. \A a \in Accounts : provs[a].session # 0 => provs[a].session \in 1..Len(granted)
    BY <1>1, <1>2 DEF Bound
  <1>4. \A a \in Accounts : provs[a].session # 0 =>
            granted'[provs[a].session].until = granted[provs[a].session].until
    BY <1>3
  <1> QED
    BY <1>1, <1>2, <1>4 DEF Agree, Bound

\* Turning to the next provider changes no session.
LEMMA TurnsKeep ==
    ASSUME NEW t, NEW provs \in Providers, NEW due \in SUBSET Accounts, NEW x \in Turns(t, provs, due)
    PROVE  /\ x.seen = t.seen /\ x.lines = t.lines /\ x.skipped = t.skipped
           /\ \A c \in Accounts : /\ x.prov[c].session = provs[c].session /\ x.prov[c].until = provs[c].until
                                  /\ (x.prov[c].todo <=> provs[c].todo)
                                  /\ x.prov[c].last = provs[c].last
           /\ x.at = "day" => x.a \in due /\ x.d = provs[x.a].last
           /\ x.at \in {"day", "end"}
  <1>1. CASE due = {}
    BY <1>1, TurnsTo
  <1>2. CASE due # {}
    <2>1. PICK a \in due :
            x = [at |-> "day", a |-> a, d |-> provs[a].last, due |-> due \ {a}, seen |-> t.seen,
                 prov |-> [provs EXCEPT ![a].resume = 0], lines |-> t.lines, skipped |-> t.skipped]
      BY <1>2, TurnsTo
    <2> DEFINE after == [provs EXCEPT ![a].resume = 0]
    <2>2. \A c \in Accounts : /\ after[c].session = provs[c].session /\ after[c].until = provs[c].until
                              /\ (after[c].todo <=> provs[c].todo)
                              /\ after[c].last = provs[c].last
      BY DEF Providers, Provider
    <2> HIDE DEF after
    <2>3. x = [at |-> "day", a |-> a, d |-> provs[a].last, due |-> due \ {a}, seen |-> t.seen,
               prov |-> after, lines |-> t.lines, skipped |-> t.skipped]
      BY <2>1 DEF after
    <2> QED
      BY <2>2, <2>3
  <1> QED
    BY <1>1, <1>2

LEMMA EndsKeep ==
    ASSUME TypeOK, tx.at \in {"day", "balance"}, NEW t, t.a = tx.a, t.due = tx.due,
           NEW provs \in Providers, provs[tx.a].resume \in 0..day + 1, NEW x \in EndProvider(t, provs)
    PROVE  /\ x.seen = t.seen /\ x.lines = t.lines /\ x.skipped = t.skipped
           /\ \A c \in Accounts : /\ x.prov[c].session = provs[c].session /\ x.prov[c].until = provs[c].until
                                  /\ (x.prov[c].todo <=> provs[c].todo)
                                  /\ x.prov[c].last = IF c # tx.a THEN provs[c].last
                                                      ELSE IF provs[c].resume # 0 THEN provs[c].resume
                                                      ELSE day
           /\ x.at = "day" => x.a \in tx.due /\ x.a # tx.a /\ x.d = provs[x.a].last
           /\ x.at \in {"day", "end"}
  <1> DEFINE after == [provs EXCEPT ![tx.a] = NextRun(provs[tx.a])]
  <1>1. tx.a \in Accounts /\ tx.due \in SUBSET Accounts /\ tx.a \notin tx.due /\ BankOK
    BY AtWork DEF PullOK
  <1>2. provs[tx.a] \in Provider
    BY <1>1 DEF Providers
  <1>3. /\ after \in Providers
        /\ \A c \in Accounts : /\ after[c].session = provs[c].session /\ after[c].until = provs[c].until
                               /\ (after[c].todo <=> provs[c].todo)
                               /\ after[c].last = IF c # tx.a THEN provs[c].last
                                                  ELSE IF provs[c].resume # 0 THEN provs[c].resume
                                                  ELSE day
    BY <1>1, <1>2, NextRunType DEF Providers
  <1>4. x \in Turns(t, after, tx.due)
    BY DEF EndProvider
  <1> HIDE DEF after
  <1> QED
    BY <1>1, <1>3, <1>4, TurnsKeep

\* A step that grants no session, and changes providers only in ways that keep sessions,
\* or leave them, keeps the invariant when the pull stays.
LEMMA QuietSessions ==
    ASSUME TypeOK, SessionInv, granted \in Seq(Granted), tx' = tx,
           Len(granted') = Len(granted),
           \A r \in 1..Len(granted) : granted'[r].until = granted[r].until,
           \A a \in Accounts : \/ prov'[a].session = 0
                               \/ /\ prov'[a].session = prov[a].session /\ prov'[a].until = prov[a].until
                                  /\ (prov[a].todo => prov'[a].todo)
    PROVE  SessionInv'
  <1>1. prov \in Providers /\ Len(granted) \in Nat
    BY DEF TypeOK
  <1>2. Agree(prov)' /\ Bound(prov)'
    <2>1. \A a, b \in Accounts :
              prov[a].session # 0 /\ prov[a].session = prov[b].session =>
                  /\ prov[a].until = prov[b].until
                  /\ prov[a].until < granted'[prov[a].session].until => prov[a].todo
      BY <1>1, GrantedAgree DEF SessionInv
    <2> QED
      BY <1>1, <2>1 DEF Agree, Bound, SessionInv
  <1>3. ASSUME tx' # None PROVE PullAgrees(tx)'
    <2>1. PullAgrees(tx) /\ tx.prov \in Providers /\ tx.seen \in Providers
      BY <1>3 DEF SessionInv, TypeOK, PullOK, Working, Ending
    <2>2. Bound(tx.prov)
      BY <2>1 DEF PullAgrees, Bound
    <2>3. Agree(tx.prov)'
      <3> DEFINE provs == tx.prov
      <3>1. provs \in Providers /\ Agree(provs) /\ Bound(provs) /\ tx'.prov = provs
        BY <2>1, <2>2 DEF PullAgrees
      <3> HIDE DEF provs
      <3>2. /\ \A b, c \in Accounts :
                 provs[b].session # 0 /\ provs[b].session = provs[c].session =>
                     /\ provs[b].until = provs[c].until
                     /\ provs[b].until < granted'[provs[b].session].until => provs[b].todo
            /\ \A b \in Accounts : provs[b].session <= Len(granted')
        BY <1>1, <3>1, GrantedAgree
      <3> QED
        BY <3>1, <3>2 DEF Agree
    <2>4. Agree(tx.seen)' /\ Bound(tx.seen)'
      <3> DEFINE provs == tx.seen
      <3>1. provs \in Providers /\ Agree(provs) /\ Bound(provs) /\ tx'.seen = provs
        BY <2>1, <2>2 DEF PullAgrees
      <3> HIDE DEF provs
      <3>2. /\ \A b, c \in Accounts :
                 provs[b].session # 0 /\ provs[b].session = provs[c].session =>
                     /\ provs[b].until = provs[c].until
                     /\ provs[b].until < granted'[provs[b].session].until => provs[b].todo
            /\ \A b \in Accounts : provs[b].session <= Len(granted')
        BY <1>1, <3>1, GrantedAgree
      <3> QED
        BY <3>1, <3>2 DEF Agree, Bound
    <2> QED
      BY <2>1, <2>3, <2>4 DEF PullAgrees
  <1> QED
    BY <1>2, <1>3 DEF SessionInv

LEMMA InitSessions == Init => SessionInv
  BY DEF Init, SessionInv, Agree, Bound, NewProvider

\* Everything but a new session and the scheduled pull.
LEMMA OthersSessions ==
    ASSUME TypeOK, SessionInv,
           \/ \E a \in Accounts : \/ Authorize(a) \/ Reset(a) \/ Book(a)
                                  \/ \E first, last \in 1..day : ManualPull(a, first, last)
                                  \/ \E d \in 1..day : ImportFile(a, d)
           \/ CheckConsents
           \/ \E s \in DOMAIN granted : EndSession(s)
           \/ NextDay
           \/ UNCHANGED vars
    PROVE  SessionInv'
  <1>1. prov \in Providers /\ granted \in Seq(Granted)
    BY DEF TypeOK, BankOK
  <1>2. ASSUME tx' = tx, granted' = granted,
               \A a \in Accounts : \/ prov'[a].session = 0
                                   \/ /\ prov'[a].session = prov[a].session /\ prov'[a].until = prov[a].until
                                      /\ (prov[a].todo => prov'[a].todo)
        PROVE  SessionInv'
    BY <1>1, <1>2, QuietSessions
  <1>3. ASSUME NEW a \in Accounts, Authorize(a) PROVE SessionInv'
    BY <1>1, <1>2, <1>3 DEF Authorize, bank, Providers, Provider
  <1>4. ASSUME NEW a \in Accounts, Reset(a) PROVE SessionInv'
    <2>1. prov'[a].session = 0
      BY <1>1, <1>4 DEF Reset, Providers, Provider
    <2>2. \A c \in Accounts : c # a => prov'[c] = prov[c]
      BY <1>1, <1>4 DEF Reset, Providers
    <2>3. tx' = tx /\ granted' = granted
      BY <1>4 DEF Reset, bank
    <2> QED
      BY <1>2, <2>1, <2>2, <2>3
  <1>5. ASSUME NEW a \in Accounts, Book(a) PROVE SessionInv'
    BY <1>2, <1>5 DEF Book, db
  <1>6. ASSUME NEW a \in Accounts, NEW first \in 1..day, NEW last \in 1..day, ManualPull(a, first, last)
        PROVE  SessionInv'
    <2>1. PICK balance \in Balances(a) :
              prov' = [prov EXCEPT ![a].resume = 0, ![a].pulls = @ + 1,
                                   ![a].alarm = IF last = day THEN Alarm(lines'[a], balance) ELSE @]
      BY <1>6 DEF ManualPull
    <2>2. PICK alarm : prov' = [prov EXCEPT ![a].resume = 0, ![a].pulls = @ + 1, ![a].alarm = alarm]
      BY <1>1, <2>1 DEF Providers
    <2>3. \A c \in Accounts : /\ prov'[c].session = prov[c].session /\ prov'[c].until = prov[c].until
                              /\ (prov[c].todo => prov'[c].todo)
      BY <1>1, <2>2 DEF Providers, Provider
    <2> QED
      BY <1>2, <1>6, <2>3 DEF ManualPull, bank
  <1>7. ASSUME NEW a \in Accounts, NEW d \in 1..day, ImportFile(a, d) PROVE SessionInv'
    BY <1>2, <1>7 DEF ImportFile, bank
  <1>8. CASE CheckConsents
    BY <1>1, <1>2, <1>8 DEF CheckConsents, bank, Providers, Provider
  <1>9. ASSUME NEW s \in DOMAIN granted, EndSession(s) PROVE SessionInv'
    <2>1. s \in 1..Len(granted) /\ granted' = [granted EXCEPT ![s] = [granted[s] EXCEPT !.live = FALSE]]
      BY <1>1, <1>9 DEF EndSession
    <2>2. \A r \in 1..Len(granted) : granted[r] \in Granted
      BY <1>1
    <2>3. Len(granted') = Len(granted) /\ \A r \in 1..Len(granted) : granted'[r].until = granted[r].until
      BY <1>1, <2>1, <2>2 DEF Granted
    <2> QED
      BY <1>1, <1>9, <2>3, QuietSessions DEF EndSession, db
  <1>10. CASE NextDay
    BY <1>2, <1>10 DEF NextDay, db
  <1>11. CASE UNCHANGED vars
    BY <1>2, <1>11 DEF vars, bank, db
  <1> QED
    BY <1>3, <1>4, <1>5, <1>6, <1>7, <1>8, <1>9, <1>10, <1>11

\* A new session is new to every provider, and to the pull.
LEMMA CallbackSessions ==
    ASSUME TypeOK, SessionInv, NEW a \in Accounts, NEW chosen \in SUBSET Accounts, Callback(a, chosen)
    PROVE  SessionInv'
  <1> DEFINE s == Len(granted) + 1
             until == day + ConsentDays
             old == [r \in DOMAIN granted |-> [granted[r] EXCEPT !.live = FALSE]]
  <1>1. /\ prov \in Providers /\ granted \in Seq(Granted) /\ Len(granted) \in Nat
        /\ s \in Nat /\ until \in Nat
    BY FeedAssumption, DayNat DEF TypeOK, BankOK
  <1>2. /\ Len(granted') = s /\ granted'[s].until = until
        /\ \A r \in 1..Len(granted) : granted'[r].until = granted[r].until
    <2>1. \A g \in Granted : [g EXCEPT !.live = FALSE] \in Granted /\ [g EXCEPT !.live = FALSE].until = g.until
      BY DEF Granted
    <2>2. /\ old \in Seq(Granted) /\ Len(old) = Len(granted)
          /\ \A r \in 1..Len(granted) : old[r].until = granted[r].until
      BY <1>1, <2>1
    <2>3. granted' = Append(old, [until |-> until, live |-> TRUE])
      BY DEF Callback
    <2>4. [until |-> until, live |-> TRUE] \in Granted /\ [until |-> until, live |-> TRUE].until = until
      BY <1>1 DEF Granted
    <2> HIDE DEF old, until
    <2> QED
      BY <1>1, <2>2, <2>3, <2>4
  <1>3. ASSUME NEW b \in Accounts
        PROVE  IF b \in chosen \cup {a} THEN prov'[b].session = s /\ prov'[b].until = until
               ELSE prov'[b] = prov[b]
    <2>1. prov[b] \in Provider
      BY <1>1 DEF Providers
    <2>2. prov'[b] = IF b \in chosen THEN Connected(prov[b], s, until)
                     ELSE IF b = a THEN [prov[b] EXCEPT !.auth = FALSE, !.session = s, !.account = FALSE,
                                                        !.until = until]
                     ELSE prov[b]
      BY DEF Callback
    <2> HIDE DEF s, until
    <2>3. CASE b \in chosen
      BY <1>1, <2>1, <2>2, <2>3, ConnectedType
    <2>4. CASE b \notin chosen /\ b = a
      BY <1>1, <2>1, <2>2, <2>4 DEF Provider
    <2>5. CASE b \notin chosen /\ b # a
      BY <2>2, <2>5
    <2> QED
      BY <2>3, <2>4, <2>5
  <1>4. Len(granted') \in Nat /\ Len(granted') >= Len(granted) /\ tx' = tx
    <2>1. tx' = tx
      BY DEF Callback
    <2> QED
      BY <1>1, <1>2, <2>1
  <1>5. \A b \in Accounts : prov[b].session \in Nat /\ prov[b].session <= Len(granted)
    BY <1>1 DEF Providers, Provider, SessionInv, Bound
  <1>6. \A b, c \in Accounts :
            prov[b].session # 0 /\ prov[b].session = prov[c].session =>
                /\ prov[b].until = prov[c].until
                /\ prov[b].until < granted'[prov[b].session].until => prov[b].todo
    BY <1>1, <1>2, <1>4, GrantedAgree DEF SessionInv
  <1>7. Agree(prov)' /\ Bound(prov)'
    <2>1. Bound(prov)'
      BY <1>2, <1>3, <1>4, <1>5 DEF Bound
    <2>2. ASSUME NEW b \in Accounts, NEW c \in Accounts, prov'[b].session # 0, prov'[b].session = prov'[c].session
          PROVE  /\ prov'[b].until = prov'[c].until
                 /\ prov'[b].until < granted'[prov'[b].session].until => prov'[b].todo
      <3>1. CASE b \in chosen \cup {a}
        <4>1. prov'[c].session = s
          BY <1>3, <2>2, <3>1
        <4>2. c \in chosen \cup {a}
          BY <1>1, <1>3, <1>5, <4>1
        <4>3. prov'[b].until = until /\ prov'[c].until = until /\ granted'[prov'[b].session].until = until
          BY <1>2, <1>3, <3>1, <4>2
        <4> HIDE DEF until
        <4> QED
          BY <1>1, <4>3
      <3>2. CASE b \notin chosen \cup {a}
        <4>1. prov'[b] = prov[b]
          BY <1>3, <3>2
        <4>2. c \notin chosen \cup {a}
          BY <1>1, <1>3, <1>5, <2>2, <4>1
        <4>3. prov'[c] = prov[c]
          BY <1>3, <4>2
        <4> QED
          BY <1>6, <2>2, <4>1, <4>3
      <3> QED
        BY <3>1, <3>2
    <2> QED
      BY <2>1, <2>2 DEF Agree
  <1>8. ASSUME tx' # None PROVE PullAgrees(tx)'
    <2>1. PullAgrees(tx) /\ tx.prov \in Providers /\ tx.seen \in Providers
      BY <1>4, <1>8 DEF SessionInv, TypeOK, PullOK, Working, Ending
    <2>2. Bound(tx.prov)
      BY <2>1 DEF PullAgrees, Bound
    <2>3. Agree(tx.prov)'
      <3> DEFINE provs == tx.prov
      <3>1. provs \in Providers /\ Agree(provs) /\ Bound(provs) /\ tx'.prov = provs
        BY <1>4, <2>1, <2>2 DEF PullAgrees
      <3> HIDE DEF provs
      <3>2. /\ \A b, c \in Accounts :
                 provs[b].session # 0 /\ provs[b].session = provs[c].session =>
                     /\ provs[b].until = provs[c].until
                     /\ provs[b].until < granted'[provs[b].session].until => provs[b].todo
            /\ \A b \in Accounts : provs[b].session <= Len(granted')
        BY <1>1, <1>2, <1>4, <3>1, GrantedAgree
      <3> QED
        BY <3>1, <3>2 DEF Agree
    <2>4. Agree(tx.seen)' /\ Bound(tx.seen)'
      <3> DEFINE provs == tx.seen
      <3>1. provs \in Providers /\ Agree(provs) /\ Bound(provs) /\ tx'.seen = provs
        BY <1>4, <2>1, <2>2 DEF PullAgrees
      <3> HIDE DEF provs
      <3>2. /\ \A b, c \in Accounts :
                 provs[b].session # 0 /\ provs[b].session = provs[c].session =>
                     /\ provs[b].until = provs[c].until
                     /\ provs[b].until < granted'[provs[b].session].until => provs[b].todo
            /\ \A b \in Accounts : provs[b].session <= Len(granted')
        BY <1>1, <1>2, <1>4, <3>1, GrantedAgree
      <3> QED
        BY <3>1, <3>2 DEF Agree, Bound
    <2>5. \A b, c \in Accounts : b \in chosen \cup {a} => prov'[b].session > tx.seen[c].session
      <3>1. \A c \in Accounts : tx.seen[c].session \in Nat /\ tx.seen[c].session <= Len(granted)
        BY <2>1 DEF PullAgrees, Bound, Providers, Provider
      <3> QED
        BY <1>1, <1>3, <3>1
    <2>6. \A b \in Accounts : \/ prov'[b].session \in {0, tx.seen[b].session}
                              \/ \A c \in Accounts : prov'[b].session > tx.seen[c].session
      BY <1>3, <2>1, <2>5 DEF PullAgrees
    <2> QED
      BY <1>4, <2>1, <2>3, <2>4, <2>6 DEF PullAgrees
  <1> QED
    BY <1>7, <1>8 DEF SessionInv

\* The pull starts from what it reads.
LEMMA StartSessions ==
    ASSUME TypeOK, SessionInv, StartPull
    PROVE  SessionInv'
  <1> DEFINE t == [seen |-> prov, lines |-> lines, skipped |-> skipped]
             due == {a \in Accounts : prov[a].next <= day}
  <1>1. tx' \in Turns(t, prov, due) /\ prov \in Providers /\ t.seen = prov /\ due \in SUBSET Accounts
    BY DEF StartPull, TypeOK
  <1> HIDE DEF t, due
  <1>2. /\ tx'.seen = prov
        /\ \A c \in Accounts : /\ tx'.prov[c].session = prov[c].session /\ tx'.prov[c].until = prov[c].until
                               /\ (tx'.prov[c].todo <=> prov[c].todo)
    BY <1>1, TurnsKeep
  <1>3. Agree(tx'.prov)
    BY <1>2, SameAgree DEF SessionInv
  <1>4. prov' = prov /\ granted' = granted
    BY DEF StartPull, db, bank
  <1>5. PullAgrees(tx)'
    BY <1>2, <1>3, <1>4 DEF PullAgrees, SessionInv, Agree, Bound
  <1> QED
    BY <1>4, <1>5 DEF SessionInv, Agree, Bound

\* A step of the pull that agrees with what it has read keeps the invariant.
LEMMA PullSessions ==
    ASSUME TypeOK, SessionInv, tx # None, UNCHANGED <<prov, granted>>,
           tx'.seen = tx.seen, Agree(tx'.prov),
           \A c \in Accounts : tx'.prov[c].session = tx.prov[c].session
    PROVE  SessionInv'
  <1>1. PullAgrees(tx)'
    BY DEF PullAgrees, SessionInv, Agree, Bound
  <1> QED
    BY <1>1 DEF SessionInv, Agree, Bound

\* The end of a session is told to all that are on it.
LEMMA FailSessions ==
    ASSUME TypeOK, SessionInv, FailDay
    PROVE  SessionInv'
  <1>1. tx.at = "day" /\ tx # None /\ prov' = prov /\ granted' = granted
    BY DEF FailDay, None, db, bank
  <1>2. PICK outcome, provs, t : Failed(outcome, provs, t)
    BY FailDayTo
  <1>3. provs[tx.a].resume \in 0..day + 1
    BY <1>1, <1>2, ResumeFromType DEF Failed
  <1>4. /\ tx'.seen = tx.seen
        /\ \A c \in Accounts : /\ tx'.prov[c].session = provs[c].session /\ tx'.prov[c].until = provs[c].until
                               /\ (tx'.prov[c].todo <=> provs[c].todo)
    BY <1>1, <1>2, <1>3, EndsKeep DEF Failed
  <1>5. Agree(tx.prov) /\ \A c \in Accounts : provs[c].session = tx.prov[c].session
    BY <1>1, <1>2 DEF SessionInv, PullAgrees, Failed
  <1>6. Agree(provs)
    <2>1. CASE \A c \in Accounts : provs[c].until = tx.prov[c].until /\ (provs[c].todo <=> tx.prov[c].todo)
      BY <1>5, <2>1, SameAgree
    <2>2. CASE \A c \in Accounts : IF tx.prov[c].session = tx.prov[tx.a].session
                                   THEN provs[c].until = day /\ provs[c].todo
                                   ELSE provs[c].until = tx.prov[c].until /\ (provs[c].todo <=> tx.prov[c].todo)
      BY <1>5, <2>2 DEF Agree
    <2> QED
      BY <1>2, <2>1, <2>2 DEF Failed
  <1>7. Agree(tx'.prov)
    BY <1>4, <1>6, SameAgree
  <1> QED
    BY <1>1, <1>4, <1>5, <1>7, PullSessions

\* A day's payments and the balances leave the sessions alone.
LEMMA DaySessions ==
    ASSUME TypeOK, SessionInv, PullDay \/ CheckBalance \/ NoBalance
    PROVE  SessionInv'
  <1>1. tx.at \in {"day", "balance"} /\ tx # None /\ prov' = prov /\ granted' = granted
    BY DEF PullDay, CheckBalance, NoBalance, None, db, bank
  <1>2. tx \in Working /\ tx.prov \in Providers /\ tx.a \in Accounts /\ Agree(tx.prov) /\ PullOK(tx)
    BY <1>1, AtWork DEF SessionInv, PullAgrees
  <1>3. CASE PullDay
    <2>1. tx'.seen = tx.seen /\ tx'.prov = tx.prov
      BY <1>2, <1>3 DEF PullDay, Working
    <2> QED
      BY <1>1, <1>2, <2>1, PullSessions
  <1>4. ASSUME tx.at = "balance", NEW provs \in Providers, tx' \in EndProvider(tx, provs),
               \A c \in Accounts : /\ provs[c].session = tx.prov[c].session /\ provs[c].until = tx.prov[c].until
                                   /\ (provs[c].todo <=> tx.prov[c].todo)
                                   /\ provs[c].resume = tx.prov[c].resume
        PROVE  SessionInv'
    <2>1. provs[tx.a].resume \in 0..day + 1
      <3>1. tx.prov[tx.a].resume = 0 /\ day \in Nat
        BY <1>2, <1>4, DayNat DEF PullOK, TypeOK
      <3> QED
        BY <1>2, <1>4, <3>1
    <2>2. /\ tx'.seen = tx.seen
          /\ \A c \in Accounts : /\ tx'.prov[c].session = provs[c].session /\ tx'.prov[c].until = provs[c].until
                                 /\ (tx'.prov[c].todo <=> provs[c].todo)
      BY <1>1, <1>4, <2>1, EndsKeep
    <2>3. Agree(tx'.prov)
      BY <1>2, <1>4, <2>2, SameAgree
    <2> QED
      BY <1>1, <1>4, <2>2, <2>3, PullSessions
  <1>5. CASE CheckBalance
    <2>1. PICK balance \in Balances(tx.a) :
              tx' \in EndProvider(tx, [tx.prov EXCEPT ![tx.a].alarm = Alarm(tx.lines[tx.a], balance)])
      BY <1>5 DEF CheckBalance
    <2>2. Alarm(tx.lines[tx.a], balance) \in Int
      BY <1>1, <1>2, AtWork, AlarmInt DEF Lines
    <2> DEFINE alarm == Alarm(tx.lines[tx.a], balance)
               provs == [tx.prov EXCEPT ![tx.a].alarm = alarm]
    <2> HIDE DEF alarm
    <2>3. alarm \in Int
      BY <2>2 DEF alarm
    <2>4. /\ provs \in Providers
          /\ \A c \in Accounts : /\ provs[c].session = tx.prov[c].session /\ provs[c].until = tx.prov[c].until
                                 /\ (provs[c].todo <=> tx.prov[c].todo)
                                 /\ provs[c].resume = tx.prov[c].resume
      <3>1. provs = [c \in Accounts |-> provs[c]] /\ \A c \in Accounts : provs[c] \in Provider
        BY <1>2, <2>3 DEF Providers, Provider
      <3>2. \A c \in Accounts : /\ provs[c].session = tx.prov[c].session /\ provs[c].until = tx.prov[c].until
                                /\ (provs[c].todo <=> tx.prov[c].todo)
                                /\ provs[c].resume = tx.prov[c].resume
        BY <1>2 DEF Providers, Provider
      <3> QED
        BY <3>1, <3>2 DEF Providers
    <2>5. tx' \in EndProvider(tx, provs)
      BY <2>1 DEF alarm
    <2> HIDE DEF provs
    <2> QED
      BY <1>4, <1>5, <2>4, <2>5 DEF CheckBalance
  <1>6. CASE NoBalance
    BY <1>2, <1>4, <1>6 DEF NoBalance
  <1> QED
    BY <1>3, <1>5, <1>6

\* What others changed and what the pull changed agree with each other when they are
\* merged: a provider that the pull has changed is what it read, and one that others have
\* bound is on no session that the pull knows.
LEMMA CommitSessions ==
    ASSUME TypeOK, SessionInv, CommitPull
    PROVE  SessionInv'
  <1>1. tx.at = "end" /\ tx # None /\ tx' = None /\ granted' = granted
    BY DEF CommitPull, None, bank
  <1>2. /\ PullAgrees(tx) /\ Agree(prov) /\ Bound(prov)
        /\ prov \in Providers /\ tx.prov \in Providers /\ tx.seen \in Providers
    BY <1>1 DEF SessionInv, TypeOK, PullOK, Working, Ending
  <1>3. CASE Taken
    BY <1>1, <1>2, <1>3 DEF CommitPull, db, SessionInv, Agree, Bound
  <1>4. CASE ~Taken
    <2>1. \A a \in Accounts : \/ prov'[a] = tx.prov[a] /\ prov[a] = tx.seen[a]
                              \/ prov'[a] = prov[a] /\ tx.prov[a] = tx.seen[a]
      BY <1>4 DEF CommitPull, Taken
    <2>2. \A a \in Accounts : /\ tx.prov[a].session = tx.seen[a].session
                              /\ prov'[a].session = prov[a].session
      BY <1>2, <2>1 DEF PullAgrees
    <2>3. ASSUME NEW a \in Accounts, NEW b \in Accounts, prov'[a].session # 0,
                 prov'[a].session = prov'[b].session
          PROVE  /\ prov'[a].until = prov'[b].until
                 /\ prov'[a].until < granted[prov'[a].session].until => prov'[a].todo
      <3>1. CASE prov'[a] = tx.prov[a] /\ prov[a] = tx.seen[a]
        <4>1. prov'[a].until < granted[prov'[a].session].until => prov'[a].todo
          BY <1>2, <2>3, <3>1 DEF PullAgrees, Agree
        <4>2. CASE prov'[b] = tx.prov[b]
          BY <1>2, <2>3, <3>1, <4>1, <4>2 DEF PullAgrees, Agree
        <4>3. CASE prov'[b] = prov[b] /\ tx.prov[b] = tx.seen[b]
          <5>1. prov[b].session = tx.seen[a].session /\ prov[b].session # 0 /\ prov[b].session \in Nat
            BY <1>2, <2>2, <2>3, <3>1, <4>3 DEF Providers, Provider
          <5>2. prov[b].session = tx.seen[b].session
            BY <1>2, <5>1 DEF PullAgrees
          <5>3. prov[b].until = prov[a].until /\ tx.seen[a].until = tx.seen[b].until
            BY <1>2, <2>2, <2>3, <3>1, <5>1, <5>2 DEF PullAgrees, Agree
          <5>4. tx.prov[a].until = tx.prov[b].until
            BY <1>2, <2>2, <2>3, <3>1, <5>1, <5>2 DEF PullAgrees, Agree
          <5> QED
            BY <3>1, <4>1, <4>3, <5>3, <5>4
        <4> QED
          BY <2>1, <4>2, <4>3
      <3>2. CASE prov'[a] = prov[a] /\ tx.prov[a] = tx.seen[a]
        <4>1. prov'[a].until < granted[prov'[a].session].until => prov'[a].todo
          BY <1>2, <2>3, <3>2 DEF Agree
        <4>2. CASE prov'[b] = prov[b]
          BY <1>2, <2>3, <3>2, <4>1, <4>2 DEF Agree
        <4>3. CASE prov'[b] = tx.prov[b] /\ prov[b] = tx.seen[b]
          <5>1. prov[a].session = tx.seen[b].session /\ prov[a].session # 0 /\ prov[a].session \in Nat
            BY <1>2, <2>2, <2>3, <3>2, <4>3 DEF Providers, Provider
          <5>2. prov[a].session = tx.seen[a].session
            BY <1>2, <5>1 DEF PullAgrees
          <5>3. prov[a].until = prov[b].until /\ tx.seen[a].until = tx.seen[b].until
            BY <1>2, <2>2, <2>3, <4>3, <5>1, <5>2 DEF PullAgrees, Agree
          <5>4. tx.prov[a].until = tx.prov[b].until
            BY <1>2, <2>2, <2>3, <4>3, <5>1, <5>2 DEF PullAgrees, Agree
          <5> QED
            BY <3>2, <4>1, <4>3, <5>3, <5>4
        <4> QED
          BY <2>1, <4>2, <4>3
      <3> QED
        BY <2>1, <3>1, <3>2
    <2> QED
      BY <1>1, <1>2, <2>2, <2>3 DEF SessionInv, Agree, Bound
  <1> QED
    BY <1>3, <1>4

LEMMA NextSessions == TypeOK /\ SessionInv /\ [Next]_vars => SessionInv'
  <1> SUFFICES ASSUME TypeOK, SessionInv, [Next]_vars PROVE SessionInv'
    OBVIOUS
  <1>1. CASE ScheduledPull
    BY <1>1, StartSessions, DaySessions, FailSessions, CommitSessions DEF ScheduledPull
  <1>2. ASSUME NEW a \in Accounts, NEW chosen \in SUBSET Accounts, Callback(a, chosen) PROVE SessionInv'
    BY <1>2, CallbackSessions
  <1>3. CASE ~ScheduledPull /\ ~\E a \in Accounts : \E chosen \in (SUBSET Accounts) \ {{}} : Callback(a, chosen)
    BY <1>3, OthersSessions DEF Next
  <1> QED
    BY <1>1, <1>2, <1>3

\* However callbacks, resets, ended sessions, refused commits and reminders interleave
\* with a pull in progress, the providers on one session agree on how long it lasts.
THEOREM SessionsAgreeAlways == Spec => []SessionsAgree
  <1>1. Init => TypeOK /\ SessionInv
    BY InitTypeOK, InitSessions
  <1>2. TypeOK /\ SessionInv /\ [Next]_vars => TypeOK' /\ SessionInv'
    BY NextTypeOK, NextSessions
  <1>3. SessionInv => SessionsAgree
    BY DEF SessionInv, Agree, SessionsAgree
  <1> QED
    BY <1>1, <1>2, <1>3, PTL DEF Spec

-----------------------------------------------------------------------------
(* No payment is missed *)

\* A day is over and its payments are imported, or Odoo has said that it is skipped.
Done(a, d, ls, sk) ==
    \/ d < day /\ {p \in Payments(a) : p[1] = d} \subseteq ls[a]
    \/ <<a, d>> \in sk

\* The days before those where the next pulls start are done.
Covered(provs, ls, sk) ==
    \A a \in Accounts :
        /\ provs[a].last <= day + 1
        /\ \A d \in Days : d < provs[a].last => Done(a, d, ls, sk)

\* In a pull in progress those before the day it is at are as well.
PullCovers(t) ==
    /\ Covered(t.prov, t.lines, t.skipped)
    /\ t.at = "day" => \A d \in Days : d < t.d => Done(t.a, d, t.lines, t.skipped)
    /\ t.at = "balance" => \A d \in Days : d < day => Done(t.a, d, t.lines, t.skipped)

MissInv == Covered(prov, lines, skipped) /\ (tx # None => PullCovers(tx))

\* A day's payments are those whose ids the pull imports.
LEMMA PaymentsOfDay ==
    ASSUME BankOK, NEW a \in Accounts, NEW d \in Days
    PROVE  {p \in Payments(a) : p[1] = d} = Ids(d, booked[a][d])
  <1>1. booked[a][d] \in 0..MaxBooked /\ MaxBooked \in Nat
    BY FeedAssumption DEF BankOK
  <1> QED
    BY <1>1 DEF Payments, Ids

\* A done day stays done when there are more lines and skipped days.
LEMMA DoneGrows ==
    ASSUME NEW a, NEW d, NEW ls, NEW sk, NEW ls2, NEW sk2, Done(a, d, ls, sk),
           ls[a] \subseteq ls2[a], sk \subseteq sk2
    PROVE  Done(a, d, ls2, sk2)
  BY DEF Done

\* And when time passes and payments of today are booked.
LEMMA DoneStays ==
    ASSUME BankOK, day' \in Nat, day' >= day, NEW a \in Accounts, NEW d \in Days, NEW ls, NEW sk,
           Done(a, d, ls, sk), d < day => booked'[a][d] = booked[a][d]
    PROVE  \/ d < day' /\ {p \in Payments(a)' : p[1] = d} \subseteq ls[a]
           \/ <<a, d>> \in sk
  <1>1. day \in Nat /\ d \in Nat
    BY DayNat DEF Days
  <1>2. d < day => {p \in Payments(a)' : p[1] = d} = {p \in Payments(a) : p[1] = d}
    BY DEF Payments
  <1> QED
    BY <1>1, <1>2 DEF Done

\* A step that pulls nothing, and takes nothing back, keeps the invariant.
LEMMA QuietMissed ==
    ASSUME TypeOK, MissInv, tx' = tx, day' \in Nat, day' = day \/ (tx = None /\ day' = day + 1),
           \A a \in Accounts : \A d \in Days : d < day => booked'[a][d] = booked[a][d],
           \A a \in Accounts : prov'[a].last = prov[a].last /\ lines[a] \subseteq lines'[a],
           skipped \subseteq skipped'
    PROVE  MissInv'
  <1>1. BankOK /\ day \in Nat /\ day' >= day /\ prov \in Providers
    BY DayNat DEF TypeOK
  <1>2. \A a \in Accounts : \A d \in Days : \A ls, sk :
            Done(a, d, ls, sk) => \/ d < day' /\ {p \in Payments(a)' : p[1] = d} \subseteq ls[a]
                                  \/ <<a, d>> \in sk
    BY <1>1, DoneStays
  <1>3. Covered(prov, lines, skipped)'
    <2>1. ASSUME NEW a \in Accounts
          PROVE  /\ prov'[a].last <= day' + 1
                 /\ \A d \in Days : d < prov'[a].last =>
                        \/ d < day' /\ {p \in Payments(a)' : p[1] = d} \subseteq lines'[a]
                        \/ <<a, d>> \in skipped'
      <3>1. prov[a].last <= day + 1 /\ prov[a].last \in Nat
        BY <1>1 DEF MissInv, Covered, Providers, Provider
      <3>2. ASSUME NEW d \in Days, d < prov'[a].last
            PROVE  \/ d < day' /\ {p \in Payments(a)' : p[1] = d} \subseteq lines'[a]
                   \/ <<a, d>> \in skipped'
        <4>1. Done(a, d, lines, skipped)
          BY <3>2 DEF MissInv, Covered
        <4>2. Done(a, d, lines', skipped')
          BY <4>1, DoneGrows
        <4> QED
          BY <1>2, <4>2
      <3> QED
        BY <1>1, <3>1, <3>2
    <2> QED
      BY <2>1 DEF Covered, Done
  <1>4. ASSUME tx' # None PROVE PullCovers(tx)'
    <2>1. PullCovers(tx) /\ day' = day /\ tx # None
      BY <1>4 DEF MissInv
    <2>2. tx.at # "end" => tx.a \in Accounts
      BY <2>1 DEF TypeOK, PullOK, Working
    <2> DEFINE OK(a, d, ls, sk) == \/ d < day' /\ {p \in Payments(a)' : p[1] = d} \subseteq ls[a]
                                   \/ <<a, d>> \in sk
    <2>3. \A a \in Accounts : /\ tx.prov[a].last <= day' + 1
                              /\ \A d \in Days : d < tx.prov[a].last => OK(a, d, tx.lines, tx.skipped)
      BY <1>2, <2>1 DEF PullCovers, Covered
    <2>4. /\ tx.at = "day" => \A d \in Days : d < tx.d => OK(tx.a, d, tx.lines, tx.skipped)
          /\ tx.at = "balance" => \A d \in Days : d < day' => OK(tx.a, d, tx.lines, tx.skipped)
      BY <1>2, <2>1, <2>2 DEF PullCovers
    <2> QED
      BY <2>3, <2>4 DEF PullCovers, Covered, Done
  <1> QED
    BY <1>3, <1>4 DEF MissInv

\* Nor does a step of the pull as long as what it has done stays covered.
LEMMA PullMissed ==
    ASSUME MissInv, UNCHANGED <<day, booked, prov, lines, skipped>>, PullCovers(tx')
    PROVE  MissInv'
  BY DEF MissInv, PullCovers, Covered, Done, Payments

\* Turning to a provider that is due: the pull starts where the days before are done.
LEMMA TurnsCovers ==
    ASSUME NEW t, NEW provs \in Providers, NEW due \in SUBSET Accounts, NEW x \in Turns(t, provs, due),
           Covered(provs, t.lines, t.skipped)
    PROVE  PullCovers(x)
  <1>1. /\ x.lines = t.lines /\ x.skipped = t.skipped
        /\ \A c \in Accounts : x.prov[c].last = provs[c].last
        /\ x.at = "day" => x.a \in Accounts /\ x.d = provs[x.a].last
        /\ x.at \in {"day", "end"}
    BY TurnsKeep
  <1> QED
    BY <1>1 DEF PullCovers, Covered

\* So does the end of a provider's pull when the days before its next one are done.
LEMMA EndsCovers ==
    ASSUME TypeOK, MissInv, tx.at \in {"day", "balance"}, NEW t, t.a = tx.a, t.due = tx.due,
           t.lines = tx.lines, tx.skipped \subseteq t.skipped,
           NEW provs \in Providers, provs[tx.a].resume \in 0..day + 1,
           \A c \in Accounts : provs[c].last = tx.prov[c].last,
           \A d \in Days : d < (IF provs[tx.a].resume # 0 THEN provs[tx.a].resume ELSE day) =>
                Done(tx.a, d, tx.lines, t.skipped),
           NEW x \in EndProvider(t, provs)
    PROVE  PullCovers(x)
  <1>1. /\ x.lines = tx.lines /\ x.skipped = t.skipped
        /\ \A c \in Accounts : x.prov[c].last = IF c # tx.a THEN provs[c].last
                                                ELSE IF provs[c].resume # 0 THEN provs[c].resume
                                                ELSE day
        /\ x.at = "day" => x.a \in tx.due /\ x.a # tx.a /\ x.d = provs[x.a].last
        /\ x.at \in {"day", "end"}
    BY EndsKeep
  <1>2. /\ tx.a \in Accounts /\ tx.due \in SUBSET Accounts /\ day \in Nat
        /\ Covered(tx.prov, tx.lines, tx.skipped)
    <2>1. tx # None
      BY DEF None
    <2> QED
      BY <2>1, AtWork, DayNat DEF MissInv, PullCovers
  <1>3. \A c \in Accounts : \A d \in Days : Done(c, d, tx.lines, tx.skipped) => Done(c, d, tx.lines, t.skipped)
    BY DoneGrows
  <1>4. Covered(x.prov, x.lines, x.skipped)
    BY <1>1, <1>2, <1>3 DEF Covered
  <1>5. x.at = "day" => x.a \in Accounts /\ x.d = x.prov[x.a].last
    BY <1>1, <1>2
  <1> QED
    BY <1>1, <1>4, <1>5 DEF PullCovers, Covered

LEMMA StartMissed ==
    ASSUME TypeOK, MissInv, StartPull
    PROVE  MissInv'
  <1> DEFINE t == [seen |-> prov, lines |-> lines, skipped |-> skipped]
             due == {a \in Accounts : prov[a].next <= day}
  <1>1. tx' \in Turns(t, prov, due) /\ prov \in Providers /\ due \in SUBSET Accounts
    BY DEF StartPull, TypeOK
  <1>2. t.lines = lines /\ t.skipped = skipped
    OBVIOUS
  <1> HIDE DEF t, due
  <1>3. PullCovers(tx')
    BY <1>1, <1>2, TurnsCovers DEF MissInv
  <1> QED
    BY <1>3, PullMissed DEF StartPull, bank, db

\* The payments of the day are imported; a day that is over stays so.
LEMMA PullDayMissed ==
    ASSUME TypeOK, MissInv, PullDay
    PROVE  MissInv'
  <1>1. tx.at = "day" /\ tx # None /\ tx \in Working /\ PullCovers(tx) /\ BankOK
    BY AtWork DEF PullDay, None, MissInv
  <1>2. /\ tx.a \in Accounts /\ tx.d \in Days /\ tx.d <= day /\ day \in Nat /\ tx.lines \in Lines
        /\ tx.prov \in Providers
    BY <1>1, AtWork, DayNat DEF Days
  <1> DEFINE ids == Ids(tx.d, booked[tx.a][tx.d])
             ls == [tx.lines EXCEPT ![tx.a] = tx.lines[tx.a] \cup ids]
  <1>3. /\ tx'.lines = ls /\ tx'.prov = tx.prov /\ tx'.skipped = tx.skipped /\ tx'.a = tx.a
        /\ tx'.d = (IF tx.d < day THEN tx.d + 1 ELSE tx.d)
        /\ tx'.at = (IF tx.d < day THEN "day" ELSE "balance")
    BY <1>1, <1>2 DEF PullDay, Working, Lines
  <1>4. \A c \in Accounts : tx.lines[c] \subseteq ls[c]
    BY <1>2 DEF Lines
  <1>5. {p \in Payments(tx.a) : p[1] = tx.d} \subseteq ls[tx.a]
    <2>1. {p \in Payments(tx.a) : p[1] = tx.d} = ids
      BY <1>1, <1>2, PaymentsOfDay
    <2> QED
      BY <1>2, <2>1 DEF Lines
  <1> HIDE DEF ids, ls
  <1>6. \A c \in Accounts : \A d \in Days : Done(c, d, tx.lines, tx.skipped) => Done(c, d, ls, tx.skipped)
    BY <1>4, DoneGrows
  <1>7. \A d \in Days : d < tx.d => Done(tx.a, d, ls, tx.skipped)
    BY <1>1, <1>2, <1>6 DEF PullCovers
  <1>8. tx.d < day => Done(tx.a, tx.d, ls, tx.skipped)
    BY <1>5 DEF Done
  <1>9. /\ tx'.at = "day" => \A d \in Days : d < tx'.d => Done(tx.a, d, ls, tx.skipped)
        /\ tx'.at = "balance" => \A d \in Days : d < day => Done(tx.a, d, ls, tx.skipped)
    BY <1>2, <1>3, <1>7, <1>8 DEF Days
  <1>10. Covered(tx.prov, ls, tx.skipped)
    BY <1>1, <1>6 DEF PullCovers, Covered
  <1>11. PullCovers(tx')
    BY <1>3, <1>9, <1>10 DEF PullCovers
  <1> QED
    BY <1>11, PullMissed DEF PullDay, bank, db

\* A failed day is pulled again, or Odoo says that it is skipped.
LEMMA FailMissed ==
    ASSUME TypeOK, MissInv, FailDay
    PROVE  MissInv'
  <1>1. tx.at = "day" /\ tx # None /\ PullCovers(tx)
    BY DEF FailDay, None, MissInv
  <1>2. tx.a \in Accounts /\ tx.d \in Days /\ tx.d \in Nat /\ tx.d >= 1
    BY <1>1, AtWork DEF Days
  <1>3. PICK outcome, provs, t : Failed(outcome, provs, t)
    BY FailDayTo
  <1>4. provs[tx.a].resume = ResumeFrom(outcome, tx.d) /\ provs[tx.a].resume \in 0..day + 1
    BY <1>1, <1>3, ResumeFromType DEF Failed
  <1>5. tx.skipped \subseteq t.skipped
    BY <1>3 DEF Failed
  <1>6. \A d \in Days : d < tx.d => Done(tx.a, d, tx.lines, t.skipped)
    BY <1>1, <1>2, <1>5, DoneGrows DEF PullCovers
  <1>7. ~Retried(outcome, tx.d) => Done(tx.a, tx.d, tx.lines, t.skipped)
    BY <1>3 DEF Failed, Done
  <1>8. \A d \in Days : d < (IF provs[tx.a].resume # 0 THEN provs[tx.a].resume ELSE day) =>
            Done(tx.a, d, tx.lines, t.skipped)
    BY <1>2, <1>4, <1>6, <1>7 DEF ResumeFrom, Days
  <1>9. PullCovers(tx')
    BY <1>1, <1>3, <1>4, <1>5, <1>8, EndsCovers DEF Failed
  <1> QED
    BY <1>9, PullMissed DEF FailDay, bank, db

\* The next pull starts today: the days before are done, today's payments may not be.
LEMMA BalanceMissed ==
    ASSUME TypeOK, MissInv, CheckBalance \/ NoBalance
    PROVE  MissInv'
  <1>1. tx.at = "balance" /\ tx # None /\ PullCovers(tx)
    BY DEF CheckBalance, NoBalance, None, MissInv
  <1>2. /\ tx.prov \in Providers /\ tx.a \in Accounts /\ tx.prov[tx.a].resume = 0 /\ day \in Nat
        /\ \A d \in Days : d < day => Done(tx.a, d, tx.lines, tx.skipped)
    BY <1>1, AtWork, DayNat DEF PullCovers, PullOK
  <1>3. ASSUME NEW provs \in Providers, tx' \in EndProvider(tx, provs),
               provs[tx.a].resume = 0, \A c \in Accounts : provs[c].last = tx.prov[c].last
        PROVE  PullCovers(tx')
    BY <1>1, <1>2, <1>3, EndsCovers
  <1>4. CASE CheckBalance
    <2>1. PICK balance \in Balances(tx.a) :
              tx' \in EndProvider(tx, [tx.prov EXCEPT ![tx.a].alarm = Alarm(tx.lines[tx.a], balance)])
      BY <1>4 DEF CheckBalance
    <2> DEFINE alarm == Alarm(tx.lines[tx.a], balance)
               provs == [tx.prov EXCEPT ![tx.a].alarm = alarm]
    <2>2. alarm \in Int
      BY <1>1, <1>2, AtWork, AlarmInt DEF Lines
    <2>3. tx' \in EndProvider(tx, provs)
      BY <2>1
    <2> HIDE DEF alarm
    <2>4. /\ provs = [c \in Accounts |-> provs[c]] /\ \A c \in Accounts : provs[c] \in Provider
          /\ provs[tx.a].resume = 0 /\ \A c \in Accounts : provs[c].last = tx.prov[c].last
      BY <1>2, <2>2 DEF Providers, Provider
    <2>5. provs \in Providers
      BY <2>4 DEF Providers
    <2> HIDE DEF provs
    <2>6. PullCovers(tx')
      BY <1>3, <2>3, <2>4, <2>5
    <2> QED
      BY <1>4, <2>6, PullMissed DEF CheckBalance, bank, db
  <1>5. CASE NoBalance
    <2>1. PullCovers(tx')
      BY <1>2, <1>3, <1>5 DEF NoBalance
    <2> QED
      BY <1>5, <2>1, PullMissed DEF NoBalance, bank, db
  <1> QED
    BY <1>4, <1>5

\* The lines of the pull come with the days that its providers go on from.
LEMMA CommitMissed ==
    ASSUME TypeOK, MissInv, CommitPull
    PROVE  MissInv'
  <1>1. tx.at = "end" /\ tx # None /\ tx' = None /\ day' = day /\ booked' = booked
    BY DEF CommitPull, None, bank
  <1>2. Covered(prov, lines, skipped) /\ Covered(tx.prov, tx.lines, tx.skipped)
    BY <1>1 DEF MissInv, PullCovers
  <1>3. CASE Taken
    BY <1>1, <1>2, <1>3 DEF CommitPull, db, MissInv, Covered, Done, Payments
  <1>4. CASE ~Taken
    <2>1. \A a \in Accounts : prov'[a] \in {prov[a], tx.prov[a]}
      BY <1>4 DEF CommitPull
    <2>2. /\ \A a \in Accounts : lines[a] \subseteq lines'[a] /\ tx.lines[a] \subseteq lines'[a]
          /\ skipped \subseteq skipped' /\ tx.skipped \subseteq skipped'
      BY <1>4 DEF CommitPull
    <2>3. \A a \in Accounts : \A d \in Days :
              Done(a, d, lines, skipped) \/ Done(a, d, tx.lines, tx.skipped) => Done(a, d, lines', skipped')
      BY <2>2, DoneGrows
    <2>4. Covered(prov', lines', skipped')
      BY <1>2, <2>1, <2>3 DEF Covered
    <2> QED
      BY <1>1, <2>4 DEF MissInv, Covered, Done, Payments
  <1> QED
    BY <1>3, <1>4

LEMMA InitMissed == Init => MissInv
  <1> SUFFICES ASSUME Init PROVE MissInv
    OBVIOUS
  <1>1. \A a \in Accounts : prov[a].last = 1
    BY DEF Init, NewProvider
  <1> QED
    BY <1>1 DEF Init, MissInv, Covered, Days

\* Users, consents, the bank and time leave it alone where the next pulls start.
LEMMA OthersMissed ==
    ASSUME TypeOK, MissInv,
           \/ \E a \in Accounts : \/ Authorize(a) \/ Reset(a) \/ Book(a)
                                  \/ \E chosen \in SUBSET Accounts : Callback(a, chosen)
                                  \/ \E first, last \in 1..day : ManualPull(a, first, last)
                                  \/ \E d \in 1..day : ImportFile(a, d)
           \/ CheckConsents
           \/ \E s \in DOMAIN granted : EndSession(s)
           \/ NextDay
           \/ UNCHANGED vars
    PROVE  MissInv'
  <1>1. /\ prov \in Providers /\ lines \in Lines /\ BankOK /\ day \in Nat
        /\ booked \in [Accounts -> [Days -> 0..MaxBooked]] /\ \A d \in 1..day : d \in Days
    BY DayNat DEF TypeOK, BankOK, Days
  <1>2. ASSUME tx' = tx, day' = day, booked' = booked, lines' = lines, skipped' = skipped,
               \A c \in Accounts : prov'[c].last = prov[c].last
        PROVE  MissInv'
    BY <1>1, <1>2, QuietMissed
  <1>3. ASSUME NEW a \in Accounts, Authorize(a) PROVE MissInv'
    BY <1>1, <1>2, <1>3 DEF Authorize, bank, Providers, Provider
  <1>4. ASSUME NEW a \in Accounts, Reset(a) PROVE MissInv'
    BY <1>1, <1>2, <1>4 DEF Reset, bank, Providers, Provider
  <1>5. ASSUME NEW a \in Accounts, Book(a) PROVE MissInv'
    <2>1. \A c \in Accounts : \A d \in Days : d < day => booked'[c][d] = booked[c][d]
      BY <1>1, <1>5 DEF Book
    <2> QED
      BY <1>1, <1>5, <2>1, QuietMissed DEF Book, db
  <1>6. ASSUME NEW a \in Accounts, NEW chosen \in SUBSET Accounts, Callback(a, chosen) PROVE MissInv'
    <2> DEFINE s == Len(granted) + 1
               until == day + ConsentDays
    <2>1. s \in Nat /\ until \in Nat
      BY <1>1, FeedAssumption DEF BankOK
    <2>2. ASSUME NEW b \in Accounts PROVE prov'[b].last = prov[b].last
      <3>1. prov[b] \in Provider
        BY <1>1 DEF Providers
      <3>2. prov'[b] = IF b \in chosen THEN Connected(prov[b], s, until)
                       ELSE IF b = a THEN [prov[b] EXCEPT !.auth = FALSE, !.session = s, !.account = FALSE,
                                                          !.until = until]
                       ELSE prov[b]
        BY <1>6 DEF Callback
      <3> HIDE DEF s, until
      <3>3. CASE b \in chosen
        BY <2>1, <3>1, <3>2, <3>3, ConnectedType
      <3>4. CASE b \notin chosen
        BY <3>1, <3>2, <3>4 DEF Provider
      <3> QED
        BY <3>3, <3>4
    <2>3. tx' = tx /\ day' = day /\ booked' = booked /\ lines' = lines /\ skipped' = skipped
      BY <1>6 DEF Callback
    <2> QED
      BY <1>2, <2>2, <2>3
  <1>7. ASSUME NEW a \in Accounts, NEW first \in 1..day, NEW last \in 1..day, ManualPull(a, first, last)
        PROVE  MissInv'
    <2>1. PICK balance \in Balances(a) :
              prov' = [prov EXCEPT ![a].resume = 0, ![a].pulls = @ + 1,
                                   ![a].alarm = IF last = day THEN Alarm(lines'[a], balance) ELSE @]
      BY <1>7 DEF ManualPull
    <2>2. PICK alarm : prov' = [prov EXCEPT ![a].resume = 0, ![a].pulls = @ + 1, ![a].alarm = alarm]
      BY <1>1, <2>1 DEF Providers
    <2>3. \A c \in Accounts : prov'[c].last = prov[c].last
      BY <1>1, <2>2 DEF Providers, Provider
    <2>4. \A c \in Accounts : lines[c] \subseteq lines'[c]
      BY <1>1, <1>7 DEF ManualPull, Lines
    <2> QED
      BY <1>1, <1>7, <2>3, <2>4, QuietMissed DEF ManualPull, bank
  <1>8. ASSUME NEW a \in Accounts, NEW d \in 1..day, ImportFile(a, d) PROVE MissInv'
    <2>1. \A c \in Accounts : lines[c] \subseteq lines'[c]
      BY <1>1, <1>8 DEF ImportFile, Lines
    <2> QED
      BY <1>1, <1>8, <2>1, QuietMissed DEF ImportFile, bank
  <1>9. CASE CheckConsents
    BY <1>1, <1>2, <1>9 DEF CheckConsents, bank, Providers, Provider
  <1>10. ASSUME NEW s \in DOMAIN granted, EndSession(s) PROVE MissInv'
    BY <1>2, <1>10 DEF EndSession, db
  <1>11. CASE NextDay
    BY <1>1, <1>11, QuietMissed DEF NextDay, db
  <1>12. CASE UNCHANGED vars
    BY <1>2, <1>12 DEF vars, bank, db
  <1> QED
    BY <1>3, <1>4, <1>5, <1>6, <1>7, <1>8, <1>9, <1>10, <1>11, <1>12

LEMMA NextMissed == TypeOK /\ MissInv /\ [Next]_vars => MissInv'
  <1> SUFFICES ASSUME TypeOK, MissInv, [Next]_vars PROVE MissInv'
    OBVIOUS
  <1>1. CASE ScheduledPull
    BY <1>1, StartMissed, PullDayMissed, FailMissed, BalanceMissed, CommitMissed DEF ScheduledPull
  <1>2. CASE ~ScheduledPull
    BY <1>2, OthersMissed DEF Next
  <1> QED
    BY <1>1, <1>2

\* However the pull, its failures, manual pulls, refused commits and consents interleave,
\* every payment of a day that the next pull does not start from is imported, or Odoo has
\* said that the day is skipped.
THEOREM NothingMissedAlways == Spec => []NothingMissed
  <1>1. Init => TypeOK /\ MissInv
    BY InitTypeOK, InitMissed
  <1>2. TypeOK /\ MissInv /\ [Next]_vars => TypeOK' /\ MissInv'
    BY NextTypeOK, NextMissed
  <1>3. MissInv => NothingMissed
    BY DEF MissInv, Covered, Done, NothingMissed
  <1> QED
    BY <1>1, <1>2, <1>3, PTL DEF Spec

-----------------------------------------------------------------------------
(* The balance check *)

\* A day has as many payments as the bank has booked.
LEMMA CountOfDay ==
    ASSUME BankOK, NEW a \in Accounts, NEW d \in Days
    PROVE  Cardinality({p \in Payments(a) : p[1] = d}) = booked[a][d]
  <1> DEFINE n == booked[a][d]
             f == [k \in 1..n |-> <<d, k>>]
  <1>1. n \in Nat
    BY FeedAssumption DEF BankOK
  <1>2. f \in Bijection(1..n, Ids(d, n))
    <2>1. f \in [1..n -> Ids(d, n)]
      BY DEF Ids
    <2>2. \A j, k \in 1..n : f[j] = f[k] => j = k
      OBVIOUS
    <2>3. \A i \in Ids(d, n) : \E k \in 1..n : f[k] = i
      BY DEF Ids
    <2> QED
      BY <2>1, <2>2, <2>3, Fun_IsBij
  <1> HIDE DEF n, f
  <1>3. Cardinality(1..n) = n /\ IsFiniteSet(1..n)
    <2>1. n \in Int /\ ~(1 > n /\ n # 0) /\ n - 1 + 1 = n
      BY <1>1
    <2> QED
      BY <2>1, FS_Interval
  <1>4. Cardinality(Ids(d, n)) = n
    BY <1>2, <1>3, FS_Bijection DEF ExistsBijection
  <1> QED
    BY <1>4, PaymentsOfDay DEF n

\* The balance check is right about every answer that the bank may give.
THEOREM AlarmIsRightAlways == Spec => []AlarmIsRight
  <1>1. TypeOK => AlarmIsRight
    <2> SUFFICES ASSUME TypeOK, tx.at = "balance", NEW balance \in Balances(tx.a)
                 PROVE  LET all == Cardinality(Payments(tx.a))
                        IN  /\ tx.lines[tx.a] = Payments(tx.a) => Alarm(tx.lines[tx.a], balance) = 0
                            /\ balance.booked = all /\ balance.available = all
                               /\ Cardinality(tx.lines[tx.a]) # all
                                => Alarm(tx.lines[tx.a], balance) # 0
      BY DEF AlarmIsRight
    <2> DEFINE all == Cardinality(Payments(tx.a))
               odoo == Cardinality(tx.lines[tx.a])
               today == Cardinality({i \in tx.lines[tx.a] : i[1] = day})
    <2>1. BankOK /\ tx.a \in Accounts /\ tx.lines[tx.a] \in SUBSET (Days \X (0..MaxBooked)) /\ day \in Days
      BY AtWork DEF Lines, BankOK
    <2>2. all \in Nat /\ odoo \in Nat /\ today \in Nat /\ booked[tx.a][day] \in Nat
      <3>1. {i \in tx.lines[tx.a] : i[1] = day} \in SUBSET (Days \X (0..MaxBooked))
        BY <2>1
      <3> QED
        BY <2>1, <3>1, LinesFinite, PaymentsFinite, FeedAssumption DEF BankOK
    <2>3. balance.booked \in (all - booked[tx.a][day])..all /\ balance.available \in {-1, all, all + 1}
      BY DEF Balances
    <2>4. Alarm(tx.lines[tx.a], balance) = IF Agrees(odoo, balance, today) THEN 0 ELSE balance.booked - odoo
      BY DEF Alarm
    <2>5. tx.lines[tx.a] = Payments(tx.a) => odoo = all /\ today = booked[tx.a][day]
      BY <2>1, CountOfDay
    <2> HIDE DEF all, odoo, today
    <2>6. odoo = all /\ today = booked[tx.a][day] => Agrees(odoo, balance, today)
      BY <2>2, <2>3 DEF Agrees, Lag
    <2>7. balance.booked = all /\ balance.available = all /\ odoo # all =>
            ~Agrees(odoo, balance, today) /\ balance.booked - odoo # 0
      BY <2>2 DEF Agrees, Lag
    <2> QED
      BY <2>4, <2>5, <2>6, <2>7 DEF all, odoo
  <1> QED
    BY <1>1, Typing, PTL
=============================================================================
