--------------------------- MODULE MailQueueProofs --------------------------
(***************************************************************************)
(* Proofs about MailQueue, for any recipients, letters, limits and answers *)
(* of the mail server, and however users and killed workers interleave     *)
(* with the runner: no recipient is lost, none gets a second copy, a       *)
(* message has one owner, and what is deferred is woken.  And the queue    *)
(* implements Pacing, so that the provider never counts more than the      *)
(* limit, as long as no worker is killed with a count not committed.       *)
(* At the end, about ScheduleLoop: what schedule(), which says when a      *)
(* deferred mail is woken, promises for any log, costs and limit.          *)
(***************************************************************************)
EXTENDS MailQueue, ScheduleLoop, FiniteSetTheorems, FunctionTheorems, SequenceTheorems, WellFoundedInduction, TLAPS

-----------------------------------------------------------------------------
(* Rows, sessions and sets of numbers *)

Fields == {"state", "to", "cc", "retries", "sched", "msg", "notif", "autodel"}
States == {"none", "outgoing", "exception", "cancel", "sent"}
RunFields == {"phase", "batch", "credit", "pending", "cur", "cc", "to", "reached", "invalid"}

Has(t, m) == t[m].state # "none"
On(t, m) == t[m].to \cup t[m].cc

\* A mail table: its rows, of posted letters, are numbered from 1 on.
RowOK(row, m, rows, posts) ==
    /\ DOMAIN row = Fields
    /\ row.state \in States /\ row.notif \in BOOLEAN
    /\ row.to \subseteq Partners /\ row.cc \subseteq Addresses
    /\ row.state # "none" => m <= rows /\ row.msg \in 1..posts

TableOK(t) == DOMAIN t = Mails /\ \A m \in Mails : RowOK(t[m], m, made, Len(letters))

\* The runner: the mails of its batch, and the one it is sending.
RunOK ==
    /\ DOMAIN run = RunFields
    /\ run.phase \in {"idle", "connect", "batch", "smtp", "stop"}
    /\ run.pending \in Seq(Mails)
    /\ run.phase = "connect" => \A k \in DOMAIN run.pending : mail[run.pending[k]].state = "outgoing"
    /\ run.phase = "smtp" => run.cur \in Mails /\ mail[run.cur].state = "exception"
    /\ run.phase # "smtp" => run.cur = 0

TypeOK ==
    /\ now \in Nat /\ made \in Nat
    /\ letters \in Seq(Letters) /\ Len(letters) <= MaxPosts
    /\ DOMAIN saved = {"mail", "messages", "slots", "triggers"}
    /\ TableOK(mail) /\ TableOK(saved.mail)
    /\ RunOK
    /\ got \in [Posts -> [Recipients -> Nat]]
    /\ cutOff \in [Posts -> Nat]

LEMMA Numbers ==
    /\ MaxMails \in Nat /\ MaxPosts \in Nat
    /\ \A m \in Mails : m \in Nat /\ m # 0
    /\ \A p \in Posts : p \in Nat /\ p # 0
    /\ Partners \cap Addresses = {}
  <1>1. {MaxPosts, MaxMails, MaxTime} \subseteq Nat /\ Partners \cap Addresses = {}
    BY QueueAssumption
  <1> QED
    BY <1>1 DEF Mails, Posts

\* A set of numbers has a least one.
LEMMA LeastExists ==
    ASSUME NEW S \in SUBSET Nat, S # {}
    PROVE  \E n \in S : \A m \in S : n <= m
  <1>1. PICK n \in S : \A m \in Nat : <<m, n>> \in OpToRel(<, Nat) => m \notin S
    BY WFMin, NatLessThanWellFounded
  <1>2. \A m \in S : ~(m < n)
    BY <1>1 DEF OpToRel
  <1> QED
    BY <1>2

LEMMA MinOf ==
    ASSUME NEW S \in SUBSET Nat, S # {}
    PROVE  Min(S) \in S /\ \A m \in S : Min(S) <= m
  BY LeastExists DEF Min

LEMMA MaxOf ==
    ASSUME NEW n \in Nat, NEW S \in SUBSET (0..n), S # {}
    PROVE  Max(S) \in S
  <1> DEFINE T == {n - k : k \in S}
  <1>1. T \in SUBSET Nat /\ T # {}
    <2>1. \A k \in S : n - k \in Nat
      OBVIOUS
    <2> QED
      BY <2>1
  <1>2. PICK m \in T : \A k \in T : m <= k
    BY <1>1, LeastExists
  <1>3. PICK x \in S : m = n - x
    BY <1>2
  <1>4. \A y \in S : x >= y
    <2>1. ASSUME NEW y \in S PROVE x >= y
      <3>1. n - y \in T
        OBVIOUS
      <3>2. n - x <= n - y
        BY <1>2, <1>3, <3>1
      <3> QED
        BY <3>2
    <2> QED
      BY <2>1
  <1> QED
    BY <1>4 DEF Max

\* A finite set of numbers has a k-th one.
LEMMA KthExists ==
    ASSUME NEW n \in Nat, NEW S \in SUBSET (1..n), NEW k \in 1..Cardinality(S)
    PROVE  \E m \in S : Cardinality({x \in S : x < m}) = k - 1
  <1> DEFINE Below(m) == {x \in S : x < m}
             T == {m \in 1..(n + 1) : Cardinality(Below(m)) >= k}
  <1>0. /\ \A x \in S : x \in Int /\ 1 <= x /\ x <= n
        /\ IsFiniteSet(S) /\ Cardinality(S) \in Nat
    <2>1. IsFiniteSet(1..n)
      BY FS_Interval
    <2>2. IsFiniteSet(S)
      BY <2>1, FS_Subset
    <2> QED
      BY <2>2, FS_CardinalityType
  <1>1. \A m \in Int : IsFiniteSet(Below(m)) /\ Cardinality(Below(m)) \in Nat
    <2>1. ASSUME NEW m \in Int PROVE IsFiniteSet(Below(m))
      <3>1. Below(m) \subseteq S
        OBVIOUS
      <3> QED
        BY <1>0, <3>1, FS_Subset
    <2> QED
      BY <2>1, FS_CardinalityType
  <1>2. n + 1 \in T
    <2>0. \A x \in S : x < n + 1
      BY <1>0
    <2>1. Below(n + 1) = S
      BY <2>0
    <2>2. k <= Cardinality(S)
      BY <1>0
    <2> QED
      BY <2>1, <2>2
  <1>3. T \in SUBSET Nat /\ T # {}
    BY <1>2
  <1>4. PICK m \in T : \A j \in T : m <= j
    BY <1>3, LeastExists
  <1>5. k \in Nat /\ k >= 1
    BY <1>1, <1>2
  <1>6. m # 1
    <2>0. \A x \in S : ~(x < 1)
      BY <1>0
    <2>1. Below(1) = {}
      BY <2>0
    <2>2. Cardinality(Below(1)) = 0
      BY <2>1, FS_EmptySet
    <2> QED
      BY <1>4, <1>5, <2>2
  <1>7. m - 1 \in 1..n /\ m - 1 \notin T
    BY <1>4, <1>6
  <1>8. Cardinality(Below(m - 1)) < k
    BY <1>1, <1>5, <1>7
  <1>9. m - 1 \in S
    <2>1. CASE m - 1 \notin S
      <3>1. \A x \in S : x < m <=> x < m - 1
        BY <1>0, <1>7, <2>1
      <3>2. Below(m) = Below(m - 1)
        BY <3>1
      <3>3. Cardinality(Below(m)) >= k
        BY <1>4
      <3>4. Cardinality(Below(m - 1)) \in Nat
        BY <1>1, <1>7
      <3> HIDE DEF Below
      <3> QED
        BY <1>5, <1>8, <3>2, <3>3, <3>4
    <2> QED
      BY <2>1
  <1>10. Cardinality(Below(m)) = Cardinality(Below(m - 1)) + 1
    <2>0. \A x \in S : x < m <=> x < m - 1 \/ x = m - 1
      BY <1>0, <1>7
    <2>1. Below(m) = Below(m - 1) \cup {m - 1}
      BY <1>7, <1>9, <2>0
    <2>2. m - 1 \notin Below(m - 1)
      OBVIOUS
    <2>3. IsFiniteSet(Below(m - 1))
      BY <1>1, <1>7
    <2> HIDE DEF Below
    <2> QED
      BY <2>1, <2>2, <2>3, FS_AddElement
  <1>11. Cardinality(Below(m - 1)) = k - 1
    <2>1. Cardinality(Below(m)) >= k
      BY <1>4
    <2>2. Cardinality(Below(m - 1)) \in Nat
      BY <1>1, <1>7
    <2> HIDE DEF Below
    <2> QED
      BY <1>5, <1>8, <1>10, <2>1, <2>2
  <1> QED
    BY <1>9, <1>11

\* The line of due mails has each of them, and only mails that are due.
LEMMA LineIsDue ==
    /\ Line \in Seq(Due) /\ Due \in SUBSET Mails /\ DOMAIN Line = 1..Len(Line)
    /\ Fitting \in 0..Len(Line)
  <1>1. Due \in SUBSET (1..MaxMails) /\ MaxMails \in Nat
    BY QueueAssumption DEF Due, Mails
  <1>2. Cardinality(Due) \in Nat
    <2>1. IsFiniteSet(1..MaxMails)
      BY <1>1, FS_Interval
    <2> QED
      BY <1>1, <2>1, FS_Subset, FS_CardinalityType
  <1> DEFINE Kth(k) == CHOOSE m \in Due : Cardinality({x \in Due : x < m}) = k - 1
  <1>3. \A k \in 1..Cardinality(Due) : Kth(k) \in Due
    BY <1>1, KthExists
  <1>4. Line = [k \in 1..Cardinality(Due) |-> Kth(k)]
    BY DEF Line
  <1> HIDE DEF Kth
  <1>5. Line \in Seq(Due) /\ Len(Line) = Cardinality(Due) /\ DOMAIN Line = 1..Cardinality(Due)
    <2>1. Line \in [1..Cardinality(Due) -> Due]
      BY <1>3, <1>4
    <2> QED
      BY <1>2, <2>1
  <1>6. Fitting \in 0..Len(Line)
    <2> DEFINE S == {0} \cup {k \in DOMAIN Line : Spent(k) <= Budget}
    <2>1. S \in SUBSET (0..Cardinality(Due)) /\ S # {}
      BY <1>2, <1>5
    <2>2. Max(S) \in S
      BY <1>2, <2>1, MaxOf
    <2> QED
      BY <1>5, <2>1, <2>2 DEF Fitting
  <1> QED
    BY <1>1, <1>5, <1>6 DEF Mails

-----------------------------------------------------------------------------
(* What the runner takes *)

\* A row that differs in its date at most.
Redated(row, old) ==
    /\ DOMAIN row = Fields
    /\ row.state = old.state /\ row.msg = old.msg /\ row.notif = old.notif
    /\ row.to = old.to /\ row.cc = old.cc

\* Deferring gives a mail a date at most, at which the queue is woken.
LEMMA Deferring ==
    ASSUME NEW log, NEW table, NEW line, \A m \in Mails : DOMAIN table[m] = Fields
    PROVE  /\ DOMAIN Defer(log, table, line).table = Mails
           /\ \A m \in Mails :
                /\ Redated(Defer(log, table, line).table[m], table[m])
                /\ \/ Defer(log, table, line).table[m].sched = table[m].sched
                   \/ Defer(log, table, line).table[m].sched \in Defer(log, table, line).wakes
  <1> DEFINE times == DeferTimes(log, table, line)
             at(m) == CHOOSE k \in DOMAIN line : line[k] = m
             new == [m \in Mails |-> IF m \in ToSet(line) THEN [table[m] EXCEPT !.sched = times[at(m)]]
                                     ELSE table[m]]
             wakes == {times[k] : k \in DOMAIN line}
  <1>1. Defer(log, table, line) = [table |-> new, wakes |-> wakes]
    BY DEF Defer
  <1>2. ASSUME NEW m \in Mails
        PROVE  Redated(new[m], table[m]) /\ (new[m].sched = table[m].sched \/ new[m].sched \in wakes)
    <2>1. CASE m \in ToSet(line)
      <3>1. at(m) \in DOMAIN line
        BY <2>1 DEF ToSet
      <3>2. times[at(m)] \in wakes
        BY <3>1
      <3> HIDE DEF at, times, wakes
      <3>3. new[m] = [table[m] EXCEPT !.sched = times[at(m)]]
        BY <2>1
      <3> HIDE DEF new
      <3> QED
        BY <3>2, <3>3 DEF Redated, Fields
    <2>2. CASE m \notin ToSet(line)
      BY <2>2 DEF Redated
    <2> QED
      BY <2>1, <2>2
  <1> HIDE DEF new, wakes
  <1>3. DOMAIN new = Mails
    BY DEF new
  <1> QED
    BY <1>1, <1>2, <1>3

\* A batch is handed to the session, and the rest of the table deferred.
Handed(table, n, batch) ==
    /\ DOMAIN mail' = Mails
    /\ \A m \in Mails : /\ Redated(mail'[m], table[m])
                        /\ mail'[m].sched = table[m].sched \/ mail'[m].sched \in triggers'
    /\ triggers \ (0..now) \subseteq triggers'
    /\ made' = made + n /\ messages' = messages
    /\ DOMAIN run' = RunFields /\ run'.phase \in {"idle", "connect"}
    /\ run'.pending = batch /\ run'.cur = 0 /\ run'.reached = {}
    /\ saved' = Database' \/ saved' = saved
    /\ \A k \in DOMAIN batch : table[batch[k]].state = "outgoing"
    /\ batch \in Seq(Mails)

LEMMA HandTo ==
    ASSUME NEW table, NEW n, NEW batch \in Seq(Mails), NEW spent, NEW deferred,
           \A m \in Mails : DOMAIN table[m] = Fields,
           \A k \in DOMAIN batch : table[batch[k]].state = "outgoing",
           Hand(table, n, batch, spent, deferred)
    PROVE  Handed(table, n, batch)
  <1>1. PICK d \in {Defer(Consumed(spent), table, deferred)} :
          /\ mail' = d.table
          /\ made' = made + n
          /\ triggers' = (triggers \ (0..now)) \cup d.wakes
          /\ run' = IF batch = <<>> THEN Idle
                    ELSE [Idle EXCEPT !.phase = "connect", !.batch = lastId', !.credit = spent,
                                      !.pending = batch]
          /\ UNCHANGED messages
          /\ IF batch = <<>> THEN Commit ELSE UNCHANGED saved
    BY DEF Hand
  <1>2. /\ DOMAIN mail' = Mails
        /\ \A m \in Mails : /\ Redated(mail'[m], table[m])
                            /\ mail'[m].sched = table[m].sched \/ mail'[m].sched \in triggers'
    BY <1>1, Deferring
  <1>3. /\ DOMAIN run' = RunFields /\ run'.phase \in {"idle", "connect"}
        /\ run'.pending = batch /\ run'.cur = 0 /\ run'.reached = {}
    BY <1>1 DEF Idle, RunFields
  <1>4. saved' = Database' \/ saved' = saved
    BY <1>1 DEF Commit
  <1> QED
    BY <1>1, <1>2, <1>3, <1>4 DEF Handed

\* The table that is handed on: as it is, or with a mail that was due split in two.
SplitOff(f, first) ==
    /\ made < MaxMails /\ f \in Due /\ first \subseteq mail[f].to
    /\ f # made + 1

Parted(f, first) ==
    [mail EXCEPT
        ![made + 1] = [mail[f] EXCEPT !.to = first, !.notif = TRUE, !.retries = 0],
        ![f].to = @ \ first,
        ![f].cc = {}]

LEMMA TakeTo ==
    ASSUME TypeOK, Take
    PROVE  \E batch : \/ Handed(mail, 0, batch)
                      \/ \E f, first : SplitOff(f, first) /\ Handed(Parted(f, first), 1, batch)
  <1>1. /\ Line \in Seq(Due) /\ Due \in SUBSET Mails /\ DOMAIN Line = 1..Len(Line) /\ Len(Line) \in Nat
        /\ Fitting \in 0..Len(Line)
        /\ \A m \in Mails : DOMAIN mail[m] = Fields
        /\ \A m \in Due : mail[m].state = "outgoing"
    BY LineIsDue DEF Due, TypeOK, TableOK, RowOK
  <1> DEFINE taken == SubSeq(Line, 1, Fitting)
  <1>2. taken \in Seq(Due)
    BY <1>1
  <1>3. taken \in Seq(Mails) /\ \A k \in DOMAIN taken : mail[taken[k]].state = "outgoing"
    BY <1>1, <1>2
  <1> HIDE DEF taken
  <1>4. CASE \E spent, deferred : Hand(mail, 0, taken, spent, deferred)
    BY <1>1, <1>3, <1>4, HandTo
  <1>5. CASE Fitting < Len(Line) /\ \E spent, deferred : Hand(mail, 0, Append(taken, First), spent, deferred)
    <2>1. First \in Due
      BY <1>1, <1>5 DEF First
    <2> DEFINE batch == Append(taken, First)
    <2>2. batch \in Seq(Mails) /\ \A k \in DOMAIN batch : mail[batch[k]].state = "outgoing"
      BY <1>1, <1>2, <1>3, <2>1
    <2> HIDE DEF batch
    <2>3. \E spent, deferred : Hand(mail, 0, batch, spent, deferred)
      BY <1>5 DEF batch
    <2> QED
      BY <1>1, <2>2, <2>3, HandTo
  <1>6. ASSUME Fitting < Len(Line), made < MaxMails,
               NEW first \in kSubset(Kept, mail[First].to), NEW spent, NEW deferred,
               Hand(Split(first), 1, Append(taken, made + 1), spent, deferred)
        PROVE  \E f : SplitOff(f, first) /\ Handed(Parted(f, first), 1, Append(taken, made + 1))
    <2>1. First \in Due /\ First \in Mails
      BY <1>1, <1>6 DEF First
    <2>2. first \subseteq mail[First].to
      BY <1>6 DEF kSubset
    <2>3. Split(first) = Parted(First, first)
      BY DEF Split, Parted
    <2>4. \A m \in Due : m <= made /\ m \in Mails
      BY <1>1 DEF TypeOK, TableOK, RowOK, Has
    <2>5. made + 1 \in Mails /\ \A m \in Due : m # made + 1
      <3>1. made \in Nat /\ MaxMails \in Nat /\ \A m \in Mails : m \in Nat
        BY Numbers DEF TypeOK
      <3>2. \A m \in Due : m # made + 1
        BY <2>4, <3>1
      <3> QED
        BY <1>6, <3>1, <3>2 DEF Mails
    <2> DEFINE t == Parted(First, first)
               batch == Append(taken, made + 1)
    <2>6. /\ \A m \in Mails : DOMAIN t[m] = Fields
          /\ \A m \in Due : t[m].state = "outgoing"
          /\ t[made + 1].state = "outgoing"
      BY <1>1, <2>1, <2>5 DEF Parted, TypeOK, TableOK, RowOK, Fields
    <2> HIDE DEF t
    <2>7. batch \in Seq(Mails) /\ \A k \in DOMAIN batch : t[batch[k]].state = "outgoing"
      BY <1>1, <1>2, <1>3, <2>5, <2>6
    <2> HIDE DEF batch
    <2>8. Hand(t, 1, batch, spent, deferred)
      BY <1>6, <2>3 DEF t, batch
    <2>9. Handed(t, 1, batch)
      BY <2>6, <2>7, <2>8, HandTo
    <2>10. SplitOff(First, first)
      BY <1>6, <2>1, <2>2, <2>5 DEF SplitOff
    <2> QED
      BY <2>9, <2>10 DEF t, batch
  <1> QED
    BY <1>4, <1>5, <1>6 DEF Take, taken

-----------------------------------------------------------------------------
(* The invariants *)

\* Of the mail being sent: who is still to be sent to, who was reached, and the To/Cc
\* message comes first.
Session ==
    /\ run.phase # "smtp" => run.reached = {}
    /\ run.phase = "smtp" =>
        /\ run.cc \subseteq mail[run.cur].cc /\ run.to \subseteq mail[run.cur].to
        /\ run.reached \subseteq On(mail, run.cur)
        /\ run.reached \cap (run.cc \cup run.to) = {}
        /\ run.reached # {} => run.cc = {}
        /\ \A r \in On(mail, run.cur) :
            r \in run.cc \cup run.to \cup run.reached \/ <<mail[run.cur].msg, r>> \in givenUp
        /\ \A r \in run.reached : got[mail[run.cur].msg][r] > 0

\* What a rollback would undo: dates, states, and the split of a mail whose other part
\* was there before.
Synced ==
    /\ messages = saved.messages
    /\ \A m \in Mails : Has(saved.mail, m) =>
        /\ Has(mail, m) /\ mail[m].msg = saved.mail[m].msg
        /\ (mail[m].notif <=> saved.mail[m].notif)
    /\ \A m \in Mails : Has(mail, m) /\ ~Has(saved.mail, m) =>
        /\ mail[m].notif
        /\ \E x \in Mails : Has(saved.mail, x) /\ saved.mail[x].msg = mail[m].msg
    /\ \A m \in Mails : \A r \in Recipients :
        Has(saved.mail, m) /\ saved.mail[m].state # "sent" /\ r \in On(saved.mail, m) =>
            \E x \in Mails : /\ Has(mail, x) /\ mail[x].state # "sent"
                             /\ mail[x].msg = saved.mail[m].msg /\ r \in On(mail, x)

\* A message has one owner among its parts, and goes with the last of them.
Own(t, msgs) ==
    \A p \in 1..Len(letters) :
        IF letters[p].notif
        THEN p \in msgs /\ \A m \in Mails : Has(t, m) /\ t[m].msg = p => t[m].notif
        ELSE /\ \A m, x \in Mails : /\ Has(t, m) /\ t[m].msg = p /\ ~t[m].notif
                                    /\ Has(t, x) /\ t[x].msg = p /\ ~t[x].notif
                                    => m = x
             /\ (\E m \in Mails : Has(t, m) /\ t[m].msg = p) =>
                    p \in msgs /\ \E m \in Mails : Has(t, m) /\ t[m].msg = p /\ ~t[m].notif
             /\ p \in msgs => \E m \in Mails : Has(t, m) /\ t[m].msg = p

\* A recipient got the letter, was given up, or is on one of its parts, and on one only.
Acc(t) ==
    \A p \in 1..Len(letters) : \A r \in letters[p].to \cup letters[p].cc :
        \/ got[p][r] > 0
        \/ <<p, r>> \in givenUp
        \/ \E m \in Mails : Has(t, m) /\ t[m].msg = p /\ r \in On(t, m)

Uniq(t) ==
    \A m, x \in Mails :
        Has(t, m) /\ Has(t, x) /\ t[m].msg = t[x].msg /\ m # x => On(t, m) \cap On(t, x) = {}

Owned == Own(mail, messages)
Accounted == Acc(mail) /\ Acc(saved.mail)
Unique == Uniq(mail) /\ Uniq(saved.mail)
Kept4 == Synced /\ Owned /\ Accounted /\ Unique

\* Tables that tell recipients, messages and owners alike.
Similar(t, u) ==
    \A m \in Mails :
        /\ Has(t, m) <=> Has(u, m)
        /\ t[m].state = "sent" <=> u[m].state = "sent"
        /\ t[m].msg = u[m].msg /\ (t[m].notif <=> u[m].notif)
        /\ t[m].to = u[m].to /\ t[m].cc = u[m].cc

\* Nothing that was reached or given up is taken back.
Grows ==
    /\ letters' = letters
    /\ \A p \in 1..Len(letters) : \A r \in Recipients : got[p][r] > 0 => got'[p][r] > 0
    /\ givenUp \subseteq givenUp'

Committed == saved'.mail = mail' /\ saved'.messages = messages'

\* A letter's recipients are recipients.
LEMMA LetterRecipients ==
    ASSUME TypeOK, NEW p \in 1..Len(letters)
    PROVE  /\ letters[p].to \subseteq Partners /\ letters[p].cc \subseteq Addresses
           /\ letters[p].notif \in BOOLEAN /\ p \in Posts
  <1>1. letters[p] \in Letters
    BY DEF TypeOK
  <1>2. p \in Posts
    BY Numbers DEF TypeOK, Posts
  <1> QED
    BY <1>1, <1>2, QueueAssumption

\* Acc of the next state, of a table u.
AccNext(u) ==
    \A p \in 1..Len(letters') : \A r \in letters'[p].to \cup letters'[p].cc :
        \/ got'[p][r] > 0
        \/ <<p, r>> \in givenUp'
        \/ \E m \in Mails : Has(u, m) /\ u[m].msg = p /\ r \in On(u, m)

LEMMA AccSimilar ==
    ASSUME TypeOK, Grows, NEW t, NEW u, Acc(t), Similar(u, t)
    PROVE  AccNext(u)
  <1> SUFFICES ASSUME NEW p \in 1..Len(letters), NEW r \in letters[p].to \cup letters[p].cc
               PROVE  \/ got'[p][r] > 0
                      \/ <<p, r>> \in givenUp'
                      \/ \E m \in Mails : Has(u, m) /\ u[m].msg = p /\ r \in On(u, m)
    BY DEF Grows, AccNext
  <1>1. r \in Recipients
    BY LetterRecipients DEF Recipients
  <1>2. CASE got[p][r] > 0 \/ <<p, r>> \in givenUp
    BY <1>1, <1>2 DEF Grows
  <1>3. CASE \E m \in Mails : Has(t, m) /\ t[m].msg = p /\ r \in On(t, m)
    BY <1>3 DEF Similar, On
  <1> QED
    BY <1>2, <1>3 DEF Acc

LEMMA UniqSimilar ==
    ASSUME NEW t, NEW u, Uniq(t), Similar(u, t)
    PROVE  Uniq(u)
  BY DEF Uniq, Similar, On

LEMMA OwnSimilar ==
    ASSUME NEW t, NEW u, NEW msgs, Own(t, msgs), Similar(u, t)
    PROVE  Own(u, msgs)
  BY DEF Own, Similar

\* A step that leaves rows alike keeps the four invariants.
LEMMA QuietKept ==
    ASSUME TypeOK, Kept4, Grows, Similar(mail', mail), messages' = messages,
           \/ Committed
           \/ saved'.messages = saved.messages /\ Similar(saved'.mail, saved.mail)
    PROVE  Kept4'
  <1>1. Acc(mail)' /\ Uniq(mail)' /\ Owned'
    <2>1. Acc(mail)'
      <3>1. AccNext(mail')
        BY AccSimilar DEF Kept4, Accounted
      <3> QED
        BY <3>1 DEF Acc, AccNext
    <2>2. Uniq(mail') /\ Own(mail', messages)
      BY UniqSimilar, OwnSimilar DEF Kept4, Unique, Owned
    <2> QED
      BY <2>1, <2>2 DEF Owned, Own, Uniq, Grows
  <1>2. CASE Committed
    BY <1>1, <1>2 DEF Committed, Kept4, Accounted, Unique, Acc, Uniq, Synced
  <1>3. CASE saved'.messages = saved.messages /\ Similar(saved'.mail, saved.mail)
    <2>1. Acc(saved.mail)'
      <3>1. AccNext(saved'.mail)
        BY <1>3, AccSimilar DEF Kept4, Accounted
      <3> QED
        BY <3>1 DEF Acc, AccNext
    <2>2. Uniq(saved'.mail)
      BY <1>3, UniqSimilar DEF Kept4, Unique
    <2>3. Synced'
      <3>1. Synced
        BY DEF Kept4
      <3> QED
        BY <1>3, <3>1 DEF Synced, Similar, On
    <2> QED
      BY <1>1, <2>1, <2>2, <2>3 DEF Kept4, Accounted, Unique, Uniq
  <1> QED
    BY <1>2, <1>3

-----------------------------------------------------------------------------
(* Type correctness *)

LEMMA RowGrows ==
    ASSUME NEW row, NEW m \in Nat, NEW n \in Nat, NEW k \in Nat, RowOK(row, m, n, k),
           NEW n2 \in Nat, n <= n2, NEW k2 \in Nat, k <= k2
    PROVE  RowOK(row, m, n2, k2)
  BY DEF RowOK

\* What keeps the kind of a row.
LEMMA RowRedated ==
    ASSUME NEW row, NEW old, NEW m, NEW n, NEW k, RowOK(old, m, n, k), Redated(row, old)
    PROVE  RowOK(row, m, n, k)
  BY DEF RowOK, Redated

\* A commit of the runner, and one of somebody else.
LEMMA CommitTo ==
    ASSUME TypeOK, Commit \/ CommitDuringJob
    PROVE  /\ DOMAIN saved' = {"mail", "messages", "slots", "triggers"}
           /\ saved'.mail = mail' /\ saved'.messages = messages' /\ triggers' \subseteq saved'.triggers
  BY DEF Commit, CommitDuringJob, Database

LEMMA CommitUserTo ==
    ASSUME TypeOK, NEW S, CommitUser(S)
    PROVE  /\ DOMAIN saved' = {"mail", "messages", "slots", "triggers"}
           /\ saved'.messages = messages'
           /\ saved.triggers \subseteq saved'.triggers /\ triggers' \ triggers \subseteq saved'.triggers
           /\ DOMAIN saved'.mail = Mails
           /\ \A m \in Mails : saved'.mail[m] = IF m \in S THEN mail'[m] ELSE saved.mail[m]
  BY DEF CommitUser, TypeOK

-----------------------------------------------------------------------------
(* What deleting mails leaves *)

\* Row m stays and is the first of those that share the message of o, which goes.
Inherits(t, S, o, m) ==
    /\ ~t[o].notif
    /\ m \notin S /\ Has(t, m) /\ t[m].msg = t[o].msg
    /\ \A x \in Mails \ S : Has(t, x) /\ t[x].msg = t[o].msg => m <= x

\* The mails of S are gone; the messages that were on no other mail are lost.
Left(t, S, u) ==
    /\ DOMAIN u = Mails
    /\ \A m \in S : u[m] = NoMail
    /\ \A m \in Mails \ S :
        /\ DOMAIN u[m] = Fields
        /\ u[m].state = t[m].state /\ u[m].msg = t[m].msg /\ u[m].sched = t[m].sched
        /\ u[m].to = t[m].to /\ u[m].cc = t[m].cc
        /\ u[m].notif = IF \E o \in S : Inherits(t, S, o, m) THEN FALSE ELSE t[m].notif

Lost(t, S) ==
    {t[o].msg : o \in {x \in S : ~t[x].notif /\ \A m \in Mails \ S : ~(Has(t, m) /\ t[m].msg = t[x].msg)}}

LEMMA DeletedRows ==
    ASSUME NEW t, NEW S \in SUBSET Mails, DOMAIN t = Mails,
           \A m \in S : Has(t, m),
           \A m \in Mails : /\ DOMAIN t[m] = Fields
                            /\ Has(t, m) <=> Exists(m)
                            /\ t[m].msg = mail[m].msg
    PROVE  /\ Left(t, S, Deleted(HandedOver(t, S), S))
           /\ MessagesLost(HandedOver(t, S), S) = Lost(t, S)
  <1> DEFINE leaving == {o \in Owners(t, S) : HasHeir(o, S)}
             kept == [m \in Mails |->
                        IF m \in leaving THEN [t[m] EXCEPT !.notif = TRUE]
                        ELSE IF \E o \in leaving : Heir(o, S) = m THEN [t[m] EXCEPT !.notif = FALSE]
                        ELSE t[m]]
             lost == MessagesLost(kept, S)
             u == Deleted(kept, S)
             stays(o, m) == Has(t, m) /\ t[m].msg = t[o].msg
  <1>1. HandedOver(t, S) = kept
    BY DEF HandedOver
  <1>2. \A o \in S, m \in Mails : m \in SameMessage(o) <=> stays(o, m)
    BY DEF SameMessage
  <1>3. \A o \in S : HasHeir(o, S) <=> \E m \in Mails \ S : stays(o, m)
    BY <1>2 DEF HasHeir, SameMessage
  <1>4. ASSUME NEW o \in S, NEW m, ~t[o].notif, HasHeir(o, S)
        PROVE  Heir(o, S) = m <=> m \in Mails /\ Inherits(t, S, o, m)
    <2> DEFINE R == SameMessage(o) \ S
    <2>1. R \in SUBSET Nat /\ R # {} /\ R \subseteq Mails
      BY <1>4, Numbers DEF HasHeir, SameMessage
    <2>2. Min(R) \in R /\ \A x \in R : Min(R) <= x
      BY <2>1, MinOf
    <2>3. \A x \in Mails : x \in R <=> x \notin S /\ stays(o, x)
      BY <1>2
    <2>4. Heir(o, S) = Min(R)
      BY DEF Heir
    <2> HIDE DEF R
    <2>5. ASSUME Min(R) = m PROVE m \in Mails /\ Inherits(t, S, o, m)
      BY <1>4, <2>1, <2>2, <2>3, <2>5 DEF Inherits
    <2>6. ASSUME m \in Mails, Inherits(t, S, o, m) PROVE Min(R) = m
      <3>1. m \in R /\ \A x \in R : m <= x
        BY <2>1, <2>3, <2>6 DEF Inherits
      <3>2. m \in Nat /\ Min(R) \in Nat /\ m <= Min(R) /\ Min(R) <= m
        BY <2>1, <2>2, <3>1
      <3> QED
        BY <3>2
    <2> QED
      BY <2>4, <2>5, <2>6
  <1>5. \A o : o \in leaving <=> o \in S /\ ~t[o].notif /\ HasHeir(o, S)
    BY DEF Owners
  <1>6. \A m \in Mails \ S : (\E o \in leaving : Heir(o, S) = m) <=> \E o \in S : Inherits(t, S, o, m)
    <2>1. ASSUME NEW m \in Mails \ S, NEW o \in S, Inherits(t, S, o, m) PROVE o \in leaving /\ Heir(o, S) = m
      <3>1. HasHeir(o, S) /\ ~t[o].notif
        BY <1>3, <2>1 DEF Inherits
      <3> HIDE DEF leaving
      <3> QED
        BY <1>4, <1>5, <2>1, <3>1
    <2> HIDE DEF leaving
    <2> QED
      BY <1>4, <1>5, <2>1
  <1>7. \A m \in S : kept[m].msg = t[m].msg /\ (kept[m].notif <=> t[m].notif \/ HasHeir(m, S))
    <2>1. \A m \in S : ~ \E o \in leaving : Heir(o, S) = m
      <3> HIDE DEF leaving
      <3> QED
        BY <1>4, <1>5 DEF Inherits
    <2> SUFFICES ASSUME NEW m \in S
                 PROVE  kept[m].msg = t[m].msg /\ (kept[m].notif <=> t[m].notif \/ HasHeir(m, S))
      OBVIOUS
    <2>2. CASE m \in leaving
      <3> HIDE DEF leaving
      <3> QED
        BY <1>5, <2>2 DEF Fields
    <2>3. CASE m \notin leaving
      <3> HIDE DEF leaving
      <3> QED
        BY <1>5, <2>1, <2>3 DEF Fields
    <2> QED
      BY <2>2, <2>3
  <1>8. \A m \in Mails \ S :
          kept[m] = IF \E o \in S : Inherits(t, S, o, m) THEN [t[m] EXCEPT !.notif = FALSE] ELSE t[m]
    <2>1. \A m \in Mails \ S : m \notin leaving
      BY <1>5
    <2> HIDE DEF leaving
    <2> QED
      BY <1>6, <2>1
  <1>9. \A m \in Mails \ S : kept[m].msg = t[m].msg
    BY <1>8 DEF Fields
  <1>10. lost = {t[o].msg : o \in {x \in S : ~t[x].notif /\ \A m \in Mails \ S : ~stays(x, m)}}
    <2>1. \A o \in S : ~kept[o].notif <=> ~t[o].notif /\ \A m \in Mails \ S : ~stays(o, m)
      <3> HIDE DEF kept, stays
      <3> QED
        BY <1>3, <1>7
    <2> HIDE DEF kept, stays
    <2>2. lost = {kept[m].msg : m \in {x \in S : ~kept[x].notif}}
      BY DEF MessagesLost, Owners
    <2> QED
      BY <1>7, <2>1, <2>2
  <1> HIDE DEF kept, leaving
  <1>11. \A m \in Mails : u[m] = IF m \in S THEN NoMail ELSE kept[m]
    <2> HIDE DEF lost
    <2>1. ASSUME NEW m \in Mails \ S, Exists(m), kept[m].msg \in lost PROVE FALSE
      <3>1. stays(m, m)
        BY <2>1
      <3>2. t[m].msg \in lost
        BY <1>9, <2>1
      <3>3. PICK o \in S : t[o].msg = t[m].msg /\ \A x \in Mails \ S : ~stays(o, x)
        BY <1>10, <3>2
      <3>4. Has(t, m)
        BY <2>1
      <3> QED
        BY <3>3, <3>4
    <2>2. \A m \in Mails : u[m] = IF m \in S \/ (Exists(m) /\ kept[m].msg \in lost) THEN NoMail ELSE kept[m]
      BY DEF Deleted, lost
    <2> HIDE DEF u
    <2> QED
      BY <2>1, <2>2
  <1>12. DOMAIN u = Mails
    BY DEF Deleted
  <1> HIDE DEF u, lost
  <1>13. Left(t, S, u) /\ lost = Lost(t, S)
    <2>1. ASSUME NEW m \in Mails \ S
          PROVE  /\ DOMAIN u[m] = Fields
                 /\ u[m].state = t[m].state /\ u[m].msg = t[m].msg /\ u[m].sched = t[m].sched
                 /\ u[m].to = t[m].to /\ u[m].cc = t[m].cc
                 /\ u[m].notif = IF \E o \in S : Inherits(t, S, o, m) THEN FALSE ELSE t[m].notif
      <3>1. u[m] = kept[m] /\ DOMAIN t[m] = Fields
        BY <1>11
      <3>2. CASE \E o \in S : Inherits(t, S, o, m)
        <4>1. kept[m] = [t[m] EXCEPT !.notif = FALSE]
          BY <1>8, <3>2
        <4> QED
          BY <3>1, <3>2, <4>1 DEF Fields
      <3>3. CASE ~ \E o \in S : Inherits(t, S, o, m)
        BY <1>8, <3>1, <3>3
      <3> QED
        BY <3>2, <3>3
    <2> QED
      BY <1>10, <1>11, <1>12, <2>1 DEF Left, Lost
  <1> QED
    BY <1>1, <1>13 DEF u, lost

\* Who owns a message stays told, and a message without mails is gone.
LEMMA OwnGone ==
    ASSUME NEW t, NEW S \in SUBSET Mails, NEW u, NEW msgs,
           \A m \in S : Has(t, m), Left(t, S, u), Own(t, msgs)
    PROVE  Own(u, msgs \ Lost(t, S))
  <1> DEFINE part(p, m) == Has(t, m) /\ t[m].msg = p
             owner(p, m) == part(p, m) /\ ~t[m].notif
             lost == Lost(t, S)
  <1>1. /\ \A m \in Mails : Has(u, m) <=> m \notin S /\ Has(t, m)
        /\ \A m \in Mails \ S : u[m].msg = t[m].msg
        /\ \A m \in Mails \ S : ~u[m].notif <=> ~t[m].notif \/ \E o \in S : Inherits(t, S, o, m)
    <2>1. /\ \A m \in S : u[m].state = "none"
          /\ \A m \in Mails \ S : u[m].state = t[m].state /\ u[m].msg = t[m].msg
      <3>1. /\ \A m \in S : u[m] = NoMail
            /\ \A m \in Mails \ S : u[m].state = t[m].state /\ u[m].msg = t[m].msg
        BY Zenon DEF Left
      <3>2. NoMail.state = "none"
        BY DEF NoMail
      <3> QED
        BY <3>1, <3>2
    <2>2. ASSUME NEW m \in Mails \ S
          PROVE  ~u[m].notif <=> ~t[m].notif \/ \E o \in S : Inherits(t, S, o, m)
      <3>1. u[m].notif = IF \E o \in S : Inherits(t, S, o, m) THEN FALSE ELSE t[m].notif
        BY DEF Left
      <3> QED
        BY <3>1
    <2> QED
      BY <2>1, <2>2 DEF Has
  <1>2. \A p : p \in lost <=> \E o \in S : owner(p, o) /\ \A m \in Mails \ S : ~part(p, m)
    BY DEF Lost
  <1>3. \A o \in S : \A m : Inherits(t, S, o, m) =>
          owner(t[o].msg, o) /\ t[m].msg = t[o].msg /\ \A x \in Mails \ S : part(t[o].msg, x) => m <= x
    BY DEF Inherits
  <1> HIDE DEF lost
  <1> SUFFICES ASSUME NEW p \in 1..Len(letters)
               PROVE
        IF letters[p].notif
        THEN p \in msgs \ lost /\ \A m \in Mails : Has(u, m) /\ u[m].msg = p => u[m].notif
        ELSE /\ \A m, x \in Mails : /\ Has(u, m) /\ u[m].msg = p /\ ~u[m].notif
                                    /\ Has(u, x) /\ u[x].msg = p /\ ~u[x].notif
                                    => m = x
             /\ (\E m \in Mails : Has(u, m) /\ u[m].msg = p) =>
                    p \in msgs \ lost /\ \E m \in Mails : Has(u, m) /\ u[m].msg = p /\ ~u[m].notif
             /\ p \in msgs \ lost => \E m \in Mails : Has(u, m) /\ u[m].msg = p
    BY DEF Own, lost
  <1>4. CASE letters[p].notif
    <2>1. p \in msgs /\ \A m \in Mails : part(p, m) => t[m].notif
      BY <1>4 DEF Own
    <2> HIDE DEF part
    <2>2. p \notin lost
      BY <1>2, <2>1
    <2>3. \A m \in Mails \ S : part(p, m) => u[m].notif
      BY <1>1, <1>3, <2>1 DEF part
    <2>4. \A m \in Mails : Has(u, m) /\ u[m].msg = p => u[m].notif
      BY <1>1, <2>3 DEF part
    <2> QED
      BY <1>4, <2>1, <2>2, <2>4
  <1>5. CASE ~letters[p].notif
    <2>1. /\ \A m, x \in Mails : owner(p, m) /\ owner(p, x) => m = x
          /\ (\E m \in Mails : part(p, m)) => p \in msgs /\ \E m \in Mails : owner(p, m)
          /\ p \in msgs => \E m \in Mails : part(p, m)
      BY <1>5 DEF Own
    <2>2. \A m \in Mails : Has(u, m) /\ u[m].msg = p <=> m \notin S /\ part(p, m)
      BY <1>1
    <2>3. \A m \in Mails : Has(u, m) /\ u[m].msg = p /\ ~u[m].notif <=>
            m \notin S /\ part(p, m) /\ (owner(p, m) \/ \E o \in S : Inherits(t, S, o, m))
      BY <1>1, <2>2
    <2>4. \A o \in S, m \in Mails : part(p, m) /\ Inherits(t, S, o, m) =>
            owner(p, o) /\ \A x \in Mails \ S : part(p, x) => m <= x
      BY <1>3
    <2>5. ASSUME NEW m \in Mails, Has(u, m), u[m].msg = p, ~u[m].notif,
                 NEW x \in Mails, Has(u, x), u[x].msg = p, ~u[x].notif
          PROVE  m = x
      <3>1. /\ m \notin S /\ part(p, m) /\ (owner(p, m) \/ \E o \in S : Inherits(t, S, o, m))
            /\ x \notin S /\ part(p, x) /\ (owner(p, x) \/ \E o \in S : Inherits(t, S, o, x))
        BY <2>3, <2>5
      <3> HIDE DEF part, owner
      <3>2. CASE owner(p, m) \/ owner(p, x)
        BY <2>1, <2>4, <3>1, <3>2
      <3>3. CASE ~owner(p, m) /\ ~owner(p, x)
        <4>1. m <= x /\ x <= m
          BY <2>4, <3>1, <3>3
        <4>2. m \in Int /\ x \in Int
          BY Numbers
        <4> QED
          BY <4>1, <4>2
      <3> QED
        BY <3>2, <3>3
    <2>6. ASSUME NEW m \in Mails \ S, part(p, m)
          PROVE  /\ p \in msgs \ lost
                 /\ \E x \in Mails : Has(u, x) /\ u[x].msg = p /\ ~u[x].notif
      <3> HIDE DEF part, owner
      <3>1. PICK o \in Mails : owner(p, o)
        BY <2>1, <2>6
      <3>2. p \notin lost
        BY <1>2, <2>6
      <3>3. CASE o \notin S
        <4>1. part(p, o)
          BY <3>1 DEF owner
        <4> QED
          BY <2>1, <2>3, <2>6, <3>1, <3>2, <3>3, <4>1
      <3>4. CASE o \in S
        <4> DEFINE R == {x \in Mails \ S : part(p, x)}
        <4>1. R \in SUBSET Nat /\ R # {}
          BY <2>6, Numbers
        <4>2. PICK x \in R : \A y \in R : x <= y
          BY <4>1, LeastExists
        <4>3. Inherits(t, S, o, x)
          BY <3>1, <3>4, <4>2 DEF Inherits, part, owner
        <4> QED
          BY <2>1, <2>3, <2>6, <3>2, <3>4, <4>2, <4>3
      <3> QED
        BY <3>3, <3>4
    <2>7. ASSUME p \in msgs \ lost PROVE \E m \in Mails \ S : part(p, m)
      <3> HIDE DEF part, owner
      <3>1. PICK o \in Mails : owner(p, o)
        BY <2>1, <2>7
      <3>2. part(p, o)
        BY <3>1 DEF owner
      <3> QED
        BY <1>2, <2>7, <3>1, <3>2
    <2> HIDE DEF part, owner
    <2> QED
      BY <1>5, <2>2, <2>5, <2>6, <2>7
  <1> QED
    BY <1>4, <1>5

-----------------------------------------------------------------------------
(* What the steps do to the rows *)

Sent == [mail EXCEPT ![run.cur].state = "sent"]

\* A mail that is done stays as it is, is marked sent, or is deleted.
LEMMA FinishTo ==
    ASSUME TypeOK, FinishMail
    PROVE  /\ run.phase = "smtp" /\ run.cur \in Mails /\ Exists(run.cur)
           /\ \/ run.reached = {} /\ mail' = mail /\ messages' = messages
              \/ run.reached # {} /\ mail' = Sent /\ messages' = messages
              \/ /\ run.reached # {}
                 /\ Left(Sent, {run.cur}, mail')
                 /\ messages' = messages \ Lost(Sent, {run.cur})
  <1>1. run.phase = "smtp" /\ run.cur \in Mails /\ mail[run.cur].state = "exception" /\ TableOK(mail)
    BY DEF FinishMail, TypeOK, RunOK
  <1>2. /\ DOMAIN Sent = Mails
        /\ \A m \in {run.cur} : Has(Sent, m)
        /\ \A m \in Mails : /\ DOMAIN Sent[m] = Fields
                            /\ Has(Sent, m) <=> Exists(m)
                            /\ Sent[m].msg = mail[m].msg
    BY <1>1 DEF Sent, TableOK, RowOK, Fields, Has, Exists
  <1>3. {run.cur} \in SUBSET Mails
    BY <1>1
  <1> DEFINE u == Deleted(HandedOver(Sent, {run.cur}), {run.cur})
             l == MessagesLost(HandedOver(Sent, {run.cur}), {run.cur})
  <1>4. Left(Sent, {run.cur}, u) /\ l = Lost(Sent, {run.cur})
    BY <1>2, <1>3, DeletedRows
  <1>5. \/ run.reached = {} /\ mail' = mail /\ messages' = messages
        \/ run.reached # {} /\ mail' = Sent /\ messages' = messages
        \/ run.reached # {} /\ mail' = u /\ messages' = messages \ l
    BY DEF FinishMail, Sent
  <1> HIDE DEF u, l
  <1> QED
    BY <1>1, <1>4, <1>5 DEF Exists

\* Users delete mails nobody is about to write; so are the mails they share messages with.
Siblings(S) == UNION {SameMessage(m) : m \in S}

LEMMA DeleteTo ==
    ASSUME TypeOK, NEW S \in SUBSET Mails, Delete(S)
    PROVE  /\ \A m \in S : Has(mail, m)
           /\ \A m \in Mails : m \in Siblings(S) <=>
                Has(mail, m) /\ \E o \in S : mail[m].msg = mail[o].msg
           /\ \A m \in Siblings(S) : /\ mail[m] = saved.mail[m] /\ m # run.cur
                                     /\ run.phase = "connect" => m \notin ToSet(run.pending)
           /\ Left(mail, S, mail') /\ messages' = messages \ Lost(mail, S)
           /\ CommitUser(Siblings(S))
           /\ \A m \in Mails \ Siblings(S) : m \notin S /\ mail'[m] = mail[m]
  <1>1. \A m \in S : Has(mail, m) /\ \A x \in SameMessage(m) : ~Locked(x)
    BY DEF Delete, Has, Exists
  <1>2. \A m \in Mails : m \in Siblings(S) <=> Has(mail, m) /\ \E o \in S : mail[m].msg = mail[o].msg
    BY DEF Siblings, SameMessage, Has, Exists
  <1>3. \A m \in Siblings(S) : ~Locked(m)
    BY <1>1 DEF Siblings
  <1>4. /\ DOMAIN mail = Mails
        /\ \A m \in Mails : DOMAIN mail[m] = Fields /\ (Has(mail, m) <=> Exists(m))
    BY DEF TypeOK, TableOK, RowOK, Has, Exists
  <1>5. /\ Left(mail, S, Deleted(HandedOver(mail, S), S))
        /\ MessagesLost(HandedOver(mail, S), S) = Lost(mail, S)
    <2> HIDE DEF Has, Fields
    <2> QED
      BY <1>1, <1>4, DeletedRows
  <1>6. Left(mail, S, mail') /\ messages' = messages \ Lost(mail, S) /\ CommitUser(Siblings(S))
    BY <1>5 DEF Delete, Siblings
  <1>7. ASSUME NEW m \in Mails \ Siblings(S) PROVE m \notin S /\ mail'[m] = mail[m]
    <2>1. m \notin S
      BY <1>1, <1>2, <1>7
    <2>2. mail'[m] = HandedOver(mail, S)[m]
      <3> DEFINE kept == HandedOver(mail, S)
      <3>1. mail' = Deleted(kept, S) /\ MessagesLost(kept, S) = Lost(mail, S)
        BY <1>5 DEF Delete
      <3> HIDE DEF kept
      <3>2. mail'[m] = IF m \in S \/ (Exists(m) /\ kept[m].msg \in MessagesLost(kept, S)) THEN NoMail ELSE kept[m]
        BY <3>1 DEF Deleted
      <3>3. mail'[m].state = mail[m].state /\ DOMAIN mail'[m] = Fields
        BY <1>6, <2>1 DEF Left
      <3>4. ~Exists(m) \/ mail'[m] # NoMail
        BY <3>3 DEF Exists, NoMail
      <3> QED
        BY <2>1, <3>2, <3>4 DEF kept
    <2>3. HandedOver(mail, S)[m] = mail[m]
      <3> DEFINE leaving == {o \in Owners(mail, S) : HasHeir(o, S)}
      <3>1. m \notin leaving
        BY <2>1 DEF Owners
      <3>2. \A o \in leaving : Heir(o, S) # m
        <4>1. ASSUME NEW o \in leaving PROVE Heir(o, S) \in Siblings(S)
          <5> DEFINE R == SameMessage(o) \ S
          <5>1. R \in SUBSET Nat /\ R # {}
            BY Numbers DEF HasHeir, SameMessage
          <5>2. Min(R) \in R
            <6> HIDE DEF R
            <6> QED
              BY <5>1, MinOf
          <5>3. o \in S
            BY DEF Owners
          <5> QED
            BY <5>2, <5>3 DEF Heir, Siblings
        <4> HIDE DEF leaving
        <4> QED
          BY <1>7, <4>1
      <3>3. HandedOver(mail, S)[m] =
              IF m \in leaving THEN [mail[m] EXCEPT !.notif = TRUE]
              ELSE IF \E o \in leaving : Heir(o, S) = m THEN [mail[m] EXCEPT !.notif = FALSE]
              ELSE mail[m]
        BY DEF HandedOver
      <3> HIDE DEF leaving
      <3> QED
        BY <3>1, <3>2, <3>3
    <2> QED
      BY <2>1, <2>2, <2>3
  <1> QED
    BY <1>1, <1>2, <1>3, <1>6, <1>7 DEF Locked

LEMMA StopTo ==
    ASSUME TypeOK, StopBatch
    PROVE  /\ DOMAIN mail' = Mails /\ run' = Idle
           /\ \A m \in Mails : /\ Redated(mail'[m], mail[m])
                               /\ mail'[m].sched = mail[m].sched \/ mail'[m].sched \in triggers'
           /\ triggers \subseteq triggers' /\ messages' = messages
           /\ Commit
  <1> DEFINE rest == SelectSeq(run.pending, LAMBDA m : mail[m].state = "outgoing")
             d == Defer(slots, mail, rest)
  <1>1. /\ mail' = d.table /\ triggers' = triggers \cup d.wakes /\ run' = Idle
        /\ messages' = messages /\ Commit
    BY DEF StopBatch
  <1>2. \A m \in Mails : DOMAIN mail[m] = Fields
    BY DEF TypeOK, TableOK, RowOK
  <1> HIDE DEF rest
  <1> QED
    BY <1>1, <1>2, Deferring

\* The mail whose send ends early keeps the recipients it did not reach.
CutRow(row) ==
    /\ DOMAIN row = Fields
    /\ row.to = LeftTo /\ row.cc = LeftCc
    /\ row.msg = mail[run.cur].msg /\ row.notif = mail[run.cur].notif

LEMMA CutTo ==
    ASSUME TypeOK, RefuseTemporarily \/ FailForGood
    PROVE  /\ run.phase = "smtp" /\ run.cur \in Mails /\ Exists(run.cur)
           /\ DOMAIN mail' = Mails /\ CutRow(mail'[run.cur]) /\ mail'[run.cur].state \in {"outgoing", "exception"}
           /\ \A m \in Mails \ {run.cur} : mail'[m] = mail[m]
           /\ \/ mail'[run.cur].sched \in triggers'
              \/ mail'[run.cur].sched = mail[run.cur].sched
           /\ triggers \subseteq triggers' /\ messages' = messages
           /\ CommitDuringJob
           /\ DOMAIN run' = RunFields /\ run'.phase \in {"batch", "stop"} /\ run'.cur = 0 /\ run'.reached = {}
           /\ run'.pending = run.pending
  <1>1. /\ run.phase = "smtp" /\ run.cur \in Mails /\ mail[run.cur].state = "exception"
        /\ DOMAIN mail = Mails /\ DOMAIN mail[run.cur] = Fields /\ DOMAIN run = RunFields
    BY DEF RefuseTemporarily, FailForGood, Sending, TypeOK, RunOK, TableOK, RowOK
  <1>2. /\ DOMAIN NextMail = RunFields /\ NextMail.phase = "batch" /\ NextMail.cur = 0
        /\ NextMail.reached = {} /\ NextMail.pending = run.pending
    BY <1>1 DEF NextMail, RunFields
  <1>3. /\ CutRow(Requeued) /\ Requeued.state = "outgoing" /\ Requeued.sched = now + RetryAfter
        /\ CutRow(Stripped) /\ Stripped.state = "exception" /\ Stripped.sched = mail[run.cur].sched
    <2>1. CutRow(Requeued) /\ Requeued.state = "outgoing" /\ Requeued.sched = now + RetryAfter
      BY <1>1 DEF Requeued, CutRow, Fields
    <2>2. CutRow(Stripped) /\ Stripped.state = "exception" /\ Stripped.sched = mail[run.cur].sched
      BY <1>1 DEF Stripped, CutRow, Fields
    <2> QED
      BY <2>1, <2>2
  <1>4. CASE RefuseTemporarily
    <2>1. /\ mail' = [mail EXCEPT ![run.cur] = Requeued]
          /\ triggers' = triggers \cup {now + RetryAfter}
          /\ run' = [NextMail EXCEPT !.phase = "stop", !.batch = 0, !.credit = 0]
          /\ messages' = messages /\ CommitDuringJob
      BY <1>4 DEF RefuseTemporarily
    <2>2. /\ DOMAIN run' = RunFields /\ run'.phase = "stop" /\ run'.cur = 0 /\ run'.reached = {}
          /\ run'.pending = run.pending
      BY <1>2, <2>1 DEF RunFields
    <2> QED
      BY <1>1, <1>3, <2>1, <2>2 DEF Exists
  <1>5. CASE FailForGood
    <2>1. /\ mail' = [mail EXCEPT ![run.cur] = Stripped]
          /\ triggers' = triggers /\ run' = NextMail
          /\ messages' = messages /\ CommitDuringJob
      BY <1>5 DEF FailForGood
    <2> QED
      BY <1>1, <1>2, <1>3, <2>1 DEF Exists
  <1> QED
    BY <1>4, <1>5

\* A new letter is a new row, committed at once.
LEMMA PostTo ==
    ASSUME TypeOK, NEW l \in Letters, Post(l)
    PROVE  /\ made' = made + 1 /\ made' \in Mails
           /\ letters' = Append(letters, l) /\ Len(letters') = Len(letters) + 1 /\ Len(letters') <= MaxPosts
           /\ l.to \subseteq Partners /\ l.cc \subseteq Addresses /\ l.notif \in BOOLEAN
           /\ DOMAIN mail' = Mails /\ DOMAIN mail'[made'] = Fields
           /\ mail'[made'].state = "outgoing" /\ mail'[made'].to = l.to /\ mail'[made'].cc = l.cc
           /\ mail'[made'].sched = 0 /\ mail'[made'].msg = Len(letters') /\ mail'[made'].notif = l.notif
           /\ \A m \in Mails \ {made'} : mail'[m] = mail[m]
           /\ ~Has(mail, made') /\ ~Has(saved.mail, made')
           /\ \A p \in 1..Len(letters) : letters'[p] = letters[p]
           /\ letters'[Len(letters')] = l
           /\ messages' = messages \cup {Len(letters')}
           /\ CommitUser({made'})
  <1>1. /\ made' = made + 1 /\ made < MaxMails /\ Len(letters) < MaxPosts
        /\ letters' = Append(letters, l) /\ messages' = messages \cup {Len(letters) + 1}
        /\ CommitUser({made + 1})
        /\ mail' = [mail EXCEPT ![made + 1] =
                    [state |-> "outgoing", to |-> l.to, cc |-> l.cc, retries |-> 0, sched |-> 0,
                     msg |-> Len(letters) + 1, notif |-> l.notif, autodel |-> l.autodel]]
    BY DEF Post
  <1>2. made \in Nat /\ letters \in Seq(Letters) /\ MaxMails \in Nat /\ MaxPosts \in Nat
    BY Numbers DEF TypeOK
  <1>3. made + 1 \in Mails
    BY <1>1, <1>2 DEF Mails
  <1>4. DOMAIN mail = Mails /\ ~Has(mail, made + 1) /\ ~Has(saved.mail, made + 1)
    <2>1. \A m \in Mails : (Has(mail, m) => m <= made) /\ (Has(saved.mail, m) => m <= made)
      BY DEF TypeOK, TableOK, RowOK, Has
    <2> QED
      BY <1>2, <1>3, <2>1 DEF TypeOK, TableOK
  <1>5. Len(letters') = Len(letters) + 1 /\ Len(letters') <= MaxPosts
    BY <1>1, <1>2
  <1>6. letters'[Len(letters')] = l /\ \A p \in 1..Len(letters) : letters'[p] = letters[p]
    BY <1>1, <1>2
  <1> DEFINE row == [state |-> "outgoing", to |-> l.to, cc |-> l.cc, retries |-> 0, sched |-> 0,
                     msg |-> Len(letters) + 1, notif |-> l.notif, autodel |-> l.autodel]
  <1>7. /\ DOMAIN row = Fields /\ row.state = "outgoing" /\ row.to = l.to /\ row.cc = l.cc
        /\ row.sched = 0 /\ row.msg = Len(letters) + 1 /\ row.notif = l.notif
    BY DEF Fields
  <1>8. mail' = [mail EXCEPT ![made + 1] = row]
    BY <1>1
  <1> HIDE DEF row
  <1>9. DOMAIN mail' = Mails /\ mail'[made'] = row /\ \A m \in Mails \ {made'} : mail'[m] = mail[m]
    BY <1>1, <1>3, <1>4, <1>8
  <1>10. l.to \subseteq Partners /\ l.cc \subseteq Addresses /\ l.notif \in BOOLEAN
    BY QueueAssumption
  <1> QED
    BY <1>1, <1>3, <1>4, <1>5, <1>6, <1>7, <1>9, <1>10

-----------------------------------------------------------------------------
(* TypeOK is inductive *)

\* Rows alike but for state, date and fewer recipients, and the same counters.
Alike(row, old) ==
    /\ DOMAIN row = Fields
    /\ row.state \in States /\ (row.state # "none" => old.state # "none")
    /\ row.msg = old.msg /\ row.notif \in BOOLEAN
    /\ row.to \subseteq old.to /\ row.cc \subseteq old.cc

LEMMA TableAlike ==
    ASSUME TypeOK, DOMAIN mail' = Mails, made' = made, letters' = letters,
           \A m \in Mails : mail'[m] = NoMail \/ Alike(mail'[m], mail[m])
    PROVE  TableOK(mail)' /\ TableOK(saved.mail)
  <1>1. ASSUME NEW m \in Mails PROVE RowOK(mail'[m], m, made, Len(letters))
    <2>1. RowOK(mail[m], m, made, Len(letters))
      BY DEF TypeOK, TableOK
    <2>2. CASE mail'[m] = NoMail
      BY <2>2 DEF NoMail, RowOK, Fields, States
    <2>3. CASE Alike(mail'[m], mail[m])
      BY <2>1, <2>3 DEF Alike, RowOK
    <2> QED
      BY <2>2, <2>3
  <1> QED
    BY <1>1 DEF TableOK, TypeOK

LEMMA TypeInit == Init => TypeOK
  <1> SUFFICES ASSUME Init PROVE TypeOK
    OBVIOUS
  <1>1. TableOK(mail)
    <2>1. \A m \in Mails : RowOK(NoMail, m, made, Len(letters))
      BY DEF RowOK, NoMail, Fields, States
    <2> QED
      BY <2>1 DEF Init, TableOK
  <1>2. DOMAIN saved = {"mail", "messages", "slots", "triggers"} /\ saved.mail = mail
    BY DEF Init, Database
  <1>3. RunOK
    <2>1. run = Idle
      BY DEF Init
    <2>2. DOMAIN Idle = RunFields /\ Idle.phase = "idle" /\ Idle.pending = <<>> /\ Idle.cur = 0
      BY DEF Idle, RunFields
    <2> QED
      BY <2>1, <2>2 DEF RunOK
  <1>4. letters \in Seq(Letters) /\ Len(letters) <= MaxPosts
    BY Numbers DEF Init
  <1>5. got \in [Posts -> [Recipients -> Nat]] /\ cutOff \in [Posts -> Nat]
    BY DEF Init
  <1> QED
    BY <1>1, <1>2, <1>3, <1>4, <1>5 DEF TypeOK, Init

LEMMA TypeTake ==
    ASSUME TypeOK, Take, UNCHANGED <<now, bounds, history>>
    PROVE  TypeOK'
  <1>1. PICK batch : \/ Handed(mail, 0, batch)
                     \/ \E f, first : SplitOff(f, first) /\ Handed(Parted(f, first), 1, batch)
    BY TakeTo
  <1>2. ASSUME NEW table, NEW n \in {0, 1}, Handed(table, n, batch),
               \A m \in Mails : RowOK(table[m], m, made + n, Len(letters))
        PROVE  TypeOK'
    <2>1. /\ made' = made + n /\ made \in Nat /\ letters' = letters /\ Len(letters) \in Nat
          /\ made' \in Nat
      BY <1>2 DEF Handed, TypeOK, bounds
    <2>2. TableOK(mail)'
      BY <1>2, <2>1, RowRedated DEF Handed, TableOK
    <2>3. TableOK(saved.mail)' /\ DOMAIN saved' = {"mail", "messages", "slots", "triggers"}
      <3>1. CASE saved' = Database'
        BY <2>2, <3>1 DEF Database, TableOK
      <3>2. CASE saved' = saved
        <4>1. \A m \in Mails : m \in Nat
          BY Numbers
        <4> QED
          BY <2>1, <3>2, <4>1, RowGrows DEF TypeOK, TableOK
      <3> QED
        BY <1>2, <3>1, <3>2 DEF Handed
    <2>4. RunOK'
      BY <1>2 DEF Handed, RunOK, Redated
    <2> QED
      BY <2>1, <2>2, <2>3, <2>4 DEF TypeOK, bounds, history
  <1>3. CASE Handed(mail, 0, batch)
    <2>1. \A m \in Mails : RowOK(mail[m], m, made + 0, Len(letters))
      BY DEF TypeOK, TableOK
    <2> QED
      BY <1>2, <1>3, <2>1
  <1>4. CASE \E f, first : SplitOff(f, first) /\ Handed(Parted(f, first), 1, batch)
    <2>1. PICK f, first : SplitOff(f, first) /\ Handed(Parted(f, first), 1, batch)
      BY <1>4
    <2>2. f \in Mails /\ mail[f].state = "outgoing" /\ f # made + 1 /\ first \subseteq mail[f].to
      BY <2>1 DEF SplitOff, Due
    <2>3. ASSUME NEW m \in Mails PROVE RowOK(Parted(f, first)[m], m, made + 1, Len(letters))
      <3>1. /\ RowOK(mail[m], m, made, Len(letters)) /\ RowOK(mail[f], f, made, Len(letters))
            /\ DOMAIN mail = Mails /\ made \in Nat /\ m \in Nat /\ Len(letters) \in Nat
        BY <2>2, Numbers DEF TypeOK, TableOK
      <3>2. CASE m = made + 1
        <4> DEFINE row == [mail[f] EXCEPT !.to = first, !.notif = TRUE, !.retries = 0]
        <4>1. RowOK(row, m, made + 1, Len(letters))
          BY <2>2, <3>1, <3>2 DEF RowOK, Fields
        <4>2. Parted(f, first)[m] = row
          BY <2>2, <3>1, <3>2 DEF Parted
        <4> QED
          BY <4>1, <4>2
      <3>3. CASE m = f
        <4> DEFINE row == Parted(f, first)[m]
        <4>1. /\ DOMAIN row = Fields /\ row.state = mail[f].state /\ row.msg = mail[f].msg
              /\ row.notif = mail[f].notif /\ row.to \subseteq mail[f].to /\ row.cc = {}
          BY <2>2, <3>1, <3>3 DEF Parted, RowOK, Fields
        <4> HIDE DEF row
        <4>2. RowOK(row, m, made, Len(letters))
          BY <3>1, <3>3, <4>1 DEF RowOK
        <4> QED
          BY <3>1, <4>2, RowGrows DEF row
      <3>4. CASE m # made + 1 /\ m # f
        <4>1. Parted(f, first)[m] = mail[m]
          BY <3>1, <3>4 DEF Parted
        <4> QED
          BY <3>1, <4>1, RowGrows
      <3> QED
        BY <3>2, <3>3, <3>4
    <2> QED
      BY <1>2, <2>1, <2>3
  <1> QED
    BY <1>1, <1>3, <1>4

LEMMA TypeRunner ==
    ASSUME TypeOK, Runner
    PROVE  TypeOK'
  <1> USE DEF bounds, history, queue, tables, ids
  <1>1. /\ now \in Nat /\ made \in Nat /\ letters \in Seq(Letters) /\ Len(letters) <= MaxPosts
        /\ DOMAIN saved = {"mail", "messages", "slots", "triggers"}
        /\ DOMAIN mail = Mails /\ \A m \in Mails : RowOK(mail[m], m, made, Len(letters))
        /\ TableOK(mail) /\ TableOK(saved.mail) /\ RunOK
        /\ got \in [Posts -> [Recipients -> Nat]] /\ cutOff \in [Posts -> Nat]
    BY DEF TypeOK, TableOK
  <1>2. /\ DOMAIN run = RunFields /\ run.pending \in Seq(Mails)
        /\ run.phase = "smtp" => run.cur \in Mails /\ mail[run.cur].state = "exception"
        /\ run.phase # "smtp" => run.cur = 0
    BY <1>1 DEF RunOK
  <1>3. /\ DOMAIN Idle = RunFields /\ Idle.phase = "idle" /\ Idle.pending = <<>> /\ Idle.cur = 0
        /\ DOMAIN NextMail = RunFields /\ NextMail.phase = "batch" /\ NextMail.cur = 0
        /\ NextMail.pending = run.pending
    <2>1. DOMAIN Idle = RunFields /\ Idle.phase = "idle" /\ Idle.pending = <<>> /\ Idle.cur = 0
      BY DEF Idle, RunFields
    <2>2. /\ DOMAIN NextMail = RunFields /\ NextMail.phase = "batch" /\ NextMail.cur = 0
          /\ NextMail.pending = run.pending
      BY <1>2 DEF NextMail, RunFields
    <2> QED
      BY <2>1, <2>2
  <1>4. ASSUME run' = Idle \/ run' = NextMail PROVE RunOK'
    <2>1. /\ DOMAIN run' = RunFields /\ run'.phase \in {"idle", "batch"} /\ run'.cur = 0
          /\ run'.pending = <<>> \/ run'.pending = run.pending
      BY <1>3, <1>4
    <2>2. run'.pending \in Seq(Mails)
      <3>1. <<>> \in Seq(Mails)
        OBVIOUS
      <3> QED
        BY <1>2, <2>1, <3>1
    <2> QED
      BY <2>1, <2>2 DEF RunOK
  \* What it takes: the rows, the runner, and what was reached.
  <1>5. ASSUME UNCHANGED <<now, made, letters>>, TableOK(mail)', RunOK',
               Commit \/ CommitDuringJob \/ saved' = saved,
               got' \in [Posts -> [Recipients -> Nat]], cutOff' \in [Posts -> Nat]
        PROVE  TypeOK'
    <2>1. DOMAIN saved' = {"mail", "messages", "slots", "triggers"} /\ TableOK(saved.mail)'
      BY <1>1, <1>5, CommitTo DEF TableOK
    <2> QED
      BY <1>1, <1>5, <2>1 DEF TypeOK
  <1>6. ASSUME UNCHANGED <<mail, made, letters>> PROVE TableOK(mail)'
    BY <1>1, <1>6 DEF TableOK
  <1>7. ASSUME run.phase = "smtp" PROVE mail[run.cur].msg \in Posts
    <2>1. mail[run.cur].msg \in 1..Len(letters)
      BY <1>1, <1>2, <1>7 DEF RowOK
    <2> QED
      BY <1>1, <2>1, Numbers DEF Posts
  <1>8. ASSUME NEW item, run.phase = "smtp", Deliver(item)
        PROVE  got' \in [Posts -> [Recipients -> Nat]]
    <2> DEFINE p == mail[run.cur].msg
               copies == [r \in Recipients |-> IF r \in item THEN got[p][r] + 1 ELSE got[p][r]]
    <2>1. p \in Posts
      BY <1>7, <1>8
    <2>2. copies \in [Recipients -> Nat]
      BY <1>1, <2>1
    <2>3. got' = [got EXCEPT ![p] = copies]
      BY <1>8 DEF Deliver
    <2> HIDE DEF p, copies
    <2> QED
      BY <1>1, <2>1, <2>2, <2>3
  <1>9. ASSUME NEW reached, run.phase = "smtp", CutOff(reached) PROVE cutOff' \in [Posts -> Nat]
    BY <1>1, <1>7, <1>9 DEF CutOff
  <1>10. CASE ConnectOk
    <2>1. run' = [run EXCEPT !.phase = "batch"] /\ run.phase = "connect"
      BY <1>10 DEF ConnectOk
    <2>2. RunOK'
      BY <1>2, <2>1 DEF RunOK, RunFields
    <2> QED
      BY <1>1, <1>5, <1>6, <1>10, <2>2 DEF ConnectOk
  <1>11. CASE ConnectFails
    <2> DEFINE failed == [m \in Mails |-> IF m \in ToSet(run.pending) THEN [mail[m] EXCEPT !.state = "exception"] ELSE mail[m]]
    <2>1. ToSet(run.pending) = {run.pending[k] : k \in DOMAIN run.pending}
      BY DEF ToSet
    <2>2. \A m \in ToSet(run.pending) : mail[m].state = "outgoing"
      BY <1>1, <1>11, <2>1 DEF ConnectFails, RunOK
    <2>3. \A m \in Mails : Alike(failed[m], mail[m])
      BY <1>1, <2>2 DEF Alike, RowOK, Fields, States
    <2>4. mail' = failed /\ DOMAIN failed = Mails
      BY <1>11 DEF ConnectFails
    <2> HIDE DEF failed
    <2>5. TableOK(mail)'
      BY <1>11, <2>3, <2>4, TableAlike DEF ConnectFails
    <2> QED
      BY <1>1, <1>4, <1>5, <1>11, <2>5 DEF ConnectFails
  <1>12. CASE StartMail
    <2> DEFINE m == Head(run.pending)
    <2>1. m \in Mails /\ Tail(run.pending) \in Seq(Mails)
      BY <1>2, <1>12 DEF StartMail
    <2>2. CASE mail[m].state = "outgoing"
      <3>1. /\ mail' = [mail EXCEPT ![m].state = "exception"]
            /\ run' = [run EXCEPT !.phase = "smtp", !.pending = Tail(@), !.cur = m,
                                  !.cc = mail[m].cc, !.to = mail[m].to,
                                  !.reached = {}, !.invalid = FALSE]
        BY <1>12, <2>2 DEF StartMail
      <3> HIDE DEF m
      <3>2. DOMAIN mail' = Mails /\ \A x \in Mails : Alike(mail'[x], mail[x])
        <4>1. \A x \in Mails \ {m} : mail'[x] = mail[x]
          BY <1>1, <2>1, <3>1
        <4>2. mail'[m] = [mail[m] EXCEPT !.state = "exception"]
          BY <1>1, <2>1, <3>1
        <4> QED
          BY <1>1, <2>1, <2>2, <3>1, <4>1, <4>2 DEF Alike, RowOK, Fields, States
      <3>3. TableOK(mail)'
        BY <1>12, <3>2, TableAlike DEF StartMail
      <3>4. /\ DOMAIN run' = RunFields /\ run'.phase = "smtp" /\ run'.cur = m
            /\ run'.pending = Tail(run.pending) /\ mail'[m].state = "exception"
        BY <1>1, <1>2, <2>1, <3>1 DEF RunFields, RowOK, Fields
      <3>5. RunOK'
        BY <2>1, <3>4 DEF RunOK
      <3> QED
        BY <1>1, <1>5, <1>12, <3>3, <3>5 DEF StartMail
    <2>3. CASE mail[m].state # "outgoing"
      <3>1. run' = [run EXCEPT !.pending = Tail(@)] /\ mail' = mail /\ run.phase = "batch"
        BY <1>12, <2>3 DEF StartMail
      <3> HIDE DEF m
      <3>2. RunOK'
        BY <1>2, <2>1, <3>1 DEF RunOK, RunFields
      <3> QED
        BY <1>1, <1>5, <1>6, <1>12, <3>1, <3>2 DEF StartMail
    <2> QED
      BY <2>2, <2>3
  <1>13. ASSUME NEW item, UNCHANGED mail,
                \/ run' = [After(item) EXCEPT !.reached = @ \cup item]
                \/ run' = [After(item) EXCEPT !.invalid = TRUE]
         PROVE  RunOK'
    <2>1. /\ DOMAIN run' = RunFields /\ run'.phase = run.phase /\ run'.pending = run.pending
          /\ run'.cur = run.cur
      BY <1>2, <1>13 DEF After, RunFields
    <2> QED
      BY <1>1, <1>13, <2>1 DEF RunOK
  <1>14. CASE Accept
    <2>1. PICK item \in Items : run' = [After(item) EXCEPT !.reached = @ \cup item] /\ Deliver(item)
      BY <1>14 DEF Accept
    <2>2. RunOK'
      BY <1>13, <1>14, <2>1 DEF Accept
    <2>3. got' \in [Posts -> [Recipients -> Nat]]
      BY <1>8, <1>14, <2>1 DEF Accept, Sending
    <2> QED
      BY <1>1, <1>5, <1>6, <1>14, <2>2, <2>3 DEF Accept
  <1>15. CASE Invalid
    <2>1. RunOK'
      BY <1>13, <1>15 DEF Invalid
    <2> QED
      BY <1>1, <1>5, <1>6, <1>15, <2>1 DEF Invalid
  <1>16. CASE RefuseTemporarily \/ FailForGood
    <2>1. /\ DOMAIN mail' = Mails /\ CutRow(mail'[run.cur]) /\ mail'[run.cur].state \in {"outgoing", "exception"}
          /\ \A m \in Mails \ {run.cur} : mail'[m] = mail[m]
          /\ CommitDuringJob
          /\ DOMAIN run' = RunFields /\ run'.phase \in {"batch", "stop"} /\ run'.cur = 0
          /\ run'.pending = run.pending /\ run.cur \in Mails /\ Exists(run.cur)
      BY <1>16, CutTo
    <2>2. \A m \in Mails : Alike(mail'[m], mail[m])
      <3>1. Alike(mail'[run.cur], mail[run.cur])
        BY <1>1, <2>1 DEF CutRow, LeftTo, LeftCc, Alike, RowOK, States, Exists
      <3>2. ASSUME NEW m \in Mails \ {run.cur} PROVE Alike(mail'[m], mail[m])
        BY <1>1, <2>1 DEF Alike, RowOK
      <3> QED
        BY <3>1, <3>2
    <2>3. UNCHANGED <<now, made, letters, got, cutOff>>
      BY <1>16 DEF RefuseTemporarily, FailForGood
    <2>4. TableOK(mail)'
      BY <2>1, <2>2, <2>3, TableAlike
    <2>5. RunOK'
      BY <1>2, <2>1 DEF RunOK
    <2> QED
      BY <1>1, <1>5, <2>1, <2>3, <2>4, <2>5
  <1>17. CASE FailAfterInvalid
    <2>1. cutOff' \in [Posts -> Nat]
      BY <1>9, <1>17 DEF FailAfterInvalid, Sending
    <2> QED
      BY <1>1, <1>4, <1>5, <1>6, <1>17, <2>1 DEF FailAfterInvalid
  <1>18. CASE Drop
    <2>1. run.phase = "smtp" /\ \/ got' = got
                                \/ \E item \in Items : Deliver(item)
      BY <1>18 DEF Drop, Sending
    <2>2. got' \in [Posts -> [Recipients -> Nat]]
      BY <1>1, <1>8, <2>1
    <2>3. cutOff' \in [Posts -> Nat]
      BY <1>9, <1>18, <2>1 DEF Drop
    <2> QED
      BY <1>4, <1>5, <1>6, <1>18, <2>2, <2>3 DEF Drop
  <1>19. CASE FinishMail
    <2>1. /\ run.phase = "smtp" /\ run.cur \in Mails /\ Exists(run.cur)
          /\ \/ mail' = mail
             \/ mail' = Sent
             \/ Left(Sent, {run.cur}, mail')
      BY <1>19, FinishTo
    <2>2. \A m \in Mails : Sent[m] = IF m = run.cur THEN [mail[m] EXCEPT !.state = "sent"] ELSE mail[m]
      BY <1>1, <2>1 DEF Sent
    <2>3. DOMAIN Sent = Mails /\ \A m \in Mails : Alike(Sent[m], mail[m])
      BY <1>1, <2>1, <2>2 DEF Sent, Alike, RowOK, Fields, States, Exists
    <2>4. UNCHANGED <<now, made, letters, got, cutOff>> /\ CommitDuringJob /\ run' = NextMail
      BY <1>19 DEF FinishMail
    <2>5. CASE Left(Sent, {run.cur}, mail')
      <3>1. \A m \in {run.cur} : mail'[m] = NoMail
        BY <2>5, Zenon DEF Left
      <3>2. \A m \in Mails \ {run.cur} : mail'[m] = NoMail \/ Alike(mail'[m], mail[m])
        <4>1. ASSUME NEW m \in Mails \ {run.cur} PROVE Alike(mail'[m], Sent[m])
          <5>1. /\ DOMAIN mail'[m] = Fields
                /\ mail'[m].state = Sent[m].state /\ mail'[m].msg = Sent[m].msg
                /\ mail'[m].to = Sent[m].to /\ mail'[m].cc = Sent[m].cc
                /\ mail'[m].notif = IF \E o \in {run.cur} : Inherits(Sent, {run.cur}, o, m) THEN FALSE ELSE Sent[m].notif
            BY <2>5, Zenon DEF Left
          <5>2. mail'[m].notif \in BOOLEAN /\ Sent[m].state \in States
            BY <2>3, <5>1 DEF Alike
          <5> QED
            BY <5>1, <5>2 DEF Alike
        <4> QED
          BY <2>3, <4>1 DEF Alike
      <3>3. DOMAIN mail' = Mails
        BY <2>5, Zenon DEF Left
      <3>4. TableOK(mail)'
        BY <2>1, <2>4, <3>1, <3>2, <3>3, TableAlike
      <3> QED
        BY <1>1, <1>4, <1>5, <2>4, <3>4
    <2>6. CASE mail' = mail \/ mail' = Sent
      <3>1. CASE mail' = mail
        BY <1>1, <1>4, <1>5, <1>6, <2>4, <3>1
      <3>2. CASE mail' = Sent
        <4>1. TableOK(mail)'
          BY <2>3, <2>4, <3>2, TableAlike
        <4> QED
          BY <1>1, <1>4, <1>5, <2>4, <4>1
      <3> QED
        BY <2>6, <3>1, <3>2
    <2> QED
      BY <2>1, <2>5, <2>6
  <1>20. CASE EndBatch
    BY <1>1, <1>4, <1>5, <1>6, <1>20 DEF EndBatch
  <1>21. CASE StopBatch
    <2>1. DOMAIN mail' = Mails /\ \A m \in Mails : Redated(mail'[m], mail[m])
      BY <1>21, StopTo
    <2>2. \A m \in Mails : Alike(mail'[m], mail[m])
      BY <1>1, <2>1 DEF Redated, Alike, RowOK
    <2>3. TableOK(mail)'
      BY <1>21, <2>1, <2>2, TableAlike DEF StopBatch
    <2> QED
      BY <1>1, <1>4, <1>5, <1>21, <2>3 DEF StopBatch
  <1> QED
    BY <1>10, <1>11, <1>12, <1>14, <1>15, <1>16, <1>17, <1>18, <1>19, <1>20, <1>21 DEF Runner

\* A committed row is one of two that are fine.
LEMMA TypeSaved ==
    ASSUME TypeOK, TableOK(mail)', made' \in Nat, made <= made', Len(letters') \in Nat,
           Len(letters) <= Len(letters'), NEW S, CommitUser(S)
    PROVE  TableOK(saved.mail)' /\ DOMAIN saved' = {"mail", "messages", "slots", "triggers"}
  <1>1. /\ DOMAIN saved' = {"mail", "messages", "slots", "triggers"}
        /\ DOMAIN saved'.mail = Mails
        /\ \A m \in Mails : saved'.mail[m] = IF m \in S THEN mail'[m] ELSE saved.mail[m]
    BY CommitUserTo
  <1>2. ASSUME NEW m \in Mails PROVE RowOK(saved'.mail[m], m, made', Len(letters'))
    <2>1. CASE m \in S
      BY <1>1, <2>1 DEF TableOK
    <2>2. CASE m \notin S
      <3>1. RowOK(saved.mail[m], m, made, Len(letters)) /\ made \in Nat /\ Len(letters) \in Nat /\ m \in Nat
        BY Numbers DEF TypeOK, TableOK
      <3> QED
        BY <1>1, <2>2, <3>1, RowGrows
    <2> QED
      BY <2>1, <2>2
  <1> QED
    BY <1>1, <1>2 DEF TableOK

LEMMA TypeUsers ==
    ASSUME TypeOK, Users
    PROVE  TypeOK'
  <1> USE DEF history
  <1>1. /\ now \in Nat /\ made \in Nat /\ letters \in Seq(Letters) /\ Len(letters) <= MaxPosts
        /\ Len(letters) \in Nat
        /\ DOMAIN mail = Mails /\ \A m \in Mails : RowOK(mail[m], m, made, Len(letters))
        /\ TableOK(mail) /\ RunOK
        /\ got \in [Posts -> [Recipients -> Nat]] /\ cutOff \in [Posts -> Nat]
    BY DEF TypeOK, TableOK
  \* The runner's own rows are not touched.
  <1>2. ASSUME run' = run,
               run.phase = "smtp" => mail'[run.cur].state = mail[run.cur].state,
               run.phase = "connect" => \A k \in DOMAIN run.pending :
                    mail'[run.pending[k]].state = mail[run.pending[k]].state
        PROVE  RunOK'
    BY <1>1, <1>2 DEF RunOK
  <1>3. ASSUME UNCHANGED <<now, made, letters, got, cutOff>>, TableOK(mail)', RunOK',
               NEW S, CommitUser(S)
        PROVE  TypeOK'
    <2>1. TableOK(saved.mail)' /\ DOMAIN saved' = {"mail", "messages", "slots", "triggers"}
      BY <1>1, <1>3, TypeSaved
    <2> QED
      BY <1>1, <1>3, <2>1 DEF TypeOK
  <1>4. \A k \in DOMAIN run.pending : run.pending[k] \in ToSet(run.pending) /\ run.pending[k] \in Mails
    BY <1>1 DEF ToSet, RunOK
  <1>5. ASSUME NEW l \in Letters, Post(l) PROVE TypeOK'
    <2>1. /\ made' = made + 1 /\ made' \in Mails /\ made' \in Nat
          /\ letters' = Append(letters, l) /\ Len(letters') = Len(letters) + 1 /\ Len(letters') <= MaxPosts
          /\ l.to \subseteq Partners /\ l.cc \subseteq Addresses /\ l.notif \in BOOLEAN
          /\ DOMAIN mail' = Mails /\ DOMAIN mail'[made'] = Fields
          /\ mail'[made'].state = "outgoing" /\ mail'[made'].to = l.to /\ mail'[made'].cc = l.cc
          /\ mail'[made'].msg = Len(letters') /\ mail'[made'].notif = l.notif
          /\ \A m \in Mails \ {made'} : mail'[m] = mail[m]
          /\ ~Has(mail, made') /\ CommitUser({made'})
      BY <1>1, <1>5, PostTo
    <2>2. UNCHANGED <<now, run, got, cutOff>>
      BY <1>5 DEF Post
    <2>3. ASSUME NEW m \in Mails PROVE RowOK(mail'[m], m, made', Len(letters'))
      <3>1. CASE m = made'
        <4>1. Len(letters') \in 1..Len(letters')
          BY <1>1, <2>1
        <4> QED
          BY <1>1, <2>1, <3>1, <4>1 DEF RowOK, States
      <3>2. CASE m # made'
        <4>1. mail'[m] = mail[m]
          BY <2>1, <3>2
        <4>2. m \in Nat
          BY Numbers
        <4> QED
          BY <1>1, <2>1, <4>1, <4>2, RowGrows
      <3> QED
        BY <3>1, <3>2
    <2>4. TableOK(mail)'
      BY <2>1, <2>3 DEF TableOK
    <2>5. TableOK(saved.mail)' /\ DOMAIN saved' = {"mail", "messages", "slots", "triggers"}
      BY <1>1, <2>1, <2>4, TypeSaved
    <2>6. RunOK'
      <3>1. run.phase = "smtp" => run.cur # made' /\ run.cur \in Mails
        BY <1>1, <2>1 DEF RunOK, Has
      <3>2. run.phase = "connect" => \A k \in DOMAIN run.pending : run.pending[k] # made'
        BY <1>1, <2>1 DEF RunOK, Has
      <3> QED
        BY <1>2, <1>4, <2>1, <2>2, <3>1, <3>2
    <2>7. letters' \in Seq(Letters)
      BY <1>1, <2>1
    <2> QED
      BY <1>1, <2>1, <2>2, <2>4, <2>5, <2>6, <2>7 DEF TypeOK
  <1>6. CASE SendNow
    <2>1. TableOK(mail)'
      BY <1>1, <1>6 DEF SendNow, TableOK, bounds
    <2>2. RunOK'
      BY <1>2, <1>6 DEF SendNow
    <2> QED
      BY <1>3, <1>6, <2>1, <2>2 DEF SendNow, bounds
  <1>7. ASSUME NEW m \in Mails, Retry(m) \/ Cancel(m) PROVE TypeOK'
    <2>1. /\ \/ mail' = [mail EXCEPT ![m].state = "outgoing", ![m].retries = 0]
             \/ mail' = [mail EXCEPT ![m].state = "cancel"]
          /\ mail[m].state # "none" /\ ~Locked(m) /\ run' = run /\ CommitUser({m})
          /\ UNCHANGED <<now, made, letters, got, cutOff>>
      BY <1>7 DEF Retry, Cancel
    <2>2. DOMAIN mail' = Mails /\ \A x \in Mails \ {m} : mail'[x] = mail[x]
      BY <1>1, <2>1
    <2>3. Alike(mail'[m], mail[m])
      <3>1. /\ DOMAIN mail'[m] = Fields /\ mail'[m].state \in {"outgoing", "cancel"}
            /\ mail'[m].msg = mail[m].msg /\ mail'[m].notif = mail[m].notif
            /\ mail'[m].to = mail[m].to /\ mail'[m].cc = mail[m].cc
        <4>1. DOMAIN mail = Mails /\ DOMAIN mail[m] = Fields
          BY <1>1 DEF RowOK
        <4>2. CASE mail' = [mail EXCEPT ![m].state = "outgoing", ![m].retries = 0]
          BY <4>1, <4>2 DEF Fields
        <4>3. CASE mail' = [mail EXCEPT ![m].state = "cancel"]
          BY <4>1, <4>3 DEF Fields
        <4> QED
          BY <2>1, <4>2, <4>3
      <3> QED
        BY <1>1, <2>1, <3>1 DEF Alike, RowOK, States
    <2>4. \A x \in Mails : Alike(mail'[x], mail[x])
      BY <1>1, <2>2, <2>3 DEF Alike, RowOK
    <2>5. TableOK(mail)'
      BY <2>1, <2>2, <2>4, TableAlike
    <2>6. m # run.cur /\ (run.phase = "connect" => m \notin ToSet(run.pending))
      BY <2>1 DEF Locked
    <2>7. RunOK'
      BY <1>1, <1>2, <1>4, <2>1, <2>2, <2>6 DEF RunOK
    <2> QED
      BY <1>3, <2>1, <2>5, <2>7
  <1>8. ASSUME NEW S \in SUBSET Mails, Delete(S) PROVE TypeOK'
    <2>1. /\ Left(mail, S, mail') /\ CommitUser(Siblings(S))
          /\ \A m \in Siblings(S) : m # run.cur /\ (run.phase = "connect" => m \notin ToSet(run.pending))
          /\ \A m \in Mails \ Siblings(S) : mail'[m] = mail[m]
      BY <1>8, DeleteTo
    <2>2. UNCHANGED <<now, made, letters, run, got, cutOff>>
      BY <1>8 DEF Delete
    <2>3. \A m \in Mails : mail'[m] = NoMail \/ Alike(mail'[m], mail[m])
      <3>1. \A m \in S : mail'[m] = NoMail
        BY <2>1, Zenon DEF Left
      <3>2. ASSUME NEW m \in Mails \ S PROVE Alike(mail'[m], mail[m])
        <4>1. /\ DOMAIN mail'[m] = Fields
              /\ mail'[m].state = mail[m].state /\ mail'[m].msg = mail[m].msg
              /\ mail'[m].to = mail[m].to /\ mail'[m].cc = mail[m].cc
              /\ mail'[m].notif = IF \E o \in S : Inherits(mail, S, o, m) THEN FALSE ELSE mail[m].notif
          BY <2>1, Zenon DEF Left
        <4>2. mail'[m].notif \in BOOLEAN /\ mail[m].state \in States
          BY <1>1, <4>1 DEF RowOK
        <4> QED
          BY <4>1, <4>2 DEF Alike
      <3> QED
        BY <3>1, <3>2
    <2>4. DOMAIN mail' = Mails
      BY <2>1, Zenon DEF Left
    <2>5. TableOK(mail)'
      BY <2>2, <2>3, <2>4, TableAlike
    <2>6. RunOK'
      BY <1>1, <1>2, <1>4, <2>1, <2>2 DEF RunOK
    <2> QED
      BY <1>3, <2>1, <2>2, <2>5, <2>6
  <1> QED
    BY <1>5, <1>6, <1>7, <1>8 DEF Users

LEMMA TypeNext == TypeOK /\ [Next]_vars => TypeOK'
  <1> SUFFICES ASSUME TypeOK, [Next]_vars PROVE TypeOK'
    OBVIOUS
  <1> USE DEF bounds, history, queue, tables, ids
  <1>1. CASE Tick
    <2>1. now' \in Nat /\ UNCHANGED <<made, letters, mail, run, saved, got, cutOff>>
      BY <1>1 DEF Tick, TypeOK
    <2> QED
      BY <2>1 DEF TypeOK, TableOK, RunOK
  <1>2. CASE TriggeredRun \/ RegularRun
    BY <1>2, TypeTake DEF TriggeredRun, RegularRun
  <1>3. CASE Runner
    BY <1>3, TypeRunner
  <1>4. CASE Crash
    <2>1. mail' = saved.mail /\ run' = Idle /\ UNCHANGED <<now, made, letters, saved, got>>
      BY <1>4 DEF Crash
    <2>2. DOMAIN Idle = RunFields /\ Idle.phase = "idle" /\ Idle.pending = <<>> /\ Idle.cur = 0
      BY DEF Idle, RunFields
    <2>3. RunOK'
      BY <2>1, <2>2 DEF RunOK
    <2>4. cutOff' \in [Posts -> Nat]
      <3>1. CASE run.cur = 0
        BY <1>4, <3>1 DEF Crash, TypeOK
      <3>2. CASE run.cur # 0
        <4>1. run.cur \in Mails /\ mail[run.cur].state = "exception"
          BY <3>2 DEF TypeOK, RunOK
        <4>2. mail[run.cur].msg \in 1..Len(letters)
          BY <4>1 DEF TypeOK, TableOK, RowOK
        <4>3. mail[run.cur].msg \in Posts
          BY <4>2, Numbers DEF TypeOK, Posts
        <4> QED
          BY <1>4, <3>2, <4>3 DEF Crash, CutOff, TypeOK
      <3> QED
        BY <3>1, <3>2
    <2>5. TableOK(mail)' /\ TableOK(saved.mail)'
      BY <2>1 DEF TypeOK, TableOK
    <2> QED
      BY <2>1, <2>3, <2>4, <2>5 DEF TypeOK
  <1>5. CASE Users
    BY <1>5, TypeUsers
  <1>6. CASE UNCHANGED vars
    BY <1>6 DEF vars, TypeOK, TableOK, RunOK
  <1> QED
    BY <1>1, <1>2, <1>3, <1>4, <1>5, <1>6 DEF Next

-----------------------------------------------------------------------------
(* What waits is woken *)

\* Every date a mail waits for is a trigger's or has come, in the database the runner
\* sees and in the one a crash goes back to.
Woken ==
    \A m \in Mails : /\ mail[m].sched \in triggers \cup (0..now)
                     /\ saved.mail[m].sched \in saved.triggers \cup (0..now)

\* A step may give new dates with their triggers and drop triggers that are due.
LEMMA WokenStep ==
    ASSUME TypeOK, Woken, now' = now, triggers \ (0..now) \subseteq triggers',
           \A m \in Mails : mail'[m].sched \in {mail[m].sched, 0} \cup triggers',
           \/ saved' = Database'
           \/ CommitDuringJob
           \/ /\ saved.triggers \subseteq saved'.triggers
              /\ \A m \in Mails : saved'.mail[m].sched \in {saved.mail[m].sched, 0}
    PROVE  Woken'
  <1>1. 0 \in 0..now
    BY DEF TypeOK
  <1>2. \A m \in Mails : mail'[m].sched \in triggers' \cup (0..now)
    BY <1>1 DEF Woken
  <1>3. \A m \in Mails : saved'.mail[m].sched \in saved'.triggers \cup (0..now)
    <2>1. CASE saved' = Database'
      BY <1>2, <2>1 DEF Database
    <2>2. CASE CommitDuringJob
      <3>1. saved'.mail = mail' /\ triggers' \subseteq saved'.triggers
        BY <2>2, CommitTo
      <3> QED
        BY <1>2, <3>1
    <2>3. CASE /\ saved.triggers \subseteq saved'.triggers
               /\ \A m \in Mails : saved'.mail[m].sched \in {saved.mail[m].sched, 0}
      BY <1>1, <2>3 DEF Woken
    <2> QED
      BY <2>1, <2>2, <2>3
  <1> QED
    BY <1>2, <1>3 DEF Woken

LEMMA WokenRunner ==
    ASSUME TypeOK, Woken, Runner
    PROVE  Woken'
  <1> USE DEF bounds, history, queue, tables, ids
  <1>1. /\ DOMAIN mail = Mails /\ \A m \in Mails : DOMAIN mail[m] = Fields
        /\ run.phase = "smtp" => run.cur \in Mails
    BY DEF TypeOK, TableOK, RowOK, RunOK
  <1>2. ASSUME mail' = mail, triggers' = triggers, now' = now,
               Commit \/ CommitDuringJob \/ saved' = saved
        PROVE  Woken'
    BY <1>2, WokenStep DEF Commit
  <1>3. CASE ConnectOk \/ Accept \/ Invalid
    <2>1. mail' = mail /\ triggers' = triggers /\ now' = now /\ saved' = saved
      BY <1>3 DEF ConnectOk, Accept, Invalid
    <2> QED
      BY <1>2, <2>1
  <1>4. CASE EndBatch \/ Drop \/ FailAfterInvalid
    <2>1. mail' = mail /\ triggers' = triggers /\ now' = now /\ (Commit \/ CommitDuringJob)
      BY <1>4 DEF EndBatch, Drop, FailAfterInvalid
    <2> QED
      BY <1>2, <2>1
  <1>5. CASE ConnectFails
    <2>1. \A m \in Mails : mail'[m].sched = mail[m].sched
      BY <1>1, <1>5 DEF ConnectFails, Fields
    <2>2. now' = now /\ triggers' = triggers /\ saved' = Database'
      BY <1>5 DEF ConnectFails, Commit
    <2> QED
      BY <2>1, <2>2, WokenStep
  <1>6. CASE StartMail
    <2>1. /\ now' = now /\ triggers' = triggers /\ saved' = saved
          /\ \/ mail' = mail
             \/ mail' = [mail EXCEPT ![Head(run.pending)].state = "exception"]
      BY <1>6 DEF StartMail
    <2>2. \A m \in Mails : mail'[m].sched = mail[m].sched
      BY <1>1, <2>1 DEF Fields
    <2> QED
      BY <2>1, <2>2, WokenStep
  <1>7. CASE RefuseTemporarily \/ FailForGood
    <2>1. /\ triggers \subseteq triggers' /\ CommitDuringJob /\ now' = now
          /\ \A m \in Mails : mail'[m].sched \in {mail[m].sched, 0} \cup triggers'
      <3>1. now' = now
        BY <1>7 DEF RefuseTemporarily, FailForGood
      <3> QED
        BY <1>7, <3>1, CutTo
    <2> QED
      BY <2>1, WokenStep
  <1>8. CASE FinishMail
    <2>1. now' = now /\ triggers' = triggers /\ CommitDuringJob
      BY <1>8 DEF FinishMail
    <2>2. \A m \in Mails : Sent[m].sched = mail[m].sched
      BY <1>1 DEF Sent, Fields
    <2>3. \A m \in Mails : mail'[m].sched \in {mail[m].sched, 0}
      <3>1. CASE mail' = mail \/ mail' = Sent
        BY <2>2, <3>1
      <3>2. CASE Left(Sent, {run.cur}, mail')
        <4>1. /\ \A m \in {run.cur} : mail'[m] = NoMail
              /\ \A m \in Mails \ {run.cur} : mail'[m].sched = Sent[m].sched
          BY <3>2, Zenon DEF Left
        <4>2. NoMail.sched = 0
          BY DEF NoMail
        <4> QED
          BY <2>2, <4>1, <4>2
      <3> QED
        BY <1>8, <3>1, <3>2, FinishTo
    <2> QED
      BY <2>1, <2>3, WokenStep
  <1>9. CASE StopBatch
    <2>1. /\ triggers \subseteq triggers' /\ saved' = Database' /\ now' = now
          /\ \A m \in Mails : mail'[m].sched \in {mail[m].sched, 0} \cup triggers'
      <3>1. now' = now
        BY <1>9 DEF StopBatch
      <3> QED
        BY <1>9, <3>1, StopTo DEF Commit
    <2> QED
      BY <2>1, WokenStep
  <1> QED
    BY <1>3, <1>4, <1>5, <1>6, <1>7, <1>8, <1>9 DEF Runner

LEMMA WokenUsers ==
    ASSUME TypeOK, Woken, Users
    PROVE  Woken'
  <1> USE DEF history
  <1>1. DOMAIN mail = Mails /\ \A m \in Mails : DOMAIN mail[m] = Fields
    BY DEF TypeOK, TableOK, RowOK
  <1>2. ASSUME now' = now, triggers \subseteq triggers', NEW S, CommitUser(S),
               \A m \in Mails : mail'[m].sched \in {mail[m].sched, 0},
               \A m \in S \cap Mails : mail[m] = saved.mail[m] \/ mail'[m].sched = 0
        PROVE  Woken'
    <2>1. /\ saved.triggers \subseteq saved'.triggers
          /\ \A m \in Mails : saved'.mail[m] = IF m \in S THEN mail'[m] ELSE saved.mail[m]
      BY <1>2, CommitUserTo
    <2>2. \A m \in Mails : saved'.mail[m].sched \in {saved.mail[m].sched, 0}
      BY <1>2, <2>1
    <2> QED
      BY <1>2, <2>1, <2>2, WokenStep
  <1>3. ASSUME NEW l \in Letters, Post(l) PROVE Woken'
    <2>1. now' = now /\ triggers' = triggers
      BY <1>3 DEF Post
    <2>2. /\ \A m \in Mails : mail'[m].sched \in {mail[m].sched, 0}
          /\ \A m \in {made'} : mail'[m].sched = 0
          /\ CommitUser({made'})
      BY <1>3, PostTo
    <2> QED
      BY <1>2, <2>1, <2>2
  <1>4. CASE SendNow
    <2>1. now' = now /\ triggers \subseteq triggers' /\ mail' = mail /\ CommitUser({})
      BY <1>4 DEF SendNow
    <2> QED
      BY <1>2, <2>1
  <1>5. ASSUME NEW m \in Mails, Retry(m) \/ Cancel(m) PROVE Woken'
    <2>1. /\ now' = now /\ triggers' = triggers /\ CommitUser({m}) /\ mail[m] = saved.mail[m]
          /\ \/ mail' = [mail EXCEPT ![m].state = "outgoing", ![m].retries = 0]
             \/ mail' = [mail EXCEPT ![m].state = "cancel"]
      BY <1>5 DEF Retry, Cancel, Locked
    <2>2. \A x \in Mails : mail'[x].sched = mail[x].sched
      <3>1. CASE mail' = [mail EXCEPT ![m].state = "outgoing", ![m].retries = 0]
        BY <1>1, <3>1 DEF Fields
      <3>2. CASE mail' = [mail EXCEPT ![m].state = "cancel"]
        BY <1>1, <3>2 DEF Fields
      <3> QED
        BY <2>1, <3>1, <3>2
    <2> QED
      BY <1>2, <2>1, <2>2
  <1>6. ASSUME NEW S \in SUBSET Mails, Delete(S) PROVE Woken'
    <2>1. now' = now /\ triggers' = triggers
      BY <1>6 DEF Delete
    <2>2. /\ Left(mail, S, mail') /\ CommitUser(Siblings(S))
          /\ \A m \in Siblings(S) : mail[m] = saved.mail[m]
      BY <1>6, DeleteTo
    <2>3. \A m \in Mails : mail'[m].sched \in {mail[m].sched, 0}
      <3>1. /\ \A m \in S : mail'[m] = NoMail
            /\ \A m \in Mails \ S : mail'[m].sched = mail[m].sched
        BY <2>2, Zenon DEF Left
      <3>2. NoMail.sched = 0
        BY DEF NoMail
      <3> QED
        BY <3>1, <3>2
    <2> QED
      BY <1>2, <2>1, <2>2, <2>3
  <1> QED
    BY <1>3, <1>4, <1>5, <1>6 DEF Users

LEMMA WokenNext == TypeOK /\ Woken /\ [Next]_vars => Woken'
  <1> SUFFICES ASSUME TypeOK, Woken, [Next]_vars PROVE Woken'
    OBVIOUS
  <1> USE DEF bounds, history, queue, tables, ids
  <1>1. CASE Tick
    <2>1. now' = now + 1 /\ now \in Nat /\ UNCHANGED <<mail, triggers, saved>>
      BY <1>1 DEF Tick, TypeOK
    <2>2. 0..now \subseteq 0..now'
      BY <2>1
    <2> QED
      BY <2>1, <2>2 DEF Woken
  <1>2. CASE TriggeredRun \/ RegularRun
    <2>1. Take /\ now' = now
      BY <1>2 DEF TriggeredRun, RegularRun
    <2>2. PICK batch : \/ Handed(mail, 0, batch)
                       \/ \E f, first : SplitOff(f, first) /\ Handed(Parted(f, first), 1, batch)
      BY <2>1, TakeTo
    <2>3. ASSUME NEW table, NEW n, Handed(table, n, batch),
                 \A m \in Mails : table[m].sched \in triggers \cup (0..now)
          PROVE  Woken'
      <3>1. /\ triggers \ (0..now) \subseteq triggers'
            /\ saved' = Database' \/ saved' = saved
            /\ \A m \in Mails : mail'[m].sched = table[m].sched \/ mail'[m].sched \in triggers'
        BY <2>3 DEF Handed
      <3>2. \A m \in Mails : mail'[m].sched \in triggers' \cup (0..now)
        BY <2>3, <3>1
      <3>3. \A m \in Mails : saved'.mail[m].sched \in saved'.triggers \cup (0..now)
        <4>1. CASE saved' = Database'
          BY <3>2, <4>1 DEF Database
        <4>2. CASE saved' = saved
          BY <4>2 DEF Woken
        <4> QED
          BY <3>1, <4>1, <4>2
      <3> QED
        BY <2>1, <3>2, <3>3 DEF Woken
    <2>4. CASE Handed(mail, 0, batch)
      BY <2>3, <2>4 DEF Woken
    <2>5. ASSUME NEW f, NEW first, SplitOff(f, first), Handed(Parted(f, first), 1, batch) PROVE Woken'
      <3>1. /\ DOMAIN mail = Mails /\ \A m \in Mails : DOMAIN mail[m] = Fields
            /\ f \in Mails /\ f # made + 1
        BY <2>5 DEF TypeOK, TableOK, RowOK, SplitOff, Due
      <3>2. \A m \in Mails : Parted(f, first)[m].sched \in {mail[m].sched, mail[f].sched}
        BY <3>1 DEF Parted, Fields
      <3> QED
        BY <2>3, <2>5, <3>1, <3>2 DEF Woken
    <2> QED
      BY <2>2, <2>4, <2>5
  <1>3. CASE Runner
    BY <1>3, WokenRunner
  <1>4. CASE Crash
    BY <1>4 DEF Crash, Woken
  <1>5. CASE Users
    BY <1>5, WokenUsers
  <1>6. CASE UNCHANGED vars
    BY <1>6 DEF vars, Woken
  <1> QED
    BY <1>1, <1>2, <1>3, <1>4, <1>5, <1>6 DEF Next

\* What the code says of it is about the mails in the queue.
LEMMA WokenInv == Spec => [](TypeOK /\ Woken)
  <1>1. Init => TypeOK /\ Woken
    <2> SUFFICES ASSUME Init PROVE Woken
      BY TypeInit
    <2>1. NoMail.sched = 0 /\ 0 \in 0..now
      BY DEF NoMail, Init
    <2> QED
      BY <2>1 DEF Init, Woken, Database
  <1>2. TypeOK /\ Woken /\ [Next]_vars => (TypeOK /\ Woken)'
    BY TypeNext, WokenNext
  <1> QED
    BY <1>1, <1>2, PTL DEF Spec

\* Every mail that waits in the queue for a date has a trigger of the cron at that date,
\* whatever is deferred, retried, rolled back or committed by others (_rate_limit_defer,
\* ir_mail_server.py:100-102).
THEOREM EveryDeferralHasAWakeAlways == Spec => []EveryDeferralHasAWake
  <1>1. TypeOK /\ Woken => EveryDeferralHasAWake
    BY DEF TypeOK, Woken, EveryDeferralHasAWake
  <1> QED
    BY <1>1, WokenInv, PTL

-----------------------------------------------------------------------------
(* The mail that is being sent *)

Current == mail[run.cur].msg

\* What a session is about: a mail of a posted letter, and who it is still sent to.
LEMMA SessionOf ==
    ASSUME TypeOK, Session, run.phase = "smtp"
    PROVE  /\ run.cur \in Mails /\ Has(mail, run.cur) /\ mail[run.cur].state = "exception"
           /\ Current \in 1..Len(letters) /\ Current \in Posts
           /\ On(mail, run.cur) \subseteq Recipients
           /\ \A item \in Items : /\ item \subseteq run.cc \cup run.to /\ item # {}
                                  /\ item \subseteq On(mail, run.cur) /\ item \subseteq Recipients
                                  /\ item \cap run.reached = {}
                                  /\ run.cc \ item = {}
           /\ Items = {} => run.cc = {} /\ run.to = {}
  <1>1. run.cur \in Mails /\ mail[run.cur].state = "exception" /\ RowOK(mail[run.cur], run.cur, made, Len(letters))
    BY DEF TypeOK, RunOK, TableOK
  <1>2. Current \in 1..Len(letters) /\ On(mail, run.cur) \subseteq Recipients
    BY <1>1 DEF RowOK, Current, On, Recipients
  <1>3. Current \in Posts
    BY <1>2, Numbers DEF TypeOK, Posts
  <1>4. run.cc \subseteq On(mail, run.cur) /\ run.to \subseteq On(mail, run.cur) /\ run.reached \cap (run.cc \cup run.to) = {}
    BY DEF Session, On
  <1>5. \A item \in Items : item \subseteq run.cc \cup run.to /\ item # {} /\ run.cc \ item = {}
    BY DEF Items
  <1>6. Items = {} => run.cc = {} /\ run.to = {}
    BY DEF Items
  <1> QED
    BY <1>1, <1>2, <1>3, <1>4, <1>5, <1>6 DEF Has

\* The copies the provider has taken after a message.
LEMMA DeliverTo ==
    ASSUME TypeOK, Session, run.phase = "smtp", NEW item \in Items, Deliver(item)
    PROVE  \A p \in Posts : \A r \in Recipients :
              got'[p][r] = IF p = Current /\ r \in item THEN got[p][r] + 1 ELSE got[p][r]
  <1> DEFINE copies == [r \in Recipients |-> IF r \in item THEN got[Current][r] + 1 ELSE got[Current][r]]
  <1>1. Current \in Posts /\ got \in [Posts -> [Recipients -> Nat]]
    BY SessionOf DEF TypeOK
  <1>2. got' = [got EXCEPT ![Current] = copies]
    BY DEF Deliver, Current
  <1>3. \A r \in Recipients : copies[r] = IF r \in item THEN got[Current][r] + 1 ELSE got[Current][r]
    OBVIOUS
  <1> HIDE DEF copies
  <1> QED
    BY <1>1, <1>2, <1>3

\* Copies and given up recipients only become more.
LEMMA GrowsSame ==
    ASSUME letters' = letters, got' = got, givenUp \subseteq givenUp'
    PROVE  Grows
  BY DEF Grows

LEMMA GrowsDeliver ==
    ASSUME TypeOK, Session, run.phase = "smtp", NEW item \in Items, Deliver(item),
           letters' = letters, givenUp' = givenUp
    PROVE  Grows
  <1>1. \A p \in Posts : \A r \in Recipients : got[p][r] \in Nat
    BY DEF TypeOK
  <1>2. \A p \in 1..Len(letters) : p \in Posts
    BY Numbers DEF TypeOK, Posts
  <1>3. \A p \in Posts : \A r \in Recipients : got[p][r] > 0 => got'[p][r] > 0
    BY <1>1, DeliverTo
  <1> QED
    BY <1>2, <1>3 DEF Grows

\* A step that leaves the runner and its mail alone.
LEMMA SessionStays ==
    ASSUME TypeOK, Session, run' = run,
           run.phase = "smtp" => mail'[run.cur] = mail[run.cur],
           got' = got, givenUp \subseteq givenUp'
    PROVE  Session'
  BY DEF Session, On

\* A step after which no mail is being sent.
LEMMA SessionOver ==
    ASSUME run'.phase # "smtp", run'.reached = {}
    PROVE  Session'
  BY DEF Session

LEMMA SessionAccept ==
    ASSUME TypeOK, Session, Accept
    PROVE  Session'
  <1>1. PICK item \in Items : run' = [After(item) EXCEPT !.reached = @ \cup item] /\ Deliver(item)
    BY DEF Accept
  <1>2. run.phase = "smtp" /\ mail' = mail /\ givenUp' = givenUp
    BY DEF Accept, Sending, queue, tables
  <1>3. /\ run'.phase = run.phase /\ run'.cur = run.cur
        /\ run'.cc = run.cc \ item /\ run'.to = run.to \ item /\ run'.reached = run.reached \cup item
    <2>1. DOMAIN run = RunFields
      BY DEF TypeOK, RunOK
    <2> QED
      BY <1>1, <2>1 DEF After, RunFields
  <1>4. /\ item \subseteq On(mail, run.cur) /\ item \subseteq Recipients
        /\ run.cc \ item = {} /\ On(mail, run.cur) \subseteq Recipients /\ Current \in Posts
    BY <1>2, SessionOf
  <1>5. \A r \in run.reached \cup item : got'[Current][r] > 0
    <2>1. \A r \in Recipients : got[Current][r] \in Nat
      BY <1>4 DEF TypeOK
    <2>2. \A r \in run.reached : got[Current][r] > 0 /\ r \in Recipients
      BY <1>2, <1>4 DEF Session, Current
    <2>3. \A r \in Recipients : got'[Current][r] = IF r \in item THEN got[Current][r] + 1 ELSE got[Current][r]
      BY <1>1, <1>2, <1>4, DeliverTo
    <2> QED
      BY <1>4, <2>1, <2>2, <2>3
  <1>6. /\ run.cc \subseteq mail[run.cur].cc /\ run.to \subseteq mail[run.cur].to
        /\ run.reached \subseteq On(mail, run.cur)
        /\ run.reached \cap (run.cc \cup run.to) = {}
        /\ \A r \in On(mail, run.cur) :
            r \in run.cc \cup run.to \cup run.reached \/ <<Current, r>> \in givenUp
    BY <1>2 DEF Session, Current
  <1>7. On(mail, run.cur)' = On(mail, run.cur)
    BY <1>2, <1>3 DEF On
  <1>8. /\ run'.cc \subseteq mail[run.cur].cc /\ run'.to \subseteq mail[run.cur].to
        /\ run'.reached \subseteq On(mail, run.cur)
        /\ run'.reached \cap (run'.cc \cup run'.to) = {}
        /\ run'.reached # {} => run'.cc = {}
        /\ \A r \in On(mail, run.cur) :
            r \in run'.cc \cup run'.to \cup run'.reached \/ <<Current, r>> \in givenUp
    BY <1>3, <1>4, <1>6
  <1> QED
    BY <1>2, <1>3, <1>5, <1>7, <1>8 DEF Session, Current

LEMMA SessionInvalid ==
    ASSUME TypeOK, Session, Invalid
    PROVE  Session'
  <1>1. PICK item \in Items : /\ run' = [After(item) EXCEPT !.invalid = TRUE]
                              /\ givenUp' = givenUp \cup {Current} \X item
    BY DEF Invalid, Current
  <1>2. run.phase = "smtp" /\ mail' = mail /\ got' = got
    BY DEF Invalid, Sending, queue, tables
  <1>3. /\ run'.phase = run.phase /\ run'.cur = run.cur
        /\ run'.cc = run.cc \ item /\ run'.to = run.to \ item /\ run'.reached = run.reached
    <2>1. DOMAIN run = RunFields
      BY DEF TypeOK, RunOK
    <2> QED
      BY <1>1, <2>1 DEF After, RunFields
  <1>4. /\ run.cc \subseteq mail[run.cur].cc /\ run.to \subseteq mail[run.cur].to
        /\ run.reached \subseteq On(mail, run.cur)
        /\ run.reached \cap (run.cc \cup run.to) = {}
        /\ run.reached # {} => run.cc = {}
        /\ \A r \in On(mail, run.cur) :
            r \in run.cc \cup run.to \cup run.reached \/ <<Current, r>> \in givenUp
        /\ \A r \in run.reached : got[Current][r] > 0
    BY <1>2 DEF Session, Current
  <1>5. \A r \in item : <<Current, r>> \in givenUp'
    BY <1>1
  <1>6. \A r \in On(mail, run.cur) :
            r \in run'.cc \cup run'.to \cup run'.reached \/ <<Current, r>> \in givenUp'
    BY <1>1, <1>3, <1>4, <1>5
  <1>7. /\ run'.cc \subseteq mail[run.cur].cc /\ run'.to \subseteq mail[run.cur].to
        /\ run'.reached \cap (run'.cc \cup run'.to) = {}
        /\ run'.reached # {} => run'.cc = {}
    BY <1>3, <1>4
  <1> QED
    BY <1>2, <1>3, <1>4, <1>6, <1>7 DEF Session, Current, On

LEMMA SessionNext == TypeOK /\ Session /\ [Next]_vars => Session'
  <1> SUFFICES ASSUME TypeOK, Session, [Next]_vars PROVE Session'
    OBVIOUS
  <1> USE DEF bounds, history, queue, tables, ids
  <1>0. DOMAIN run = RunFields /\ (run.phase = "smtp" => run.cur \in Mails /\ mail[run.cur].state = "exception")
    BY DEF TypeOK, RunOK
  <1>1. CASE Tick
    BY <1>1, SessionStays DEF Tick
  <1>2. CASE TriggeredRun \/ RegularRun
    <2>1. PICK batch : \/ Handed(mail, 0, batch)
                       \/ \E f, first : SplitOff(f, first) /\ Handed(Parted(f, first), 1, batch)
      BY <1>2, TakeTo DEF TriggeredRun, RegularRun
    <2> QED
      BY <2>1, SessionOver DEF Handed
  <1>3. CASE Runner
    <2>1. Idle.phase # "smtp" /\ Idle.reached = {} /\ NextMail.phase # "smtp" /\ NextMail.reached = {}
      BY <1>0 DEF Idle, NextMail, RunFields
    <2>2. CASE \/ ConnectFails \/ FailAfterInvalid \/ Drop \/ FinishMail \/ EndBatch \/ StopBatch
      <3>1. run' = Idle \/ run' = NextMail
        BY <2>2 DEF ConnectFails, FailAfterInvalid, Drop, FinishMail, EndBatch, StopBatch
      <3> QED
        BY <2>1, <3>1, SessionOver
    <2>3. CASE ConnectOk
      <3>1. run'.phase = "batch" /\ run'.reached = run.reached /\ run.phase # "smtp"
        BY <1>0, <2>3 DEF ConnectOk, RunFields
      <3> QED
        BY <3>1, SessionOver DEF Session
    <2>4. CASE StartMail
      <3> DEFINE m == Head(run.pending)
      <3>1. CASE mail[m].state = "outgoing"
        <4>1. /\ mail' = [mail EXCEPT ![m].state = "exception"]
              /\ run' = [run EXCEPT !.phase = "smtp", !.pending = Tail(@), !.cur = m,
                                    !.cc = mail[m].cc, !.to = mail[m].to,
                                    !.reached = {}, !.invalid = FALSE]
          BY <2>4, <3>1 DEF StartMail
        <4>2. m \in Mails
          BY <2>4 DEF StartMail, TypeOK, RunOK
        <4>3. DOMAIN mail = Mails /\ DOMAIN mail[m] = Fields
          BY <4>2 DEF TypeOK, TableOK, RowOK
        <4> HIDE DEF m
        <4>4. mail'[m].to = mail[m].to /\ mail'[m].cc = mail[m].cc /\ mail'[m].msg = mail[m].msg
          BY <4>1, <4>2, <4>3 DEF Fields
        <4>5. run'.cur = m /\ run'.cc = mail[m].cc /\ run'.to = mail[m].to /\ run'.reached = {}
          BY <1>0, <4>1 DEF RunFields
        <4> QED
          BY <4>4, <4>5 DEF Session, On
      <3>2. CASE mail[m].state # "outgoing"
        <4>1. run'.phase = run.phase /\ run'.reached = run.reached /\ run.phase = "batch"
          BY <1>0, <2>4, <3>2 DEF StartMail, RunFields
        <4> QED
          BY <4>1, SessionOver DEF Session
      <3> QED
        BY <3>1, <3>2
    <2>5. CASE Accept
      BY <2>5, SessionAccept
    <2>6. CASE Invalid
      BY <2>6, SessionInvalid
    <2>7. CASE RefuseTemporarily \/ FailForGood
      BY <2>7, CutTo, SessionOver
    <2> QED
      BY <1>3, <2>2, <2>3, <2>4, <2>5, <2>6, <2>7 DEF Runner
  <1>4. CASE Crash
    <2>1. run' = Idle /\ Idle.phase # "smtp" /\ Idle.reached = {}
      BY <1>4 DEF Crash, Idle
    <2> QED
      BY <2>1, SessionOver
  <1>5. CASE Users
    <2>1. ASSUME NEW l \in Letters, Post(l) PROVE Session'
      <3>1. run.phase = "smtp" => run.cur # made'
        BY <1>0, <2>1, PostTo DEF Has
      <3>2. run' = run /\ got' = got /\ givenUp' = givenUp
        BY <2>1 DEF Post
      <3> QED
        BY <1>0, <2>1, <3>1, <3>2, PostTo, SessionStays
    <2>2. CASE SendNow
      BY <2>2, SessionStays DEF SendNow
    <2>3. ASSUME NEW m \in Mails, Retry(m) \/ Cancel(m) PROVE Session'
      <3>1. /\ run' = run /\ got' = got /\ givenUp' = givenUp /\ m # run.cur
            /\ \/ mail' = [mail EXCEPT ![m].state = "outgoing", ![m].retries = 0]
               \/ mail' = [mail EXCEPT ![m].state = "cancel"]
        BY <2>3 DEF Retry, Cancel, Locked
      <3>2. run.phase = "smtp" => mail'[run.cur] = mail[run.cur]
        BY <1>0, <3>1 DEF TypeOK, TableOK
      <3> QED
        BY <3>1, <3>2, SessionStays
    <2>4. ASSUME NEW S \in SUBSET Mails, Delete(S) PROVE Session'
      <3>1. run' = run /\ got' = got /\ givenUp \subseteq givenUp'
        BY <2>4 DEF Delete
      <3>2. run.phase = "smtp" => mail'[run.cur] = mail[run.cur]
        BY <1>0, <2>4, DeleteTo
      <3> QED
        BY <3>1, <3>2, SessionStays
    <2> QED
      BY <1>5, <2>1, <2>2, <2>3, <2>4 DEF Users
  <1>6. CASE UNCHANGED vars
    BY <1>6, SessionStays DEF vars
  <1> QED
    BY <1>1, <1>2, <1>3, <1>4, <1>5, <1>6 DEF Next

-----------------------------------------------------------------------------
(* No recipient is lost, and a message has one owner *)

\* After a commit of the runner the two databases are one.
LEMMA KeptCommitted ==
    ASSUME Committed, Acc(mail)', Uniq(mail'), Owned'
    PROVE  Kept4'
  BY DEF Committed, Kept4, Accounted, Unique, Acc, Uniq, Synced

\* Only owners, and whether a message has mails, count.
Owns(t, p, m) == Has(t, m) /\ t[m].msg = p /\ ~t[m].notif
InUse(t, p) == \E m \in Mails : Has(t, m) /\ t[m].msg = p

LEMMA OwnIs ==
    ASSUME NEW t, NEW msgs
    PROVE  Own(t, msgs) <=>
              \A p \in 1..Len(letters) :
                /\ letters[p].notif => p \in msgs /\ \A m \in Mails : ~Owns(t, p, m)
                /\ ~letters[p].notif =>
                    /\ \A m, x \in Mails : Owns(t, p, m) /\ Owns(t, p, x) => m = x
                    /\ InUse(t, p) => p \in msgs /\ \E m \in Mails : Owns(t, p, m)
                    /\ p \in msgs => InUse(t, p)
  BY DEF Own, Owns, InUse

LEMMA OwnAlike ==
    ASSUME NEW t, NEW u, NEW msgs, Own(t, msgs),
           \A p : \A m \in Mails : Owns(u, p, m) <=> Owns(t, p, m),
           \A p : InUse(u, p) <=> InUse(t, p)
    PROVE  Own(u, msgs)
  BY OwnIs

\* What the worker last committed has its owners too.
LEMMA OwnSaved ==
    ASSUME Synced, Owned
    PROVE  Own(saved.mail, saved.messages)
  <1>1. /\ messages = saved.messages
        /\ \A m \in Mails : Has(saved.mail, m) =>
             Has(mail, m) /\ mail[m].msg = saved.mail[m].msg /\ (mail[m].notif <=> saved.mail[m].notif)
        /\ \A m \in Mails : Has(mail, m) /\ ~Has(saved.mail, m) =>
             mail[m].notif /\ \E x \in Mails : Has(saved.mail, x) /\ saved.mail[x].msg = mail[m].msg
    BY DEF Synced
  <1>2. \A p : \A m \in Mails : Owns(saved.mail, p, m) <=> Owns(mail, p, m)
    BY <1>1 DEF Owns
  <1>3. \A p : InUse(saved.mail, p) <=> InUse(mail, p)
    BY <1>1 DEF InUse
  <1> QED
    BY <1>1, <1>2, <1>3, OwnAlike DEF Owned

\* The same table under new copies and given up recipients.
LEMMA AccGrows ==
    ASSUME TypeOK, Grows, NEW t, NEW u, Acc(t),
           \A p \in 1..Len(letters) : \A r \in Recipients : \A m \in Mails :
              Has(t, m) /\ t[m].msg = p /\ r \in On(t, m) =>
                \/ got'[p][r] > 0
                \/ <<p, r>> \in givenUp'
                \/ \E x \in Mails : Has(u, x) /\ u[x].msg = p /\ r \in On(u, x)
    PROVE  AccNext(u)
  <1> SUFFICES ASSUME NEW p \in 1..Len(letters), NEW r \in letters[p].to \cup letters[p].cc
               PROVE  \/ got'[p][r] > 0
                      \/ <<p, r>> \in givenUp'
                      \/ \E m \in Mails : Has(u, m) /\ u[m].msg = p /\ r \in On(u, m)
    BY DEF Grows, AccNext
  <1>1. r \in Recipients
    BY LetterRecipients DEF Recipients
  <1>2. CASE got[p][r] > 0 \/ <<p, r>> \in givenUp
    BY <1>1, <1>2 DEF Grows
  <1>3. CASE \E m \in Mails : Has(t, m) /\ t[m].msg = p /\ r \in On(t, m)
    BY <1>1, <1>3
  <1> QED
    BY <1>2, <1>3 DEF Acc

LEMMA KeptTake ==
    ASSUME TypeOK, Kept4, Take, UNCHANGED <<bounds, history>>
    PROVE  Kept4'
  <1>0. letters' = letters /\ got' = got /\ givenUp' = givenUp /\ Grows
    <2>1. letters' = letters /\ got' = got /\ givenUp' = givenUp
      BY DEF bounds, history
    <2> QED
      BY <2>1, GrowsSame
  <1>1. PICK batch : \/ Handed(mail, 0, batch)
                     \/ \E f, first : SplitOff(f, first) /\ Handed(Parted(f, first), 1, batch)
    BY TakeTo
  <1>2. CASE Handed(mail, 0, batch)
    <2>1. /\ Similar(mail', mail) /\ messages' = messages
          /\ saved' = Database' \/ saved' = saved
      BY <1>2 DEF Handed, Redated, Similar, Has
    <2>2. Committed \/ (saved'.messages = saved.messages /\ Similar(saved'.mail, saved.mail))
      <3>1. CASE saved' = Database'
        BY <3>1 DEF Database, Committed
      <3>2. CASE saved' = saved
        BY <3>2 DEF Similar
      <3> QED
        BY <2>1, <3>1, <3>2
    <2> QED
      BY <1>0, <2>1, <2>2, QuietKept
  <1>3. ASSUME NEW f, NEW first, SplitOff(f, first), Handed(Parted(f, first), 1, batch) PROVE Kept4'
    <2> DEFINE n == made + 1
               t == Parted(f, first)
    <2>1. /\ f \in Mails /\ n \in Mails /\ f # n /\ first \subseteq mail[f].to
          /\ mail[f].state = "outgoing" /\ ~Has(mail, n) /\ ~Has(saved.mail, n)
          /\ DOMAIN mail = Mails /\ \A m \in Mails : DOMAIN mail[m] = Fields
      <3>1. made \in Nat /\ MaxMails \in Nat /\ made < MaxMails
        BY <1>3, Numbers DEF SplitOff, TypeOK
      <3>2. n \in Mails
        BY <3>1 DEF Mails
      <3>3. \A m \in Mails : (Has(mail, m) => m <= made) /\ (Has(saved.mail, m) => m <= made)
        BY DEF TypeOK, TableOK, RowOK, Has
      <3>4. ~(n <= made)
        BY <3>1
      <3> QED
        BY <1>3, <3>2, <3>3, <3>4 DEF SplitOff, Due, TypeOK, TableOK, RowOK
    <2>2. /\ t[n].state = "outgoing" /\ t[n].msg = mail[f].msg /\ t[n].notif
          /\ t[n].to = first /\ t[n].cc = mail[f].cc
      BY <2>1 DEF Parted, Fields
    <2>3. /\ t[f].state = "outgoing" /\ t[f].msg = mail[f].msg /\ t[f].notif = mail[f].notif
          /\ t[f].to = mail[f].to \ first /\ t[f].cc = {}
      BY <2>1 DEF Parted, Fields
    <2>4. \A m \in Mails \ {f, n} : t[m] = mail[m]
      BY <2>1 DEF Parted
    <2>5. first \subseteq Partners /\ mail[f].to \subseteq Partners /\ mail[f].cc \subseteq Addresses
      BY <2>1 DEF TypeOK, TableOK, RowOK
    <2>6. Similar(mail', t) /\ messages' = messages
      BY <1>3 DEF Handed, Redated, Similar, Has
    <2> HIDE DEF n, t
    <2>7. On(t, n) \cap On(t, f) = {} /\ On(t, n) \subseteq On(mail, f) /\ On(t, f) \subseteq On(mail, f)
      BY <2>1, <2>2, <2>3, <2>5, Numbers DEF On
    <2>8. On(t, n) \cup On(t, f) = On(mail, f)
      BY <2>1, <2>2, <2>3 DEF On
    <2>9. /\ \A m \in Mails : Has(t, m) <=> Has(mail, m) \/ m = n
          /\ \A m \in Mails \ {n} : t[m].msg = mail[m].msg /\ (t[m].notif <=> mail[m].notif)
          /\ \A m \in Mails \ {f, n} : On(t, m) = On(mail, m)
      BY <2>1, <2>2, <2>3, <2>4 DEF Has, On
    <2>10. Uniq(t)
      <3>1. Uniq(mail) /\ Has(mail, f)
        BY <2>1 DEF Kept4, Unique, Has
      <3> SUFFICES ASSUME NEW m \in Mails, NEW x \in Mails, Has(t, m), Has(t, x), t[m].msg = t[x].msg, m # x
                   PROVE  On(t, m) \cap On(t, x) = {}
        BY DEF Uniq
      <3> DEFINE old(y) == IF y = n THEN f ELSE y
      <3>2. \A y \in Mails : Has(t, y) => /\ old(y) \in Mails /\ Has(mail, old(y)) /\ t[y].msg = mail[old(y)].msg
                                          /\ On(t, y) \subseteq On(mail, old(y))
        BY <2>1, <2>2, <2>7, <2>9, <3>1
      <3>3. CASE old(m) = old(x)
        BY <2>7, <3>3
      <3>4. CASE old(m) # old(x)
        <4> HIDE DEF old
        <4>1. On(mail, old(m)) \cap On(mail, old(x)) = {}
          BY <3>1, <3>2, <3>4 DEF Uniq
        <4> QED
          BY <3>2, <4>1
      <3> QED
        BY <3>3, <3>4
    <2>11. Own(t, messages)
      <3>1. Own(mail, messages) /\ Has(mail, f)
        BY <2>1 DEF Kept4, Owned, Has
      <3>2. \A p : \A m \in Mails : Owns(t, p, m) <=> Owns(mail, p, m)
        BY <2>1, <2>2, <2>9, <3>1 DEF Owns
      <3>3. \A p : InUse(t, p) <=> InUse(mail, p)
        BY <2>1, <2>2, <2>9, <3>1 DEF InUse
      <3> QED
        BY <3>1, <3>2, <3>3, OwnAlike
    <2>12. Acc(mail)' /\ Uniq(mail') /\ Owned'
      <3>1. Acc(mail)'
        <4>1. \A p \in 1..Len(letters) : \A r \in Recipients : \A m \in Mails :
                Has(mail, m) /\ mail[m].msg = p /\ r \in On(mail, m) =>
                  \E x \in Mails : Has(t, x) /\ t[x].msg = p /\ r \in On(t, x)
          BY <2>1, <2>2, <2>3, <2>8, <2>9
        <4>2. \A p \in 1..Len(letters) : \A r \in Recipients : \A m \in Mails :
                Has(mail, m) /\ mail[m].msg = p /\ r \in On(mail, m) =>
                  \E x \in Mails : Has(mail', x) /\ mail'[x].msg = p /\ r \in On(mail', x)
          BY <2>6, <4>1 DEF Similar, On
        <4>3. Acc(mail)
          BY DEF Kept4, Accounted
        <4>4. AccNext(mail')
          BY <1>0, <4>2, <4>3, AccGrows
        <4> QED
          BY <4>4 DEF Acc, AccNext
      <3>2. Uniq(mail') /\ Own(mail', messages)
        BY <2>6, <2>10, <2>11, UniqSimilar, OwnSimilar
      <3> QED
        BY <1>0, <2>6, <3>1, <3>2 DEF Owned, Own
    <2>13. CASE saved' = Database'
      BY <2>12, <2>13, KeptCommitted DEF Database, Committed
    <2>14. CASE saved' = saved
      <3>1. Acc(saved.mail)'
        <4>1. Acc(saved.mail)
          BY DEF Kept4, Accounted
        <4> QED
          BY <1>0, <2>14, <4>1 DEF Acc
      <3>2. Uniq(saved'.mail)
        BY <2>14 DEF Kept4, Unique
      <3>3. Synced'
        <4>1. Synced
          BY DEF Kept4
        <4>2. messages' = saved'.messages
          BY <2>6, <2>14, <4>1 DEF Synced
        <4>3. \A m \in Mails : Has(saved.mail, m) =>
                Has(mail', m) /\ mail'[m].msg = saved.mail[m].msg /\ (mail'[m].notif <=> saved.mail[m].notif)
          BY <2>1, <2>6, <2>9, <4>1 DEF Synced, Similar
        <4>4. \A m \in Mails : Has(mail', m) /\ ~Has(saved.mail, m) =>
                mail'[m].notif /\ \E x \in Mails : Has(saved.mail, x) /\ saved.mail[x].msg = mail'[m].msg
          <5>1. \E x \in Mails : Has(saved.mail, x) /\ saved.mail[x].msg = mail[f].msg
            BY <2>1, <4>1 DEF Synced, Has
          <5>2. /\ \A m \in Mails : Has(mail', m) <=> Has(mail, m) \/ m = n
                /\ \A m \in Mails \ {n} : mail'[m].msg = mail[m].msg /\ (mail'[m].notif <=> mail[m].notif)
                /\ mail'[n].msg = mail[f].msg /\ mail'[n].notif
            BY <2>1, <2>2, <2>6, <2>9 DEF Similar
          <5> QED
            BY <4>1, <5>1, <5>2 DEF Synced
        <4>5. \A m \in Mails : \A r \in Recipients :
                Has(saved.mail, m) /\ saved.mail[m].state # "sent" /\ r \in On(saved.mail, m) =>
                    \E x \in Mails : /\ Has(mail', x) /\ mail'[x].state # "sent"
                                     /\ mail'[x].msg = saved.mail[m].msg /\ r \in On(mail', x)
          <5>1. ASSUME NEW x \in Mails, NEW r, Has(mail, x), mail[x].state # "sent", r \in On(mail, x)
                PROVE  \E y \in Mails : /\ Has(t, y) /\ t[y].state # "sent"
                                        /\ t[y].msg = mail[x].msg /\ r \in On(t, y)
            <6>1. CASE x = f
              BY <2>1, <2>2, <2>3, <2>8, <2>9, <5>1, <6>1
            <6>2. CASE x # f
              <7>1. x # n
                BY <2>1, <5>1
              <7> QED
                BY <2>4, <5>1, <6>2, <7>1 DEF Has, On
            <6> QED
              BY <6>1, <6>2
          <5>2. \A y \in Mails : /\ Has(mail', y) <=> Has(t, y)
                                 /\ mail'[y].state = "sent" <=> t[y].state = "sent"
                                 /\ mail'[y].msg = t[y].msg /\ On(mail', y) = On(t, y)
            BY <2>6 DEF Similar, On
          <5> QED
            BY <4>1, <5>1, <5>2 DEF Synced
        <4> QED
          BY <2>14, <4>2, <4>3, <4>4, <4>5 DEF Synced
      <3> QED
        BY <2>12, <3>1, <3>2, <3>3 DEF Kept4, Accounted, Unique, Uniq
    <2> QED
      BY <1>3, <2>13, <2>14 DEF Handed
  <1> QED
    BY <1>1, <1>2, <1>3

\* What a session reached has a copy, and the rest is still to be sent to or was given up.
LEMMA KeptCut ==
    ASSUME TypeOK, Session, Kept4, RefuseTemporarily \/ FailForGood
    PROVE  Kept4'
  <1>1. /\ run.phase = "smtp" /\ run.cur \in Mails
        /\ CutRow(mail'[run.cur]) /\ mail'[run.cur].state \in {"outgoing", "exception"}
        /\ \A m \in Mails \ {run.cur} : mail'[m] = mail[m]
        /\ messages' = messages /\ CommitDuringJob
    BY CutTo
  <1>2. letters' = letters /\ got' = got /\ givenUp' = givenUp /\ Grows
    <2>1. letters' = letters /\ got' = got /\ givenUp' = givenUp
      BY DEF RefuseTemporarily, FailForGood, bounds, history
    <2> QED
      BY <2>1, GrowsSame
  <1>3. /\ Has(mail, run.cur) /\ Has(mail', run.cur) /\ mail'[run.cur].msg = mail[run.cur].msg
        /\ (mail'[run.cur].notif <=> mail[run.cur].notif)
        /\ On(mail', run.cur) \subseteq On(mail, run.cur)
    BY <1>1, SessionOf DEF CutRow, LeftTo, LeftCc, Has, On
  <1>4. ASSUME NEW r \in On(mail, run.cur), r \notin On(mail', run.cur)
        PROVE  got[Current][r] > 0 \/ <<Current, r>> \in givenUp
    <2>1. /\ run.to \subseteq mail[run.cur].to /\ (run.reached # {} => run.cc = {})
          /\ r \in run.cc \cup run.to \cup run.reached \/ <<Current, r>> \in givenUp
          /\ \A x \in run.reached : got[Current][x] > 0
      BY <1>1, <1>4 DEF Session, Current
    <2>2. mail[run.cur].to \subseteq Partners /\ mail[run.cur].cc \subseteq Addresses
      BY <1>1 DEF TypeOK, TableOK, RowOK
    <2>3. mail'[run.cur].to = mail[run.cur].to \ run.reached
      BY <1>1 DEF CutRow, LeftTo
    <2>4. mail'[run.cur].cc = IF run.reached # {} THEN {} ELSE mail[run.cur].cc
      BY <1>1 DEF CutRow, LeftCc
    <2>5. CASE r \in mail[run.cur].to
      BY <1>4, <2>1, <2>3, <2>5 DEF On
    <2>6. CASE r \in mail[run.cur].cc
      <3>1. run.reached # {} /\ r \notin run.to
        BY <1>4, <2>1, <2>2, <2>4, <2>6, Numbers DEF On
      <3> QED
        BY <2>1, <3>1
    <2> QED
      BY <1>4, <2>5, <2>6 DEF On
  <1>5. \A m \in Mails : /\ Has(mail', m) <=> Has(mail, m)
                         /\ mail'[m].msg = mail[m].msg
                         /\ (mail'[m].notif <=> mail[m].notif)
                         /\ On(mail', m) \subseteq On(mail, m)
                         /\ m # run.cur => On(mail', m) = On(mail, m)
    BY <1>1, <1>3 DEF Has, On
  <1>6. Acc(mail)'
    <2>1. \A p \in 1..Len(letters) : \A r \in Recipients : \A m \in Mails :
              Has(mail, m) /\ mail[m].msg = p /\ r \in On(mail, m) =>
                \/ got'[p][r] > 0
                \/ <<p, r>> \in givenUp'
                \/ \E x \in Mails : Has(mail', x) /\ mail'[x].msg = p /\ r \in On(mail', x)
      BY <1>2, <1>4, <1>5 DEF Current
    <2>2. AccNext(mail')
      BY <1>2, <2>1, AccGrows DEF Kept4, Accounted
    <2> QED
      BY <2>2 DEF Acc, AccNext
  <1>7. Uniq(mail')
    BY <1>5 DEF Kept4, Unique, Uniq
  <1>8. Owned'
    <2>1. /\ \A p : \A m \in Mails : Owns(mail', p, m) <=> Owns(mail, p, m)
          /\ \A p : InUse(mail', p) <=> InUse(mail, p)
      BY <1>5 DEF Owns, InUse
    <2>2. Own(mail', messages)
      BY <2>1, OwnAlike DEF Kept4, Owned
    <2> QED
      BY <1>1, <1>2, <2>2 DEF Owned, Own
  <1>9. Committed
    BY <1>1, CommitTo DEF Committed
  <1> QED
    BY <1>6, <1>7, <1>8, <1>9, KeptCommitted

LEMMA KeptFinish ==
    ASSUME TypeOK, Session, Kept4, FinishMail
    PROVE  Kept4'
  <1>1. /\ run.phase = "smtp" /\ run.cur \in Mails /\ Exists(run.cur)
        /\ \/ mail' = mail /\ messages' = messages
           \/ mail' = Sent /\ messages' = messages
           \/ Left(Sent, {run.cur}, mail') /\ messages' = messages \ Lost(Sent, {run.cur})
    BY FinishTo
  <1>2. CommitDuringJob /\ Items = {} /\ letters' = letters /\ got' = got /\ givenUp' = givenUp /\ Grows
    <2>1. CommitDuringJob /\ Items = {} /\ letters' = letters /\ got' = got /\ givenUp' = givenUp
      BY DEF FinishMail, bounds, history
    <2> QED
      BY <2>1, GrowsSame
  <1>3. Committed
    BY <1>2, CommitTo DEF Committed
  <1>4. CASE mail' = mail /\ messages' = messages
    BY <1>2, <1>3, <1>4, QuietKept DEF Similar
  <1>5. \A m \in Mails : /\ Has(Sent, m) <=> Has(mail, m)
                         /\ Sent[m].msg = mail[m].msg /\ (Sent[m].notif <=> mail[m].notif)
                         /\ On(Sent, m) = On(mail, m)
    <2>1. DOMAIN mail = Mails /\ \A m \in Mails : DOMAIN mail[m] = Fields
      BY DEF TypeOK, TableOK, RowOK
    <2>2. \A m \in Mails \ {run.cur} : Sent[m] = mail[m]
      BY <1>1, <2>1 DEF Sent
    <2>3. /\ Sent[run.cur].state = "sent" /\ Sent[run.cur].msg = mail[run.cur].msg
          /\ Sent[run.cur].notif = mail[run.cur].notif
          /\ Sent[run.cur].to = mail[run.cur].to /\ Sent[run.cur].cc = mail[run.cur].cc
      BY <1>1, <2>1 DEF Sent, Fields
    <2> QED
      BY <1>1, <2>2, <2>3 DEF Has, On, Exists
  <1>6. Own(Sent, messages)
    <2>1. /\ \A p : \A m \in Mails : Owns(Sent, p, m) <=> Owns(mail, p, m)
          /\ \A p : InUse(Sent, p) <=> InUse(mail, p)
      BY <1>5 DEF Owns, InUse
    <2> QED
      BY <2>1, OwnAlike DEF Kept4, Owned
  \* The rows that are left, and the messages.
  <1>7. ASSUME \A m \in Mails : /\ Has(mail', m) => Has(mail, m)
                                /\ m # run.cur => (Has(mail', m) <=> Has(mail, m))
                                /\ Has(mail', m) => mail'[m].msg = mail[m].msg /\ On(mail', m) = On(mail, m),
               Own(mail', messages')
        PROVE  Kept4'
    <2>1. \A r \in On(mail, run.cur) : got[Current][r] > 0 \/ <<Current, r>> \in givenUp
      <3>1. run.cc = {} /\ run.to = {}
        BY <1>1, <1>2, SessionOf
      <3> QED
        BY <1>1, <3>1 DEF Session, Current
    <2>2. \A p \in 1..Len(letters) : \A r \in Recipients : \A m \in Mails :
              Has(mail, m) /\ mail[m].msg = p /\ r \in On(mail, m) =>
                \/ got'[p][r] > 0
                \/ <<p, r>> \in givenUp'
                \/ \E x \in Mails : Has(mail', x) /\ mail'[x].msg = p /\ r \in On(mail', x)
      BY <1>2, <1>7, <2>1 DEF Current
    <2>3. AccNext(mail')
      BY <1>2, <2>2, AccGrows DEF Kept4, Accounted
    <2>4. Acc(mail)'
      BY <2>3 DEF Acc, AccNext
    <2>5. Uniq(mail')
      BY <1>7 DEF Kept4, Unique, Uniq
    <2>6. Owned'
      BY <1>2, <1>7 DEF Owned, Own
    <2> QED
      BY <1>3, <2>4, <2>5, <2>6, KeptCommitted
  <1>8. CASE mail' = Sent /\ messages' = messages
    BY <1>5, <1>6, <1>7, <1>8
  <1>9. CASE Left(Sent, {run.cur}, mail') /\ messages' = messages \ Lost(Sent, {run.cur})
    <2>1. /\ \A m \in {run.cur} : mail'[m] = NoMail
          /\ \A m \in Mails \ {run.cur} : /\ mail'[m].state = Sent[m].state /\ mail'[m].msg = Sent[m].msg
                                          /\ mail'[m].to = Sent[m].to /\ mail'[m].cc = Sent[m].cc
      BY <1>9, Zenon DEF Left
    <2>2. NoMail.state = "none"
      BY DEF NoMail
    <2>3. ~Has(mail', run.cur)
      BY <2>1, <2>2 DEF Has
    <2>4. \A m \in Mails \ {run.cur} : /\ Has(mail', m) <=> Has(mail, m)
                                       /\ mail'[m].msg = mail[m].msg /\ On(mail', m) = On(mail, m)
      <3>1. \A m \in Mails \ {run.cur} : /\ Has(mail', m) <=> Has(Sent, m)
                                         /\ On(mail', m) = On(Sent, m)
        BY <2>1 DEF Has, On
      <3> QED
        BY <1>5, <2>1, <3>1
    <2>5. Own(mail', messages')
      <3>1. {run.cur} \in SUBSET Mails /\ \A m \in {run.cur} : Has(Sent, m)
        BY <1>1, <1>5 DEF Has, Exists
      <3> QED
        BY <1>6, <1>9, <3>1, OwnGone
    <2> QED
      BY <1>7, <2>3, <2>4, <2>5
  <1> QED
    BY <1>1, <1>4, <1>8, <1>9

LEMMA KeptRunner ==
    ASSUME TypeOK, Session, Kept4, Runner
    PROVE  Kept4'
  <1> USE DEF bounds, history, queue, tables, ids
  <1>1. DOMAIN mail = Mails /\ \A m \in Mails : DOMAIN mail[m] = Fields
    BY DEF TypeOK, TableOK, RowOK
  <1>2. ASSUME mail' = mail, messages' = messages, saved' = saved, Grows PROVE Kept4'
    BY <1>2, QuietKept DEF Similar
  <1>3. ASSUME Similar(mail', mail), messages' = messages, Commit \/ CommitDuringJob, Grows PROVE Kept4'
    <2>1. Committed
      BY <1>3, CommitTo DEF Committed
    <2> QED
      BY <1>3, <2>1, QuietKept
  <1>4. CASE ConnectOk
    BY <1>2, <1>4, GrowsSame DEF ConnectOk
  <1>5. CASE ConnectFails
    <2>1. \A m \in ToSet(run.pending) : mail[m].state = "outgoing"
      BY <1>5 DEF ConnectFails, TypeOK, RunOK, ToSet
    <2>2. Similar(mail', mail)
      BY <1>1, <1>5, <2>1 DEF ConnectFails, Similar, Has, Fields
    <2> QED
      BY <1>3, <1>5, <2>2, GrowsSame DEF ConnectFails
  <1>6. CASE StartMail
    <2> DEFINE m == Head(run.pending)
    <2>1. /\ messages' = messages /\ saved' = saved /\ Grows
          /\ \/ mail' = mail
             \/ mail[m].state = "outgoing" /\ mail' = [mail EXCEPT ![m].state = "exception"]
      BY <1>6, GrowsSame DEF StartMail
    <2>2. CASE mail' = mail
      BY <1>2, <2>1, <2>2
    <2>3. CASE mail[m].state = "outgoing" /\ mail' = [mail EXCEPT ![m].state = "exception"]
      <3> HIDE DEF m
      <3>1. Similar(mail', mail)
        BY <1>1, <2>3 DEF Similar, Has, Fields
      <3> QED
        BY <2>1, <3>1, QuietKept DEF Similar
    <2> QED
      BY <2>1, <2>2, <2>3
  <1>7. CASE Accept
    <2>1. PICK item \in Items : Deliver(item)
      BY <1>7 DEF Accept
    <2>2. run.phase = "smtp" /\ mail' = mail /\ messages' = messages /\ saved' = saved
          /\ letters' = letters /\ givenUp' = givenUp
      BY <1>7 DEF Accept, Sending
    <2> QED
      BY <1>2, <2>1, <2>2, GrowsDeliver
  <1>8. CASE Invalid
    <2>1. mail' = mail /\ messages' = messages /\ saved' = saved /\ Grows
      BY <1>8, GrowsSame DEF Invalid
    <2> QED
      BY <1>2, <2>1
  <1>9. CASE RefuseTemporarily \/ FailForGood
    BY <1>9, KeptCut
  <1>10. CASE FailAfterInvalid \/ EndBatch
    <2>1. mail' = mail /\ messages' = messages /\ (Commit \/ CommitDuringJob) /\ Grows
      BY <1>10, GrowsSame DEF FailAfterInvalid, EndBatch
    <2> QED
      BY <1>3, <2>1 DEF Similar
  <1>11. CASE Drop
    <2>1. /\ mail' = mail /\ messages' = messages /\ Commit /\ letters' = letters /\ givenUp' = givenUp
          /\ run.phase = "smtp"
          /\ got' = got \/ \E item \in Items : Deliver(item)
      BY <1>11 DEF Drop, Sending
    <2>2. Grows
      BY <2>1, GrowsSame, GrowsDeliver
    <2> QED
      BY <1>3, <2>1, <2>2 DEF Similar
  <1>12. CASE FinishMail
    BY <1>12, KeptFinish
  <1>13. CASE StopBatch
    <2>1. letters' = letters /\ got' = got /\ givenUp' = givenUp
      BY <1>13 DEF StopBatch
    <2>2. Similar(mail', mail) /\ messages' = messages /\ Commit
      <3>1. /\ \A m \in Mails : Redated(mail'[m], mail[m])
            /\ messages' = messages /\ Commit
        BY <1>13, StopTo
      <3> QED
        BY <3>1 DEF Redated, Similar, Has
    <2> QED
      BY <1>3, <2>1, <2>2, GrowsSame
  <1> QED
    BY <1>4, <1>5, <1>6, <1>7, <1>8, <1>9, <1>10, <1>11, <1>12, <1>13 DEF Runner

LEMMA KeptPost ==
    ASSUME TypeOK, Kept4, NEW l \in Letters, Post(l)
    PROVE  Kept4'
  <1> DEFINE n == made'
             q == Len(letters')
  <1>1. /\ n \in Mails /\ q = Len(letters) + 1 /\ Len(letters) \in Nat
        /\ mail'[n].state = "outgoing" /\ mail'[n].to = l.to /\ mail'[n].cc = l.cc
        /\ mail'[n].msg = q /\ mail'[n].notif = l.notif
        /\ \A m \in Mails \ {n} : mail'[m] = mail[m]
        /\ ~Has(mail, n) /\ ~Has(saved.mail, n)
        /\ \A p \in 1..Len(letters) : letters'[p] = letters[p]
        /\ letters'[q] = l
        /\ messages' = messages \cup {q}
        /\ CommitUser({n})
    BY PostTo DEF TypeOK
  <1>2. got' = got /\ givenUp' = givenUp
    BY DEF Post, history
  <1>3. /\ saved'.messages = messages'
        /\ \A m \in Mails : saved'.mail[m] = IF m = n THEN mail'[n] ELSE saved.mail[m]
    BY <1>1, CommitUserTo
  <1>4. \A m \in Mails : /\ Has(mail, m) => mail[m].msg \in 1..Len(letters)
                         /\ Has(saved.mail, m) => saved.mail[m].msg \in 1..Len(letters)
    BY DEF TypeOK, TableOK, RowOK, Has
  <1>5. q \notin 1..Len(letters) /\ \A p \in 1..q : p = q \/ p \in 1..Len(letters)
    BY <1>1
  <1> HIDE DEF n, q
  \* Either table: a new row, of the new letter alone.
  <1>6. ASSUME NEW t, NEW u, ~Has(t, n), u[n] = mail'[n],
               \A m \in Mails \ {n} : u[m] = t[m],
               \A m \in Mails : Has(t, m) => t[m].msg \in 1..Len(letters),
               Acc(t), Uniq(t)
        PROVE  AccNext(u) /\ Uniq(u)
    <2>1. /\ Has(u, n) /\ u[n].msg = q /\ On(u, n) = l.to \cup l.cc
          /\ \A m \in Mails \ {n} : Has(u, m) <=> Has(t, m)
          /\ \A m \in Mails \ {n} : u[m].msg = t[m].msg /\ On(u, m) = On(t, m)
      BY <1>1, <1>6 DEF Has, On
    <2>2. ASSUME NEW p \in 1..q, NEW r \in letters'[p].to \cup letters'[p].cc
          PROVE  \/ got'[p][r] > 0
                 \/ <<p, r>> \in givenUp'
                 \/ \E m \in Mails : Has(u, m) /\ u[m].msg = p /\ r \in On(u, m)
      <3>1. CASE p = q
        BY <1>1, <2>1, <2>2, <3>1
      <3>2. CASE p \in 1..Len(letters)
        <4>1. \/ got[p][r] > 0
              \/ <<p, r>> \in givenUp
              \/ \E m \in Mails : Has(t, m) /\ t[m].msg = p /\ r \in On(t, m)
          BY <1>1, <1>6, <2>2, <3>2 DEF Acc
        <4> QED
          BY <1>2, <1>6, <2>1, <4>1
      <3> QED
        BY <1>5, <3>1, <3>2
    <2>3. AccNext(u)
      BY <2>2 DEF AccNext, q
    <2>4. ASSUME NEW m \in Mails, NEW x \in Mails, Has(u, m), Has(u, x), u[m].msg = u[x].msg, m # x
          PROVE  On(u, m) \cap On(u, x) = {}
      <3>1. m # n /\ x # n
        BY <1>5, <1>6, <2>1, <2>4
      <3> QED
        BY <1>6, <2>1, <2>4, <3>1 DEF Uniq
    <2> QED
      BY <2>3, <2>4 DEF Uniq
  <1>7. AccNext(mail') /\ Uniq(mail')
    BY <1>1, <1>4, <1>6 DEF Kept4, Accounted, Unique
  <1>8. AccNext(saved'.mail) /\ Uniq(saved'.mail)
    <2>1. saved'.mail[n] = mail'[n] /\ \A m \in Mails \ {n} : saved'.mail[m] = saved.mail[m]
      BY <1>1, <1>3
    <2> QED
      BY <1>1, <1>4, <1>6, <2>1 DEF Kept4, Accounted, Unique
  <1>9. Accounted' /\ Unique'
    <2>1. Acc(mail)' /\ Acc(saved.mail)'
      BY <1>7, <1>8 DEF Acc, AccNext
    <2> QED
      BY <1>7, <1>8, <2>1 DEF Accounted, Unique, Uniq
  <1>10. Owned'
    <2>1. \A p \in 1..Len(letters) : \A m \in Mails :
            /\ Owns(mail', p, m) <=> Owns(mail, p, m)
            /\ Has(mail', m) /\ mail'[m].msg = p <=> Has(mail, m) /\ mail[m].msg = p
      <3>1. ASSUME NEW p \in 1..Len(letters), NEW m \in Mails
            PROVE  /\ Owns(mail', p, m) <=> Owns(mail, p, m)
                   /\ Has(mail', m) /\ mail'[m].msg = p <=> Has(mail, m) /\ mail[m].msg = p
        <4>1. CASE m = n
          BY <1>1, <1>5, <4>1 DEF Owns
        <4>2. CASE m # n
          BY <1>1, <4>2 DEF Owns, Has
        <4> QED
          BY <4>1, <4>2
      <3> QED
        BY <3>1
    <2>2. /\ \A m \in Mails : Owns(mail', q, m) <=> m = n /\ ~l.notif
          /\ InUse(mail', q)
      <3>1. \A m \in Mails \ {n} : ~(Has(mail', m) /\ mail'[m].msg = q)
        BY <1>1, <1>4, <1>5 DEF Has
      <3>2. Has(mail', n) /\ mail'[n].msg = q /\ (mail'[n].notif <=> l.notif)
        BY <1>1 DEF Has
      <3> QED
        BY <1>1, <3>1, <3>2 DEF Owns, InUse
    <2>3. ASSUME NEW p \in 1..q
          PROVE  /\ letters'[p].notif => p \in messages' /\ \A m \in Mails : ~Owns(mail', p, m)
                 /\ ~letters'[p].notif =>
                    /\ \A m, x \in Mails : Owns(mail', p, m) /\ Owns(mail', p, x) => m = x
                    /\ InUse(mail', p) => p \in messages' /\ \E m \in Mails : Owns(mail', p, m)
                    /\ p \in messages' => InUse(mail', p)
      <3>1. CASE p = q
        BY <1>1, <2>2, <3>1
      <3>2. CASE p \in 1..Len(letters)
        <4>1. /\ letters[p].notif => p \in messages /\ \A m \in Mails : ~Owns(mail, p, m)
              /\ ~letters[p].notif =>
                    /\ \A m, x \in Mails : Owns(mail, p, m) /\ Owns(mail, p, x) => m = x
                    /\ InUse(mail, p) => p \in messages /\ \E m \in Mails : Owns(mail, p, m)
                    /\ p \in messages => InUse(mail, p)
          BY <3>2, OwnIs DEF Kept4, Owned
        <4>2. letters'[p] = letters[p] /\ (p \in messages' <=> p \in messages)
          BY <1>1, <1>5, <3>2
        <4>3. InUse(mail', p) <=> InUse(mail, p)
          BY <2>1, <3>2 DEF InUse
        <4> QED
          BY <2>1, <3>2, <4>1, <4>2, <4>3
      <3> QED
        BY <1>5, <3>1, <3>2
    <2> QED
      BY <2>3 DEF Owned, Own, Owns, InUse, q
  <1>11. Synced'
    <2>1. Synced
      BY DEF Kept4
    <2>2. /\ \A m \in Mails \ {n} : mail'[m] = mail[m] /\ saved'.mail[m] = saved.mail[m]
          /\ saved'.mail[n] = mail'[n]
      BY <1>1, <1>3
    <2>3. \A m \in Mails : Has(saved'.mail, m) =>
            Has(mail', m) /\ mail'[m].msg = saved'.mail[m].msg /\ (mail'[m].notif <=> saved'.mail[m].notif)
      BY <2>1, <2>2 DEF Synced, Has
    <2>4. \A m \in Mails : Has(mail', m) /\ ~Has(saved'.mail, m) =>
            mail'[m].notif /\ \E x \in Mails : Has(saved'.mail, x) /\ saved'.mail[x].msg = mail'[m].msg
      <3>1. ASSUME NEW m \in Mails, Has(mail', m), ~Has(saved'.mail, m)
            PROVE  mail'[m].notif /\ \E x \in Mails : Has(saved'.mail, x) /\ saved'.mail[x].msg = mail'[m].msg
        <4>1. m # n
          BY <2>2, <3>1 DEF Has
        <4>2. Has(mail, m) /\ ~Has(saved.mail, m) /\ mail'[m] = mail[m]
          BY <2>2, <3>1, <4>1 DEF Has
        <4>3. PICK x \in Mails : Has(saved.mail, x) /\ saved.mail[x].msg = mail[m].msg
          BY <2>1, <4>2 DEF Synced
        <4>4. x # n
          BY <1>1, <4>3
        <4> QED
          BY <2>1, <2>2, <4>2, <4>3, <4>4 DEF Synced, Has
      <3> QED
        BY <3>1
    <2>5. ASSUME NEW m \in Mails, NEW r \in Recipients,
                 Has(saved'.mail, m), saved'.mail[m].state # "sent", r \in On(saved'.mail, m)
          PROVE  \E x \in Mails : /\ Has(mail', x) /\ mail'[x].state # "sent"
                                  /\ mail'[x].msg = saved'.mail[m].msg /\ r \in On(mail', x)
      <3>1. CASE m = n
        BY <2>2, <2>5, <3>1 DEF Has, On
      <3>2. CASE m # n
        <4>1. PICK x \in Mails : /\ Has(mail, x) /\ mail[x].state # "sent"
                                 /\ mail[x].msg = saved.mail[m].msg /\ r \in On(mail, x)
          BY <2>1, <2>2, <2>5, <3>2 DEF Synced, Has, On
        <4>2. x # n
          BY <1>1, <4>1
        <4> QED
          BY <2>2, <3>2, <4>1, <4>2 DEF Has, On
      <3> QED
        BY <3>1, <3>2
    <2> QED
      BY <1>3, <2>3, <2>4, <2>5 DEF Synced
  <1> QED
    BY <1>9, <1>10, <1>11 DEF Kept4

LEMMA KeptDelete ==
    ASSUME TypeOK, Kept4, NEW S \in SUBSET Mails, Delete(S)
    PROVE  Kept4'
  <1> DEFINE G == Siblings(S)
  <1>1. /\ \A m \in S : Has(mail, m)
        /\ \A m \in Mails : m \in G <=> Has(mail, m) /\ \E o \in S : mail[m].msg = mail[o].msg
        /\ \A m \in G : mail[m] = saved.mail[m]
        /\ Left(mail, S, mail') /\ messages' = messages \ Lost(mail, S)
        /\ CommitUser(G)
        /\ \A m \in Mails \ G : m \notin S /\ mail'[m] = mail[m]
    BY DeleteTo
  <1>2. /\ letters' = letters /\ got' = got
        /\ givenUp' = givenUp \cup UNION {{mail[m].msg} \X (mail[m].to \cup mail[m].cc) : m \in S}
    BY DEF Delete
  <1>3. Grows
    BY <1>2, GrowsSame
  <1>4. /\ saved'.messages = messages'
        /\ \A m \in Mails : saved'.mail[m] = IF m \in G THEN mail'[m] ELSE saved.mail[m]
    BY <1>1, CommitUserTo
  <1> HIDE DEF G
  <1>5. /\ \A m \in S : mail'[m].state = "none"
        /\ \A m \in Mails \ S : /\ mail'[m].state = mail[m].state /\ mail'[m].msg = mail[m].msg
                                /\ mail'[m].to = mail[m].to /\ mail'[m].cc = mail[m].cc
    <2>1. /\ \A m \in S : mail'[m] = NoMail
          /\ \A m \in Mails \ S : /\ mail'[m].state = mail[m].state /\ mail'[m].msg = mail[m].msg
                                  /\ mail'[m].to = mail[m].to /\ mail'[m].cc = mail[m].cc
      BY <1>1, Zenon DEF Left
    <2>2. NoMail.state = "none"
      BY DEF NoMail
    <2> QED
      BY <2>1, <2>2
  <1>6. \A m \in Mails : /\ Has(mail', m) <=> m \notin S /\ Has(mail, m)
                         /\ m \notin S => mail'[m].msg = mail[m].msg /\ On(mail', m) = On(mail, m)
    BY <1>5 DEF Has, On
  <1>7. \A m \in S : \A r \in On(mail, m) : <<mail[m].msg, r>> \in givenUp'
    BY <1>2 DEF On
  <1>8. \A m, x \in Mails : m \in G /\ Has(mail, x) /\ mail[x].msg = mail[m].msg => x \in G
    BY <1>1
  <1>9. /\ messages = saved.messages
        /\ \A m \in Mails : Has(saved.mail, m) =>
             Has(mail, m) /\ mail[m].msg = saved.mail[m].msg /\ (mail[m].notif <=> saved.mail[m].notif)
        /\ \A m \in Mails : Has(mail, m) /\ ~Has(saved.mail, m) =>
             mail[m].notif /\ \E x \in Mails : Has(saved.mail, x) /\ saved.mail[x].msg = mail[m].msg
        /\ \A m \in Mails : \A r \in Recipients :
             Has(saved.mail, m) /\ saved.mail[m].state # "sent" /\ r \in On(saved.mail, m) =>
                \E x \in Mails : /\ Has(mail, x) /\ mail[x].state # "sent"
                                 /\ mail[x].msg = saved.mail[m].msg /\ r \in On(mail, x)
    BY DEF Kept4, Synced
  \* The rows of the messages in hand are committed; others are as they were.
  <1>10. \A m \in Mails : /\ m \in G => saved'.mail[m] = mail'[m]
                          /\ m \notin G => saved'.mail[m] = saved.mail[m] /\ mail'[m] = mail[m]
    BY <1>1, <1>4
  <1>11. /\ \A m \in Mails : Has(saved'.mail, m) =>
             Has(mail', m) /\ mail'[m].msg = saved'.mail[m].msg /\ (mail'[m].notif <=> saved'.mail[m].notif)
         /\ \A m \in Mails : Has(saved'.mail, m) /\ m \notin G => Has(saved.mail, m) /\ Has(mail, m)
    BY <1>9, <1>10 DEF Has
  <1>12. Acc(mail)' /\ Acc(saved.mail)'
    <2>1. \A p \in 1..Len(letters) : \A r \in Recipients : \A m \in Mails :
              Has(mail, m) /\ mail[m].msg = p /\ r \in On(mail, m) =>
                \/ got'[p][r] > 0
                \/ <<p, r>> \in givenUp'
                \/ \E x \in Mails : Has(mail', x) /\ mail'[x].msg = p /\ r \in On(mail', x)
      BY <1>6, <1>7
    <2>2. \A p \in 1..Len(letters) : \A r \in Recipients : \A m \in Mails :
              Has(saved.mail, m) /\ saved.mail[m].msg = p /\ r \in On(saved.mail, m) =>
                \/ got'[p][r] > 0
                \/ <<p, r>> \in givenUp'
                \/ \E x \in Mails : Has(saved'.mail, x) /\ saved'.mail[x].msg = p /\ r \in On(saved'.mail, x)
      <3>1. ASSUME NEW r, NEW m \in Mails, Has(saved.mail, m), r \in On(saved.mail, m)
            PROVE  \/ <<saved.mail[m].msg, r>> \in givenUp'
                   \/ /\ Has(saved'.mail, m) /\ saved'.mail[m].msg = saved.mail[m].msg
                      /\ r \in On(saved'.mail, m)
        <4>1. CASE m \in G
          <5>1. mail[m] = saved.mail[m] /\ saved'.mail[m] = mail'[m]
            BY <1>1, <1>10, <4>1
          <5>2. Has(mail, m) /\ r \in On(mail, m)
            BY <3>1, <5>1 DEF Has, On
          <5>3. CASE m \in S
            BY <1>7, <5>1, <5>2, <5>3
          <5>4. CASE m \notin S
            <6>1. Has(mail', m) /\ mail'[m].msg = mail[m].msg /\ r \in On(mail', m)
              BY <1>6, <5>2, <5>4
            <6> QED
              BY <5>1, <6>1 DEF Has, On
          <5> QED
            BY <5>3, <5>4
        <4>2. CASE m \notin G
          BY <1>10, <3>1, <4>2 DEF Has, On
        <4> QED
          BY <4>1, <4>2
      <3> QED
        BY <3>1
    <2>3. AccNext(mail')
      BY <1>3, <2>1, AccGrows DEF Kept4, Accounted
    <2>4. AccNext(saved'.mail)
      BY <1>3, <2>2, AccGrows DEF Kept4, Accounted
    <2> QED
      BY <2>3, <2>4 DEF Acc, AccNext
  <1>13. Uniq(mail')
    BY <1>6 DEF Kept4, Unique, Uniq
  <1>14. Uniq(saved'.mail)
    <2> SUFFICES ASSUME NEW m \in Mails, NEW x \in Mails, Has(saved'.mail, m), Has(saved'.mail, x),
                        saved'.mail[m].msg = saved'.mail[x].msg, m # x
                 PROVE  On(saved'.mail, m) \cap On(saved'.mail, x) = {}
      BY DEF Uniq
    <2>1. /\ Has(mail', m) /\ Has(mail', x) /\ mail'[m].msg = mail'[x].msg
      BY <1>11
    <2>2. Has(mail, m) /\ Has(mail, x) /\ mail[m].msg = mail[x].msg
      BY <1>6, <2>1
    <2>3. CASE m \in G
      <3>1. x \in G
        BY <1>8, <2>2, <2>3
      <3> QED
        BY <1>10, <1>13, <2>1, <2>3, <3>1 DEF Uniq, On
    <2>4. CASE m \notin G
      <3>1. x \notin G
        BY <1>8, <2>2, <2>4
      <3>2. /\ saved'.mail[m] = saved.mail[m] /\ saved'.mail[x] = saved.mail[x]
            /\ Has(saved.mail, m) /\ Has(saved.mail, x)
        BY <1>10, <1>11, <2>4, <3>1
      <3> QED
        BY <3>2 DEF Kept4, Unique, Uniq, On
    <2> QED
      BY <2>3, <2>4
  <1>15. Owned'
    <2>1. Own(mail', messages')
      BY <1>1, OwnGone DEF Kept4, Owned
    <2> QED
      BY <1>2, <2>1 DEF Owned, Own
  <1>16. Synced'
    <2>1. ASSUME NEW m \in Mails, Has(mail', m), ~Has(saved'.mail, m)
          PROVE  mail'[m].notif /\ \E x \in Mails : Has(saved'.mail, x) /\ saved'.mail[x].msg = mail'[m].msg
      <3>1. m \notin G
        BY <1>10, <2>1 DEF Has
      <3>2. Has(mail, m) /\ ~Has(saved.mail, m) /\ mail'[m] = mail[m]
        BY <1>10, <2>1, <3>1 DEF Has
      <3>3. PICK x \in Mails : Has(saved.mail, x) /\ saved.mail[x].msg = mail[m].msg
        BY <1>9, <3>2
      <3>4. x \notin G
        BY <1>8, <1>9, <3>1, <3>2, <3>3
      <3> QED
        BY <1>9, <1>10, <3>2, <3>3, <3>4 DEF Has
    <2>2. ASSUME NEW m \in Mails, NEW r \in Recipients,
                 Has(saved'.mail, m), saved'.mail[m].state # "sent", r \in On(saved'.mail, m)
          PROVE  \E x \in Mails : /\ Has(mail', x) /\ mail'[x].state # "sent"
                                  /\ mail'[x].msg = saved'.mail[m].msg /\ r \in On(mail', x)
      <3>1. CASE m \in G
        BY <1>10, <2>2, <3>1 DEF Has, On
      <3>2. CASE m \notin G
        <4>1. saved'.mail[m] = saved.mail[m] /\ Has(saved.mail, m)
          BY <1>10, <1>11, <2>2, <3>2
        <4>2. PICK x \in Mails : /\ Has(mail, x) /\ mail[x].state # "sent"
                                 /\ mail[x].msg = saved.mail[m].msg /\ r \in On(mail, x)
          BY <1>9, <2>2, <4>1 DEF On
        <4>3. x \notin G
          BY <1>8, <1>9, <3>2, <4>1, <4>2
        <4> QED
          BY <1>10, <4>1, <4>2, <4>3 DEF Has, On
      <3> QED
        BY <3>1, <3>2
    <2> QED
      BY <1>4, <1>11, <2>1, <2>2 DEF Synced
  <1> QED
    BY <1>12, <1>13, <1>14, <1>15, <1>16 DEF Kept4, Accounted, Unique, Uniq

LEMMA KeptUsers ==
    ASSUME TypeOK, Kept4, Users
    PROVE  Kept4'
  <1> USE DEF history
  <1>1. ASSUME Similar(mail', mail), messages' = messages, Grows, NEW S, CommitUser(S),
               \A m \in S \cap Mails : mail[m] = saved.mail[m]
        PROVE  Kept4'
    <2>1. /\ saved'.messages = messages'
          /\ \A m \in Mails : saved'.mail[m] = IF m \in S THEN mail'[m] ELSE saved.mail[m]
      BY <1>1, CommitUserTo
    <2>2. saved'.messages = saved.messages
      BY <1>1, <2>1 DEF Kept4, Synced
    <2>3. Similar(saved'.mail, saved.mail)
      <3>1. ASSUME NEW m \in Mails
            PROVE  /\ Has(saved'.mail, m) <=> Has(saved.mail, m)
                   /\ saved'.mail[m].state = "sent" <=> saved.mail[m].state = "sent"
                   /\ saved'.mail[m].msg = saved.mail[m].msg
                   /\ (saved'.mail[m].notif <=> saved.mail[m].notif)
                   /\ saved'.mail[m].to = saved.mail[m].to /\ saved'.mail[m].cc = saved.mail[m].cc
        <4>1. CASE m \in S
          <5>1. saved'.mail[m] = mail'[m] /\ mail[m] = saved.mail[m]
            BY <1>1, <2>1, <4>1
          <5> QED
            BY <1>1, <5>1 DEF Similar, Has
        <4>2. CASE m \notin S
          BY <2>1, <4>2 DEF Has
        <4> QED
          BY <4>1, <4>2
      <3> QED
        BY <3>1 DEF Similar
    <2> QED
      BY <1>1, <2>2, <2>3, QuietKept
  <1>2. ASSUME NEW l \in Letters, Post(l) PROVE Kept4'
    BY <1>2, KeptPost
  <1>3. CASE SendNow
    <2>1. /\ mail' = mail /\ messages' = messages /\ CommitUser({})
          /\ letters' = letters /\ got' = got /\ givenUp' = givenUp
      BY <1>3 DEF SendNow, bounds
    <2> QED
      BY <1>1, <2>1, GrowsSame DEF Similar
  <1>4. ASSUME NEW m \in Mails, Retry(m) \/ Cancel(m) PROVE Kept4'
    <2>1. /\ messages' = messages /\ CommitUser({m}) /\ mail[m] = saved.mail[m]
          /\ letters' = letters /\ got' = got /\ givenUp' = givenUp
          /\ mail[m].state \in {"outgoing", "exception", "cancel"}
          /\ \/ mail' = [mail EXCEPT ![m].state = "outgoing", ![m].retries = 0]
             \/ mail' = [mail EXCEPT ![m].state = "cancel"]
      BY <1>4 DEF Retry, Cancel, Locked
    <2>2. DOMAIN mail = Mails /\ DOMAIN mail[m] = Fields
      BY DEF TypeOK, TableOK, RowOK
    <2>3. /\ mail'[m].state \in {"outgoing", "cancel"}
          /\ mail'[m].msg = mail[m].msg /\ mail'[m].notif = mail[m].notif
          /\ mail'[m].to = mail[m].to /\ mail'[m].cc = mail[m].cc
      <3>1. CASE mail' = [mail EXCEPT ![m].state = "outgoing", ![m].retries = 0]
        BY <2>2, <3>1 DEF Fields
      <3>2. CASE mail' = [mail EXCEPT ![m].state = "cancel"]
        BY <2>2, <3>2 DEF Fields
      <3> QED
        BY <2>1, <3>1, <3>2
    <2>4. \A x \in Mails \ {m} : mail'[x] = mail[x]
      BY <2>1, <2>2
    <2>5. Similar(mail', mail)
      <3>1. /\ Has(mail', m) /\ Has(mail, m) /\ mail'[m].state # "sent" /\ mail[m].state # "sent"
        BY <2>1, <2>3 DEF Has
      <3>2. \A x \in Mails \ {m} : Has(mail', x) <=> Has(mail, x)
        BY <2>4 DEF Has
      <3> QED
        BY <2>3, <2>4, <3>1, <3>2 DEF Similar
    <2> QED
      BY <1>1, <2>1, <2>5, GrowsSame
  <1>5. ASSUME NEW S \in SUBSET Mails, Delete(S) PROVE Kept4'
    BY <1>5, KeptDelete
  <1> QED
    BY <1>2, <1>3, <1>4, <1>5 DEF Users

LEMMA KeptCrash ==
    ASSUME TypeOK, Kept4, Crash
    PROVE  Kept4'
  <1>1. /\ mail' = saved.mail /\ messages' = saved.messages /\ saved' = saved
        /\ letters' = letters /\ got' = got /\ givenUp' = givenUp
    BY DEF Crash
  <1>2. Committed
    BY <1>1 DEF Committed
  <1>3. Acc(mail)' /\ Uniq(mail')
    BY <1>1 DEF Kept4, Accounted, Unique, Acc
  <1>4. Owned'
    <2>1. Own(saved.mail, saved.messages)
      BY OwnSaved DEF Kept4
    <2> QED
      BY <1>1, <2>1 DEF Owned, Own
  <1> QED
    BY <1>2, <1>3, <1>4, KeptCommitted

LEMMA KeptNext == TypeOK /\ Session /\ Kept4 /\ [Next]_vars => Kept4'
  <1> SUFFICES ASSUME TypeOK, Session, Kept4, [Next]_vars PROVE Kept4'
    OBVIOUS
  <1>1. ASSUME UNCHANGED <<mail, messages, saved, letters, got, givenUp>> PROVE Kept4'
    BY <1>1, GrowsSame, QuietKept DEF Similar
  <1>2. CASE Tick
    BY <1>1, <1>2 DEF Tick, queue, tables, bounds
  <1>3. CASE TriggeredRun \/ RegularRun
    BY <1>3, KeptTake DEF TriggeredRun, RegularRun
  <1>4. CASE UNCHANGED vars
    BY <1>1, <1>4 DEF vars, queue, tables, bounds, history
  <1> QED
    BY <1>2, <1>3, <1>4, KeptRunner, KeptUsers, KeptCrash DEF Next

LEMMA KeptInit == Init => Session /\ Kept4
  <1> SUFFICES ASSUME Init PROVE Session /\ Kept4
    OBVIOUS
  <1>1. run = Idle /\ Idle.phase = "idle" /\ Idle.reached = {}
    BY DEF Init, Idle
  <1>2. saved.mail = mail /\ saved.messages = messages
    BY DEF Init, Database
  <1>3. \A m \in Mails : ~Has(mail, m)
    BY DEF Init, NoMail, Has
  <1>4. Len(letters) = 0
    BY DEF Init
  <1>5. Owned /\ Acc(mail) /\ Acc(saved.mail)
    BY <1>4 DEF Owned, Own, Acc
  <1> QED
    BY <1>1, <1>2, <1>3, <1>5 DEF Session, Kept4, Synced, Accounted, Unique, Uniq

\* The databases of the runner and of everybody else agree on who has which letter.
LEMMA KeptInv == Spec => [](TypeOK /\ Session /\ Kept4)
  <1>1. Init => TypeOK /\ Session /\ Kept4
    BY TypeInit, KeptInit
  <1>2. TypeOK /\ Session /\ Kept4 /\ [Next]_vars => (TypeOK /\ Session /\ Kept4)'
    BY TypeNext, SessionNext, KeptNext
  <1> QED
    BY <1>1, <1>2, PTL DEF Spec

\* No recipient of a letter is ever lost, however its mails are split, requeued, stripped,
\* deleted once sent, rolled back or worked on by users (mail_mail.py:61-79, 145-174).
THEOREM EveryRecipientAccountedForAlways == Spec => []EveryRecipientAccountedFor
  <1>1. TypeOK /\ Kept4 => EveryRecipientAccountedFor
    <2> SUFFICES ASSUME TypeOK, Kept4, NEW p \in DOMAIN letters, NEW r \in letters[p].to \cup letters[p].cc
                 PROVE  \/ got[p][r] > 0
                        \/ <<p, r>> \in givenUp
                        \/ \E m \in PartsOf(p) : r \in mail[m].to \cup mail[m].cc
      BY DEF EveryRecipientAccountedFor
    <2>1. p \in 1..Len(letters)
      BY DEF TypeOK
    <2> QED
      BY <2>1 DEF Kept4, Accounted, Acc, PartsOf, Has, On, Exists
  <1> QED
    BY <1>1, KeptInv, PTL

\* A letter's own message has one owner among its mails and goes with the last of them; a
\* notification's message has none (unlink, mail_mail.py:61-79; split, 155-162).
THEOREM MessageHasOneOwnerAlways == Spec => []MessageHasOneOwner
  <1>1. TypeOK /\ Kept4 => MessageHasOneOwner
    <2> SUFFICES ASSUME TypeOK, Kept4, NEW p \in DOMAIN letters
                 PROVE  LET owners == {m \in PartsOf(p) : ~mail[m].notif}
                        IN  IF letters[p].notif
                            THEN owners = {} /\ p \in messages
                            ELSE IF PartsOf(p) = {} THEN p \notin messages
                            ELSE p \in messages /\ Cardinality(owners) = 1
      BY DEF MessageHasOneOwner
    <2> DEFINE owners == {m \in PartsOf(p) : ~mail[m].notif}
    <2>1. p \in 1..Len(letters) /\ Own(mail, messages)
      BY DEF TypeOK, Kept4, Owned
    <2>2. /\ letters[p].notif => p \in messages /\ \A m \in Mails : ~Owns(mail, p, m)
          /\ ~letters[p].notif =>
              /\ \A m, x \in Mails : Owns(mail, p, m) /\ Owns(mail, p, x) => m = x
              /\ InUse(mail, p) => p \in messages /\ \E m \in Mails : Owns(mail, p, m)
              /\ p \in messages => InUse(mail, p)
      BY <2>1, OwnIs
    <2>3. /\ \A m : m \in owners <=> m \in Mails /\ Owns(mail, p, m)
          /\ PartsOf(p) # {} <=> InUse(mail, p)
      BY DEF PartsOf, Owns, InUse, Has, Exists
    <2> HIDE DEF owners
    <2>4. CASE letters[p].notif
      <3>1. owners = {} /\ p \in messages
        BY <2>2, <2>3, <2>4
      <3> QED
        BY <2>4, <3>1 DEF owners
    <2>5. CASE ~letters[p].notif /\ PartsOf(p) = {}
      <3>1. p \notin messages
        BY <2>2, <2>3, <2>5
      <3> QED
        BY <2>5, <3>1
    <2>6. CASE ~letters[p].notif /\ PartsOf(p) # {}
      <3>1. p \in messages /\ \E m \in Mails : Owns(mail, p, m)
        BY <2>2, <2>3, <2>6
      <3>2. PICK m \in Mails : Owns(mail, p, m)
        BY <3>1
      <3>3. owners = {m}
        BY <2>2, <2>3, <2>6, <3>2
      <3>4. Cardinality(owners) = 1
        BY <3>3, FS_Singleton
      <3> QED
        BY <2>6, <3>1, <3>4 DEF owners
    <2> QED
      BY <2>4, <2>5, <2>6
  <1> QED
    BY <1>1, KeptInv, PTL

-----------------------------------------------------------------------------
(* No second copy *)

\* Recipient r of letter p will be sent to again: a mail that was not sent has it, other
\* than the one in hand after reaching it.
Pending(p, r) ==
    \E m \in Mails : /\ Has(mail, m) /\ mail[m].state # "sent"
                     /\ mail[m].msg = p /\ r \in On(mail, m)
                     /\ ~(m = run.cur /\ r \in run.reached)

\* Every copy but the first is owed to a send that was cut off, and whoever is still to be
\* sent to has no more than those.
Copied ==
    \A p \in Posts : \A r \in Recipients :
        /\ got[p][r] <= 1 + cutOff[p]
        /\ Pending(p, r) => got[p][r] <= cutOff[p]
        /\ p > Len(letters) => got[p][r] = 0

\* A step that delivers nothing, and makes nobody pending who has all the copies allowed.
LEMMA CopiedStep ==
    ASSUME TypeOK, Copied, got' = got, Len(letters') \in Nat, Len(letters) <= Len(letters'),
           \A p \in Posts : cutOff'[p] \in Nat /\ cutOff[p] <= cutOff'[p],
           \A p \in Posts : \A r \in Recipients : Pending(p, r)' => Pending(p, r) \/ got[p][r] <= cutOff'[p]
    PROVE  Copied'
  <1> SUFFICES ASSUME NEW p \in Posts, NEW r \in Recipients
               PROVE  /\ got'[p][r] <= 1 + cutOff'[p]
                      /\ Pending(p, r)' => got'[p][r] <= cutOff'[p]
                      /\ p > Len(letters') => got'[p][r] = 0
    BY DEF Copied
  <1>1. /\ got[p][r] \in Nat /\ cutOff[p] \in Nat /\ cutOff'[p] \in Nat /\ Len(letters) \in Nat /\ p \in Nat
        /\ cutOff[p] <= cutOff'[p] /\ Len(letters) <= Len(letters') /\ Len(letters') \in Nat
    BY Numbers DEF TypeOK
  <1>2. /\ got[p][r] <= 1 + cutOff[p]
        /\ Pending(p, r) => got[p][r] <= cutOff[p]
        /\ p > Len(letters) => got[p][r] = 0
    BY DEF Copied
  <1>3. Pending(p, r)' => Pending(p, r) \/ got[p][r] <= cutOff'[p]
    OBVIOUS
  <1> HIDE DEF Pending
  <1> QED
    BY <1>1, <1>2, <1>3

\* Rows that lose recipients at most, while none is in hand before or after.
LEMMA CopiedRows ==
    ASSUME TypeOK, Copied, got' = got, cutOff' = cutOff, letters' = letters,
           run.reached = {},
           \A m \in Mails : Has(mail', m) /\ mail'[m].state # "sent" =>
              /\ Has(mail, m) /\ mail[m].state # "sent"
              /\ mail'[m].msg = mail[m].msg /\ On(mail', m) \subseteq On(mail, m)
    PROVE  Copied'
  <1>1. \A p \in Posts : \A r \in Recipients : Pending(p, r)' => Pending(p, r)
    BY DEF Pending, On
  <1>2. \A p \in Posts : cutOff'[p] \in Nat /\ cutOff[p] <= cutOff'[p]
    BY DEF TypeOK
  <1>3. Len(letters') \in Nat /\ Len(letters) <= Len(letters')
    BY DEF TypeOK
  <1> QED
    BY <1>1, <1>2, <1>3, CopiedStep

LEMMA CopiedTake ==
    ASSUME TypeOK, Session, Copied, Take, run.phase = "idle", UNCHANGED <<bounds, history>>
    PROVE  Copied'
  <1>1. PICK batch : \/ Handed(mail, 0, batch)
                     \/ \E f, first : SplitOff(f, first) /\ Handed(Parted(f, first), 1, batch)
    BY TakeTo
  <1>2. got' = got /\ cutOff' = cutOff /\ letters' = letters /\ run.reached = {}
    BY DEF bounds, history, Session
  <1>3. CASE Handed(mail, 0, batch)
    <2>1. \A m \in Mails : mail'[m].state = mail[m].state /\ mail'[m].msg = mail[m].msg /\ On(mail', m) = On(mail, m)
      BY <1>3 DEF Handed, Redated, On
    <2> QED
      BY <1>2, <2>1, CopiedRows DEF Has
  <1>4. ASSUME NEW f, NEW first, SplitOff(f, first), Handed(Parted(f, first), 1, batch) PROVE Copied'
    <2> DEFINE n == made + 1
               t == Parted(f, first)
    <2>1. /\ f \in Mails /\ f # n /\ first \subseteq mail[f].to /\ mail[f].state = "outgoing"
          /\ DOMAIN mail = Mails /\ \A m \in Mails : DOMAIN mail[m] = Fields
      BY <1>4 DEF SplitOff, Due, TypeOK, TableOK, RowOK
    <2>2. \A m \in Mails : \/ t[m] = mail[m]
                           \/ t[m].msg = mail[f].msg /\ t[m].to \subseteq mail[f].to /\ t[m].cc \subseteq mail[f].cc
      <3>1. n \in Mails => t[n].msg = mail[f].msg /\ t[n].to = first /\ t[n].cc = mail[f].cc
        BY <2>1 DEF Parted, Fields
      <3>2. t[f].msg = mail[f].msg /\ t[f].to = mail[f].to \ first /\ t[f].cc = {}
        BY <2>1 DEF Parted, Fields
      <3>3. \A m \in Mails \ {f, n} : t[m] = mail[m]
        BY <2>1 DEF Parted
      <3> HIDE DEF t, n
      <3> QED
        BY <2>1, <3>1, <3>2, <3>3
    <2>3. \A m \in Mails : /\ mail'[m].state = t[m].state /\ mail'[m].msg = t[m].msg
                           /\ mail'[m].to = t[m].to /\ mail'[m].cc = t[m].cc
      BY <1>4 DEF Handed, Redated
    <2> HIDE DEF t, n
    <2>4. ASSUME NEW p \in Posts, NEW r \in Recipients, Pending(p, r)' PROVE Pending(p, r)
      <3>1. PICK m \in Mails : /\ Has(mail', m) /\ mail'[m].state # "sent"
                               /\ mail'[m].msg = p /\ r \in On(mail', m)
        BY <2>4 DEF Pending, On
      <3>2. CASE t[m] = mail[m]
        <4>1. Has(mail, m) /\ mail[m].state # "sent" /\ mail[m].msg = p /\ r \in On(mail, m)
          BY <2>3, <3>1, <3>2 DEF Has, On
        <4> QED
          BY <1>2, <4>1 DEF Pending
      <3>3. CASE t[m].msg = mail[f].msg /\ t[m].to \subseteq mail[f].to /\ t[m].cc \subseteq mail[f].cc
        <4>1. Has(mail, f) /\ mail[f].state # "sent" /\ mail[f].msg = p /\ r \in On(mail, f)
          BY <2>1, <2>3, <3>1, <3>3 DEF Has, On
        <4> QED
          BY <1>2, <2>1, <4>1 DEF Pending
      <3> QED
        BY <2>2, <3>2, <3>3
    <2>5. /\ \A p \in Posts : cutOff'[p] \in Nat /\ cutOff[p] <= cutOff'[p]
          /\ Len(letters') \in Nat /\ Len(letters) <= Len(letters')
      BY <1>2 DEF TypeOK
    <2> QED
      BY <1>2, <2>4, <2>5, CopiedStep
  <1> QED
    BY <1>1, <1>3, <1>4

\* A message accepted: its recipients were pending, and are on no other mail.
LEMMA CopiedAccept ==
    ASSUME TypeOK, Session, Kept4, Copied, Accept
    PROVE  Copied'
  <1>1. PICK item \in Items : run' = [After(item) EXCEPT !.reached = @ \cup item] /\ Deliver(item)
    BY DEF Accept
  <1>2. run.phase = "smtp" /\ mail' = mail /\ cutOff' = cutOff /\ letters' = letters
    BY DEF Accept, Sending, queue, tables, bounds
  <1>3. run'.cur = run.cur /\ run'.reached = run.reached \cup item
    <2>1. DOMAIN run = RunFields
      BY DEF TypeOK, RunOK
    <2> QED
      BY <1>1, <2>1 DEF After, RunFields
  <1>4. /\ run.cur \in Mails /\ Has(mail, run.cur) /\ mail[run.cur].state = "exception"
        /\ item \subseteq On(mail, run.cur) /\ item \cap run.reached = {}
        /\ Current \in 1..Len(letters)
    BY <1>2, SessionOf
  <1> SUFFICES ASSUME NEW p \in Posts, NEW r \in Recipients
               PROVE  /\ got'[p][r] <= 1 + cutOff'[p]
                      /\ Pending(p, r)' => got'[p][r] <= cutOff'[p]
                      /\ p > Len(letters') => got'[p][r] = 0
    BY DEF Copied
  <1>5. /\ got[p][r] <= 1 + cutOff[p] /\ got[p][r] \in Nat /\ cutOff[p] \in Nat
        /\ Pending(p, r) => got[p][r] <= cutOff[p]
        /\ p > Len(letters) => got[p][r] = 0
    BY DEF Copied, TypeOK
  <1>6. got'[p][r] = IF p = Current /\ r \in item THEN got[p][r] + 1 ELSE got[p][r]
    BY <1>1, <1>2, DeliverTo
  <1>7. CASE p = Current /\ r \in item
    <2>1. Pending(p, r)
      BY <1>4, <1>7 DEF Pending, Current
    <2>2. ~Pending(p, r)'
      <3>1. ASSUME NEW m \in Mails, Has(mail, m), mail[m].msg = p, r \in On(mail, m) PROVE m = run.cur
        <4>1. Uniq(mail)
          BY DEF Kept4, Unique
        <4>2. mail[m].msg = mail[run.cur].msg
          BY <1>7, <3>1 DEF Current
        <4> QED
          BY <1>4, <1>7, <3>1, <4>1, <4>2 DEF Uniq
      <3> QED
        BY <1>2, <1>3, <1>7, <3>1 DEF Pending, On
    <2>3. ~(p > Len(letters))
      <3>1. p \in 1..Len(letters)
        BY <1>4, <1>7
      <3> QED
        BY <3>1 DEF TypeOK
    <2> HIDE DEF Pending
    <2> QED
      BY <1>2, <1>5, <1>6, <1>7, <2>1, <2>2, <2>3
  <1>8. CASE ~(p = Current /\ r \in item)
    <2>1. Pending(p, r)' => Pending(p, r)
      BY <1>2, <1>3 DEF Pending, On
    <2> HIDE DEF Pending
    <2> QED
      BY <1>2, <1>5, <1>6, <1>8, <2>1
  <1> QED
    BY <1>7, <1>8

\* A send cut off gives up what it reached to a second copy, and counts it.
LEMMA CopiedCutOff ==
    ASSUME TypeOK, Session, Copied, run.phase = "smtp", CutOff(run.reached),
           got' = got, mail' = mail, letters' = letters
    PROVE  Copied'
  <1>1. Current \in Posts /\ cutOff \in [Posts -> Nat] /\ Len(letters) \in Nat
    BY SessionOf DEF TypeOK
  <1>2. /\ \A p \in Posts : cutOff'[p] \in Nat /\ cutOff[p] <= cutOff'[p]
        /\ run.reached # {} => cutOff'[Current] = cutOff[Current] + 1
    BY <1>1 DEF CutOff, Current
  <1>3. ASSUME NEW p \in Posts, NEW r \in Recipients, Pending(p, r)'
        PROVE  Pending(p, r) \/ got[p][r] <= cutOff'[p]
    <2>1. PICK m \in Mails : Has(mail, m) /\ mail[m].state # "sent" /\ mail[m].msg = p /\ r \in On(mail, m)
      BY <1>3 DEF Pending, Has, On
    <2>2. CASE m = run.cur /\ r \in run.reached
      <3>1. cutOff'[p] = cutOff[p] + 1
        BY <1>2, <2>1, <2>2 DEF Current
      <3>2. got[p][r] <= 1 + cutOff[p] /\ got[p][r] \in Nat /\ cutOff[p] \in Nat
        BY DEF Copied, TypeOK
      <3> QED
        BY <3>1, <3>2
    <2>3. CASE ~(m = run.cur /\ r \in run.reached)
      BY <2>1, <2>3 DEF Pending
    <2> QED
      BY <2>2, <2>3
  <1>4. Len(letters') \in Nat /\ Len(letters) <= Len(letters')
    BY <1>1
  <1> QED
    BY <1>2, <1>3, <1>4, CopiedStep

\* The connection went after the message was accepted, and nothing was noted.
LEMMA CopiedDropped ==
    ASSUME TypeOK, Session, Kept4, Copied, run.phase = "smtp", NEW item \in Items, Deliver(item), CutOff(item),
           mail' = mail, letters' = letters
    PROVE  Copied'
  <1>1. /\ run.cur \in Mails /\ Has(mail, run.cur) /\ mail[run.cur].state = "exception"
        /\ item \subseteq On(mail, run.cur) /\ item \cap run.reached = {} /\ item # {}
        /\ Current \in 1..Len(letters) /\ Current \in Posts
    BY SessionOf
  <1>2. cutOff' = [cutOff EXCEPT ![Current] = @ + 1]
    BY <1>1 DEF CutOff, Current
  <1>3. cutOff \in [Posts -> Nat] /\ Len(letters) \in Nat
    BY DEF TypeOK
  <1> SUFFICES ASSUME NEW p \in Posts, NEW r \in Recipients
               PROVE  /\ got'[p][r] <= 1 + cutOff'[p]
                      /\ Pending(p, r)' => got'[p][r] <= cutOff'[p]
                      /\ p > Len(letters') => got'[p][r] = 0
    BY DEF Copied
  <1>4. /\ got[p][r] <= 1 + cutOff[p] /\ got[p][r] \in Nat /\ cutOff[p] \in Nat
        /\ Pending(p, r) => got[p][r] <= cutOff[p]
        /\ p > Len(letters) => got[p][r] = 0
    BY DEF Copied, TypeOK
  <1>5. got'[p][r] = IF p = Current /\ r \in item THEN got[p][r] + 1 ELSE got[p][r]
    BY DeliverTo
  <1>6. CASE p = Current
    <2>1. cutOff'[p] = cutOff[p] + 1
      BY <1>1, <1>2, <1>3, <1>6
    <2>2. ~(p > Len(letters))
      BY <1>1, <1>3, <1>6
    <2>3. r \in item => Pending(p, r)
      BY <1>1, <1>6 DEF Pending, Current
    <2> HIDE DEF Pending
    <2> QED
      BY <1>4, <1>5, <2>1, <2>2, <2>3
  <1>7. CASE p # Current
    <2>1. cutOff'[p] = cutOff[p]
      BY <1>2, <1>3, <1>7
    <2>2. Pending(p, r)' => Pending(p, r)
      <3>1. \A m \in Mails : mail[m].msg = p => m # run.cur
        BY <1>7 DEF Current
      <3> QED
        BY <3>1 DEF Pending, Has, On
    <2> HIDE DEF Pending
    <2> QED
      BY <1>4, <1>5, <1>7, <2>1, <2>2
  <1> QED
    BY <1>6, <1>7

LEMMA CopiedRunner ==
    ASSUME TypeOK, Session, Kept4, Copied, Runner
    PROVE  Copied'
  <1> USE DEF bounds, history, queue, tables, ids
  <1>1. /\ DOMAIN mail = Mails /\ \A m \in Mails : DOMAIN mail[m] = Fields
        /\ DOMAIN run = RunFields /\ (run.phase # "smtp" => run.reached = {})
        /\ \A p \in Posts : cutOff[p] \in Nat
        /\ Len(letters) \in Nat
    BY DEF TypeOK, TableOK, RowOK, RunOK, Session
  <1>2. CASE ConnectOk \/ EndBatch
    <2>1. mail' = mail /\ got' = got /\ cutOff' = cutOff /\ letters' = letters /\ run.reached = {}
      BY <1>1, <1>2 DEF ConnectOk, EndBatch
    <2> QED
      BY <2>1, CopiedRows
  <1>3. CASE ConnectFails
    <2>1. got' = got /\ cutOff' = cutOff /\ letters' = letters /\ run.reached = {}
      BY <1>1, <1>3 DEF ConnectFails
    <2>2. \A m \in ToSet(run.pending) : mail[m].state = "outgoing"
      BY <1>3 DEF ConnectFails, TypeOK, RunOK, ToSet
    <2>3. \A m \in Mails : /\ mail'[m].state # "none" /\ mail'[m].state # "sent" =>
                                mail[m].state # "none" /\ mail[m].state # "sent"
                           /\ mail'[m].msg = mail[m].msg
                           /\ mail'[m].to = mail[m].to /\ mail'[m].cc = mail[m].cc
      BY <1>1, <1>3, <2>2 DEF ConnectFails, Fields
    <2> QED
      BY <2>1, <2>3, CopiedRows DEF Has, On
  <1>4. CASE StartMail
    <2> DEFINE m == Head(run.pending)
    <2>1. /\ got' = got /\ cutOff' = cutOff /\ letters' = letters /\ run.reached = {}
          /\ \/ mail' = mail
             \/ mail[m].state = "outgoing" /\ mail' = [mail EXCEPT ![m].state = "exception"]
      BY <1>1, <1>4 DEF StartMail
    <2>2. CASE mail' = mail
      BY <2>1, <2>2, CopiedRows
    <2>3. CASE mail[m].state = "outgoing" /\ mail' = [mail EXCEPT ![m].state = "exception"]
      <3> HIDE DEF m
      <3>1. \A x \in Mails : /\ mail'[x].state # "none" /\ mail'[x].state # "sent" =>
                                  mail[x].state # "none" /\ mail[x].state # "sent"
                             /\ mail'[x].msg = mail[x].msg
                             /\ mail'[x].to = mail[x].to /\ mail'[x].cc = mail[x].cc
        BY <1>1, <2>3 DEF Fields
      <3> QED
        BY <2>1, <3>1, CopiedRows DEF Has, On
    <2> QED
      BY <2>1, <2>2, <2>3
  <1>5. CASE Accept
    BY <1>5, CopiedAccept
  <1>6. CASE Invalid
    <2>1. mail' = mail /\ got' = got /\ cutOff' = cutOff /\ letters' = letters
      BY <1>6 DEF Invalid
    <2>2. run'.cur = run.cur /\ run'.reached = run.reached
      BY <1>1, <1>6 DEF Invalid, After, RunFields
    <2>3. \A p \in Posts : \A r \in Recipients : Pending(p, r)' => Pending(p, r)
      BY <2>1, <2>2 DEF Pending, Has, On
    <2> QED
      BY <1>1, <2>1, <2>3, CopiedStep
  <1>7. CASE RefuseTemporarily \/ FailForGood
    <2>1. got' = got /\ cutOff' = cutOff /\ letters' = letters
      BY <1>7 DEF RefuseTemporarily, FailForGood
    <2>2. /\ run.cur \in Mails /\ Has(mail, run.cur) /\ mail[run.cur].state = "exception"
          /\ CutRow(mail'[run.cur])
          /\ \A m \in Mails \ {run.cur} : mail'[m] = mail[m]
      BY <1>7, CutTo, SessionOf
    <2>3. ASSUME NEW p \in Posts, NEW r \in Recipients, Pending(p, r)' PROVE Pending(p, r)
      <3>1. PICK m \in Mails : /\ Has(mail', m) /\ mail'[m].state # "sent"
                               /\ mail'[m].msg = p /\ r \in On(mail', m)
        BY <2>3 DEF Pending, On
      <3>2. CASE m = run.cur
        <4>1. mail'[m].msg = mail[m].msg /\ r \in On(mail, m) /\ r \notin run.reached
          BY <2>2, <3>1, <3>2 DEF CutRow, LeftTo, LeftCc, On
        <4> QED
          BY <2>2, <3>1, <3>2, <4>1 DEF Pending
      <3>3. CASE m # run.cur
        <4>1. mail'[m] = mail[m]
          BY <2>2, <3>3
        <4> QED
          BY <3>1, <3>3, <4>1 DEF Pending, Has, On
      <3> QED
        BY <3>2, <3>3
    <2> QED
      BY <1>1, <2>1, <2>3, CopiedStep
  <1>8. CASE FailAfterInvalid
    <2>1. run.phase = "smtp" /\ CutOff(run.reached) /\ got' = got /\ mail' = mail /\ letters' = letters
      BY <1>8 DEF FailAfterInvalid, Sending
    <2> QED
      BY <2>1, CopiedCutOff
  <1>9. CASE Drop
    <2>1. run.phase = "smtp" /\ mail' = mail /\ letters' = letters
      BY <1>9 DEF Drop, Sending
    <2>2. CASE CutOff(run.reached) /\ got' = got
      BY <2>1, <2>2, CopiedCutOff
    <2>3. CASE \E item \in Items : Deliver(item) /\ CutOff(item)
      BY <2>1, <2>3, CopiedDropped
    <2> QED
      BY <1>9, <2>2, <2>3 DEF Drop
  <1>10. CASE FinishMail
    <2>1. /\ run.phase = "smtp" /\ run.cur \in Mails
          /\ \/ run.reached = {} /\ mail' = mail
             \/ mail' = Sent
             \/ Left(Sent, {run.cur}, mail')
      BY <1>10, FinishTo
    <2>2. got' = got /\ cutOff' = cutOff /\ letters' = letters
      BY <1>10 DEF FinishMail
    <2>3. CASE run.reached = {} /\ mail' = mail
      BY <2>2, <2>3, CopiedRows
    <2>4. CASE mail' = Sent \/ Left(Sent, {run.cur}, mail')
      <3>1. /\ Sent[run.cur].state = "sent"
            /\ \A m \in Mails \ {run.cur} : Sent[m] = mail[m]
        BY <1>1, <2>1 DEF Sent, Fields
      <3>2. /\ ~(Has(mail', run.cur) /\ mail'[run.cur].state # "sent")
            /\ \A m \in Mails \ {run.cur} : /\ mail'[m].state = mail[m].state /\ mail'[m].msg = mail[m].msg
                                            /\ mail'[m].to = mail[m].to /\ mail'[m].cc = mail[m].cc
        <4>1. CASE mail' = Sent
          BY <3>1, <4>1
        <4>2. CASE Left(Sent, {run.cur}, mail')
          <5>1. /\ \A m \in {run.cur} : mail'[m] = NoMail
                /\ \A m \in Mails \ {run.cur} : /\ mail'[m].state = Sent[m].state /\ mail'[m].msg = Sent[m].msg
                                                /\ mail'[m].to = Sent[m].to /\ mail'[m].cc = Sent[m].cc
            BY <4>2, Zenon DEF Left
          <5>2. NoMail.state = "none"
            BY DEF NoMail
          <5> QED
            BY <3>1, <5>1, <5>2 DEF Has
        <4> QED
          BY <2>4, <4>1, <4>2
      <3>3. ASSUME NEW p \in Posts, NEW r \in Recipients, Pending(p, r)' PROVE Pending(p, r)
        <4>1. PICK m \in Mails : /\ Has(mail', m) /\ mail'[m].state # "sent"
                                 /\ mail'[m].msg = p /\ r \in On(mail', m)
          BY <3>3 DEF Pending, On
        <4>2. m # run.cur
          BY <3>2, <4>1
        <4> QED
          BY <3>2, <4>1, <4>2 DEF Pending, Has, On
      <3> QED
        BY <1>1, <2>2, <3>3, CopiedStep
    <2> QED
      BY <2>1, <2>3, <2>4
  <1>11. CASE StopBatch
    <2>1. got' = got /\ cutOff' = cutOff /\ letters' = letters /\ run.reached = {}
      BY <1>1, <1>11 DEF StopBatch
    <2>2. \A m \in Mails : Redated(mail'[m], mail[m])
      BY <1>11, StopTo
    <2> QED
      BY <2>1, <2>2, CopiedRows DEF Redated, Has, On
  <1> QED
    BY <1>2, <1>3, <1>4, <1>5, <1>6, <1>7, <1>8, <1>9, <1>10, <1>11 DEF Runner

LEMMA CopiedUsers ==
    ASSUME TypeOK, Copied, Users
    PROVE  Copied'
  <1> USE DEF bounds, history
  <1>1. /\ DOMAIN mail = Mails /\ \A m \in Mails : DOMAIN mail[m] = Fields
        /\ \A p \in Posts : cutOff[p] \in Nat
        /\ Len(letters) \in Nat
    BY DEF TypeOK, TableOK, RowOK
  <1>2. ASSUME got' = got, cutOff' = cutOff, letters' = letters, run' = run,
               \A m \in Mails : Has(mail', m) /\ mail'[m].state # "sent" =>
                  /\ Has(mail, m) /\ mail[m].state # "sent"
                  /\ mail'[m].msg = mail[m].msg /\ On(mail', m) = On(mail, m)
        PROVE  Copied'
    <2>1. \A p \in Posts : \A r \in Recipients : Pending(p, r)' => Pending(p, r)
      BY <1>2 DEF Pending, On
    <2> QED
      BY <1>1, <1>2, <2>1, CopiedStep
  <1>3. ASSUME NEW l \in Letters, Post(l) PROVE Copied'
    <2>1. got' = got /\ cutOff' = cutOff /\ run' = run
      BY <1>3 DEF Post
    <2>2. /\ mail'[made'].msg = Len(letters') /\ Len(letters') = Len(letters) + 1
          /\ \A m \in Mails \ {made'} : mail'[m] = mail[m]
      BY <1>3, PostTo
    <2>3. ASSUME NEW p \in Posts, NEW r \in Recipients, Pending(p, r)'
          PROVE  Pending(p, r) \/ got[p][r] <= cutOff'[p]
      <3>1. PICK m \in Mails : /\ Has(mail', m) /\ mail'[m].state # "sent"
                               /\ mail'[m].msg = p /\ r \in On(mail', m)
                               /\ ~(m = run.cur /\ r \in run.reached)
        BY <2>1, <2>3 DEF Pending, On
      <3>2. CASE m = made'
        <4>1. p > Len(letters)
          BY <1>1, <2>2, <3>1, <3>2
        <4>2. got[p][r] = 0 /\ cutOff'[p] \in Nat
          BY <1>1, <2>1, <4>1 DEF Copied
        <4> QED
          BY <4>2
      <3>3. CASE m # made'
        BY <2>2, <3>1, <3>3 DEF Pending, Has, On
      <3> QED
        BY <3>2, <3>3
    <2>4. Len(letters') \in Nat /\ Len(letters) <= Len(letters')
      BY <1>1, <2>2
    <2>5. \A p \in Posts : cutOff'[p] \in Nat /\ cutOff[p] <= cutOff'[p]
      BY <1>1, <2>1
    <2> QED
      BY <2>1, <2>3, <2>4, <2>5, CopiedStep
  <1>4. CASE SendNow
    <2>1. got' = got /\ cutOff' = cutOff /\ letters' = letters /\ run' = run /\ mail' = mail
      BY <1>4 DEF SendNow
    <2> QED
      BY <1>2, <2>1
  <1>5. ASSUME NEW m \in Mails, Retry(m) \/ Cancel(m) PROVE Copied'
    <2>1. /\ got' = got /\ cutOff' = cutOff /\ letters' = letters /\ run' = run
          /\ mail[m].state \in {"outgoing", "exception", "cancel"}
          /\ \/ mail' = [mail EXCEPT ![m].state = "outgoing", ![m].retries = 0]
             \/ mail' = [mail EXCEPT ![m].state = "cancel"]
      BY <1>5 DEF Retry, Cancel
    <2>2. \A x \in Mails \ {m} : mail'[x] = mail[x]
      BY <1>1, <2>1
    <2>3. mail'[m].msg = mail[m].msg /\ mail'[m].to = mail[m].to /\ mail'[m].cc = mail[m].cc
      <3>1. CASE mail' = [mail EXCEPT ![m].state = "outgoing", ![m].retries = 0]
        BY <1>1, <3>1 DEF Fields
      <3>2. CASE mail' = [mail EXCEPT ![m].state = "cancel"]
        BY <1>1, <3>2 DEF Fields
      <3> QED
        BY <2>1, <3>1, <3>2
    <2>4. ASSUME NEW x \in Mails, Has(mail', x), mail'[x].state # "sent"
          PROVE  /\ Has(mail, x) /\ mail[x].state # "sent"
                 /\ mail'[x].msg = mail[x].msg /\ On(mail', x) = On(mail, x)
      <3>1. CASE x = m
        BY <2>1, <2>3, <3>1 DEF Has, On
      <3>2. CASE x # m
        BY <2>2, <2>4, <3>2 DEF Has, On
      <3> QED
        BY <3>1, <3>2
    <2> QED
      BY <1>2, <2>1, <2>4
  <1>6. ASSUME NEW S \in SUBSET Mails, Delete(S) PROVE Copied'
    <2>1. got' = got /\ cutOff' = cutOff /\ letters' = letters /\ run' = run
      BY <1>6 DEF Delete
    <2>2. Left(mail, S, mail')
      BY <1>6, DeleteTo
    <2>3. /\ \A m \in S : mail'[m] = NoMail
          /\ \A m \in Mails \ S : /\ mail'[m].state = mail[m].state /\ mail'[m].msg = mail[m].msg
                                  /\ mail'[m].to = mail[m].to /\ mail'[m].cc = mail[m].cc
      BY <2>2, Zenon DEF Left
    <2>4. NoMail.state = "none"
      BY DEF NoMail
    <2> QED
      BY <1>2, <2>1, <2>3, <2>4 DEF Has, On
  <1> QED
    BY <1>3, <1>4, <1>5, <1>6 DEF Users

\* What a rollback brings back was pending, or is counted as cut off.
LEMMA CopiedCrash ==
    ASSUME TypeOK, Session, Kept4, Copied, Crash
    PROVE  Copied'
  <1>1. /\ mail' = saved.mail /\ got' = got /\ letters' = letters /\ run' = Idle
        /\ IF run.cur = 0 THEN cutOff' = cutOff ELSE CutOff(run.reached)
    BY DEF Crash
  <1>2. cutOff \in [Posts -> Nat] /\ Len(letters) \in Nat
    BY DEF TypeOK
  <1>3. run.phase # "smtp" => run.cur = 0 /\ run.reached = {}
    BY DEF TypeOK, RunOK, Session
  <1>4. run.phase = "smtp" => Current \in Posts /\ run.cur # 0
    <2>1. run.phase = "smtp" => Current \in Posts /\ run.cur \in Mails
      BY SessionOf
    <2> QED
      BY <2>1, Numbers
  <1>5. /\ \A p \in Posts : cutOff'[p] \in Nat /\ cutOff[p] <= cutOff'[p]
        /\ run.reached # {} => cutOff'[Current] = cutOff[Current] + 1
    <2>1. CASE run.phase = "smtp"
      <3>1. CutOff(run.reached) /\ Current \in Posts
        BY <1>1, <1>4, <2>1
      <3> QED
        BY <1>2, <3>1 DEF CutOff, Current
    <2>2. CASE run.phase # "smtp"
      BY <1>1, <1>2, <1>3, <2>2
    <2> QED
      BY <2>1, <2>2
  <1>6. ASSUME NEW p \in Posts, NEW r \in Recipients, Pending(p, r)'
        PROVE  Pending(p, r) \/ got[p][r] <= cutOff'[p]
    <2>1. PICK m \in Mails : /\ Has(saved.mail, m) /\ saved.mail[m].state # "sent"
                             /\ saved.mail[m].msg = p /\ r \in On(saved.mail, m)
      BY <1>1, <1>6 DEF Pending, Has, On
    <2>2. PICK x \in Mails : /\ Has(mail, x) /\ mail[x].state # "sent"
                             /\ mail[x].msg = p /\ r \in On(mail, x)
      BY <2>1 DEF Kept4, Synced
    <2>3. CASE x = run.cur /\ r \in run.reached
      <3>1. cutOff'[p] = cutOff[p] + 1
        BY <1>5, <2>2, <2>3 DEF Current
      <3>2. got[p][r] <= 1 + cutOff[p] /\ got[p][r] \in Nat /\ cutOff[p] \in Nat
        BY DEF Copied, TypeOK
      <3> QED
        BY <3>1, <3>2
    <2>4. CASE ~(x = run.cur /\ r \in run.reached)
      BY <2>2, <2>4 DEF Pending
    <2> QED
      BY <2>3, <2>4
  <1>7. Len(letters') \in Nat /\ Len(letters) <= Len(letters')
    BY <1>1, <1>2
  <1> QED
    BY <1>1, <1>5, <1>6, <1>7, CopiedStep

LEMMA CopiedNext == TypeOK /\ Session /\ Kept4 /\ Copied /\ [Next]_vars => Copied'
  <1> SUFFICES ASSUME TypeOK, Session, Kept4, Copied, [Next]_vars PROVE Copied'
    OBVIOUS
  <1>1. ASSUME UNCHANGED <<mail, run, letters, got, cutOff>> PROVE Copied'
    BY <1>1 DEF Copied, Pending, Has, On
  <1>2. CASE Tick
    BY <1>1, <1>2 DEF Tick, queue, tables, bounds
  <1>3. CASE TriggeredRun \/ RegularRun
    BY <1>3, CopiedTake DEF TriggeredRun, RegularRun
  <1>4. CASE UNCHANGED vars
    BY <1>1, <1>4 DEF vars, queue, tables, bounds, history
  <1> QED
    BY <1>2, <1>3, <1>4, CopiedRunner, CopiedUsers, CopiedCrash DEF Next

LEMMA CopiedInit == Init => Copied
  <1> SUFFICES ASSUME Init PROVE Copied
    OBVIOUS
  <1>1. \A p \in Posts : cutOff[p] = 0 /\ \A r \in Recipients : got[p][r] = 0
    BY DEF Init
  <1> QED
    BY <1>1 DEF Copied

\* No recipient gets a second copy of a letter, except one for each send that ended with
\* the recipients it reached still on the mail (mail_mail.py:15-20, 222-288).
THEOREM NoSecondCopyAlways == Spec => []NoSecondCopy
  <1>1. Init => TypeOK /\ Session /\ Kept4 /\ Copied
    BY TypeInit, KeptInit, CopiedInit
  <1>2. TypeOK /\ Session /\ Kept4 /\ Copied /\ [Next]_vars => (TypeOK /\ Session /\ Kept4 /\ Copied)'
    BY TypeNext, SessionNext, KeptNext, CopiedNext
  <1>3. Copied => NoSecondCopy
    BY DEF Copied, NoSecondCopy
  <1> QED
    BY <1>1, <1>2, <1>3, PTL DEF Spec

-----------------------------------------------------------------------------
(* The queue implements Pacing: each batch is counted before it is sent, its *)
(* slot counts at least the messages it sends, and an error counts a full    *)
(* window.                                                                   *)

\* Where a batch is under way.
Sessions == {"connect", "batch", "smtp"}

\* Whom the runner is still to send to: everyone on the mails ahead of it, and whom it has
\* not tried of the mail in hand.
Ahead(r, t) ==
    {u \in Mails \X Recipients :
        \/ (\E k \in DOMAIN r.pending : r.pending[k] = u[1]) /\ u[2] \in On(t, u[1])
        \/ u[1] = r.cur /\ u[2] \in r.cc \cup r.to}

\* A mail is taken once, and its row is there or was.
Once(r) ==
    /\ \A j, k \in DOMAIN r.pending : r.pending[j] = r.pending[k] => j = k
    /\ \A k \in DOMAIN r.pending : r.pending[k] \in 1..made /\ r.pending[k] # r.cur

\* The messages counted for the batch and not tried yet are enough for whom it is still to
\* be sent to.
Credited(r, t) ==
    /\ r.credit \in Nat
    /\ r.phase \notin Sessions => r.batch = 0 /\ r.credit = 0
    /\ r.phase \in Sessions => r.batch # 0 /\ Cardinality(Ahead(r, t)) <= r.credit

\* The slot log is finite, and the provider's window a function.
Logged ==
    /\ lastId \in Nat
    /\ IsFiniteSet(UNION {Messages(s) : s \in slots})
    /\ accepted = [u \in DOMAIN accepted |-> accepted[u]]

PaceInv == Once(run) /\ Credited(run, mail) /\ Logged

-----------------------------------------------------------------------------
(* What a batch costs *)

LEMMA Finite ==
    /\ IsFiniteSet(Recipients) /\ IsFiniteSet(Mails) /\ Cardinality(Recipients) \in Nat
    /\ \A S \in SUBSET (Mails \X Recipients) : IsFiniteSet(S) /\ Cardinality(S) \in Nat
    /\ \A S \in SUBSET Recipients : IsFiniteSet(S) /\ Cardinality(S) \in 0..Cardinality(Recipients)
  <1>1. IsFiniteSet(Recipients)
    BY QueueAssumption DEF Recipients
  <1>2. IsFiniteSet(Mails)
    BY Numbers, FS_Interval DEF Mails
  <1>3. IsFiniteSet(Mails \X Recipients)
    BY <1>1, <1>2, FS_Product
  <1>4. Cardinality(Recipients) \in Nat
    BY <1>1, FS_CardinalityType
  <1>5. ASSUME NEW S \in SUBSET (Mails \X Recipients) PROVE IsFiniteSet(S) /\ Cardinality(S) \in Nat
    BY <1>3, FS_Subset, FS_CardinalityType
  <1>6. ASSUME NEW S \in SUBSET Recipients
        PROVE  IsFiniteSet(S) /\ Cardinality(S) \in 0..Cardinality(Recipients)
    <2>1. IsFiniteSet(S) /\ Cardinality(S) <= Cardinality(Recipients)
      BY <1>1, FS_Subset
    <2>2. Cardinality(S) \in Nat
      BY <2>1, FS_CardinalityType
    <2> QED
      BY <1>4, <2>1, <2>2
  <1> QED
    BY <1>1, <1>2, <1>4, <1>5, <1>6

\* A mail's messages are counted as pairs.
LEMMA PairsOf ==
    ASSUME NEW c \in Nat
    PROVE  Cardinality({1} \X (1..c)) = c
  <1>1. IsFiniteSet(1..c) /\ Cardinality(1..c) = c
    BY FS_Interval
  <1>2. IsFiniteSet({1}) /\ Cardinality({1}) = 1
    BY FS_Singleton
  <1>3. Cardinality({1} \X (1..c)) = 1 * c
    BY <1>1, <1>2, FS_Product
  <1> QED
    BY <1>3

\* Recipients of a row.
LEMMA OnRow ==
    ASSUME TypeOK, NEW m \in Mails
    PROVE  /\ mail[m].to \in SUBSET Recipients /\ mail[m].cc \in SUBSET Recipients
           /\ mail[m].to \cap mail[m].cc = {} /\ On(mail, m) \in SUBSET Recipients
  BY Numbers DEF TypeOK, TableOK, RowOK, Recipients, On

\* A mail costs a message per recipient, and at least one.
LEMMA CostOf ==
    ASSUME TypeOK, NEW m \in Mails
    PROVE  /\ Cost(mail, m) \in 1..(1 + Cardinality(Recipients))
           /\ Cardinality(On(mail, m)) <= Cost(mail, m)
           /\ Cardinality(On(mail, m)) = Cardinality(mail[m].to) + Cardinality(mail[m].cc)
           /\ Cost(mail, m) <= Limit + Cardinality(Recipients)
  <1> DEFINE to == mail[m].to
             cc == mail[m].cc
             n == Cardinality(to) + Cardinality(cc)
  <1>1. to \in SUBSET Recipients /\ cc \in SUBSET Recipients /\ to \cap cc = {} /\ to \cup cc \in SUBSET Recipients
    BY OnRow DEF On
  <1>2. IsFiniteSet(to) /\ IsFiniteSet(cc) /\ Cardinality(to) \in Nat /\ Cardinality(cc) \in Nat
    BY <1>1, Finite
  <1>3. Cardinality(to \cup cc) = n
    <2>1. Cardinality(to \cap cc) = 0
      BY <1>1, FS_EmptySet
    <2>2. Cardinality(to \cup cc) = Cardinality(to) + Cardinality(cc) - Cardinality(to \cap cc)
      BY <1>2, FS_Union
    <2> HIDE DEF to, cc
    <2> QED
      BY <1>2, <2>1, <2>2
  <1>4. n \in 0..Cardinality(Recipients) /\ Cardinality(Recipients) \in Nat
    BY <1>1, <1>3, Finite
  <1>5. Cost(mail, m) = IF n = 0 THEN 1 ELSE n
    BY DEF Cost
  <1>6. On(mail, m) = to \cup cc
    BY DEF On
  <1>7. Limit \in Nat /\ Limit > 0
    BY RateAssumption
  <1> HIDE DEF n
  <1>8. /\ Cost(mail, m) \in 1..(1 + Cardinality(Recipients)) /\ n <= Cost(mail, m)
        /\ Cost(mail, m) <= Limit + Cardinality(Recipients)
    BY <1>4, <1>5, <1>7
  <1> QED
    BY <1>3, <1>6, <1>8 DEF n

\* The due mails are in the line once.
LEMMA LineOnce == \A j, k \in 1..Len(Line) : Line[j] = Line[k] => j = k
  <1>1. Due \in SUBSET (1..MaxMails) /\ MaxMails \in Nat
    BY QueueAssumption DEF Due, Mails
  <1>2. Cardinality(Due) \in Nat
    <2>1. IsFiniteSet(1..MaxMails)
      BY <1>1, FS_Interval
    <2> QED
      BY <1>1, <2>1, FS_Subset, FS_CardinalityType
  <1> DEFINE Below(m) == Cardinality({x \in Due : x < m})
             Kth(k) == CHOOSE m \in Due : Below(m) = k - 1
  <1>3. \A k \in 1..Cardinality(Due) : Below(Kth(k)) = k - 1
    BY <1>1, KthExists
  <1>4. Line = [k \in 1..Cardinality(Due) |-> Kth(k)]
    BY DEF Line
  <1> HIDE DEF Kth, Below
  <1>5. Len(Line) = Cardinality(Due)
    BY <1>2, <1>4
  <1> QED
    BY <1>2, <1>3, <1>4, <1>5

\* Whom the first k mails of the line go to.
GoTo(k) == {u \in Mails \X Recipients : \E i \in 1..k : Line[i] = u[1] /\ u[2] \in On(mail, u[1])}

\* The first k mails cost something, at least as much as there are people they go to.
LEMMA SpentOn ==
    ASSUME TypeOK, NEW k \in 0..Len(Line)
    PROVE  /\ Spent(k) \in Nat /\ (Spent(k) = 0 <=> k = 0)
           /\ Cardinality(GoTo(k)) <= Spent(k)
           /\ k = 1 => Spent(k) = Cost(mail, Line[1])
  <1>1. /\ Len(Line) \in Nat /\ k \in Nat
        /\ \A i \in 1..k : Line[i] \in Mails /\ i \in 1..Len(Line)
    <2>1. Line \in Seq(Due) /\ Due \in SUBSET Mails
      BY LineIsDue
    <2>2. Len(Line) \in Nat /\ \A i \in 1..Len(Line) : Line[i] \in Mails
      BY <2>1
    <2> QED
      BY <2>2
  <1> DEFINE C == [i \in 1..k |-> {i} \X (1..Cost(mail, Line[i]))]
             All == UNION {{i} \X (1..Cost(mail, Line[i])) : i \in 1..k}
  <1>2. \A i \in 1..k : Cost(mail, Line[i]) \in Nat /\ Cost(mail, Line[i]) >= 1
    <2>1. Cardinality(Recipients) \in Nat
      BY Finite
    <2> QED
      BY <1>1, <2>1, CostOf
  <1>3. IsFiniteSet(All)
    <2>1. IsFiniteSet(1..k)
      BY <1>1, FS_Interval
    <2>2. C \in Surjection(1..k, {C[i] : i \in 1..k})
      BY DEF Surjection
    <2>3. IsFiniteSet({C[i] : i \in 1..k})
      BY <2>1, <2>2, FS_Surjection
    <2>4. \A i \in 1..k : IsFiniteSet(C[i])
      <3>1. ASSUME NEW i \in 1..k PROVE IsFiniteSet({i} \X (1..Cost(mail, Line[i])))
        <4> DEFINE c == Cost(mail, Line[i])
        <4>1. c \in Int
          BY <1>2
        <4>2. IsFiniteSet({i})
          BY FS_Singleton
        <4> HIDE DEF c
        <4>3. IsFiniteSet(1..c)
          BY <4>1, FS_Interval
        <4> QED
          BY <4>2, <4>3, FS_Product DEF c
      <3> QED
        BY <3>1
    <2>5. \A T \in {C[i] : i \in 1..k} : IsFiniteSet(T)
      BY <2>4
    <2>6. IsFiniteSet(UNION {C[i] : i \in 1..k})
      BY <2>3, <2>5, FS_UNION
    <2>7. All = UNION {C[i] : i \in 1..k}
      OBVIOUS
    <2> QED
      BY <2>6, <2>7
  <1>4. Spent(k) = Cardinality(All)
    BY DEF Spent
  <1>5. Spent(k) = 0 <=> k = 0
    <2>1. CASE k = 0
      BY <1>4, <2>1, FS_EmptySet
    <2>2. CASE k # 0
      <3>1. <<1, 1>> \in All
        BY <1>1, <1>2, <2>2
      <3> QED
        BY <1>3, <1>4, <2>2, <3>1, FS_EmptySet
    <2> QED
      BY <2>1, <2>2
  <1>6. Cardinality(GoTo(k)) <= Spent(k)
    <2> DEFINE place(m) == CHOOSE i \in 1..k : Line[i] = m
               num(m) == CHOOSE g \in [On(mail, m) -> 1..Cardinality(On(mail, m))] :
                            \A x, y \in On(mail, m) : g[x] = g[y] => x = y
               f == [u \in GoTo(k) |-> <<place(u[1]), num(u[1])[u[2]]>>]
    <2>1. ASSUME NEW u \in GoTo(k)
          PROVE  /\ place(u[1]) \in 1..k /\ Line[place(u[1])] = u[1]
                 /\ u[1] \in Mails /\ u[2] \in On(mail, u[1]) /\ u = <<u[1], u[2]>>
      <3>1. \E i \in 1..k : Line[i] = u[1]
        BY DEF GoTo
      <3> QED
        BY <3>1 DEF GoTo
    <2>2. ASSUME NEW m \in Mails
          PROVE  /\ num(m) \in [On(mail, m) -> 1..Cardinality(On(mail, m))]
                 /\ \A x, y \in On(mail, m) : num(m)[x] = num(m)[y] => x = y
      <3>1. IsFiniteSet(On(mail, m))
        BY OnRow, Finite
      <3>2. ExistsBijection(1..Cardinality(On(mail, m)), On(mail, m))
        BY <3>1, FS_CardinalityType
      <3>3. PICK h : h \in Bijection(1..Cardinality(On(mail, m)), On(mail, m))
        BY <3>2 DEF ExistsBijection
      <3> DEFINE g == [x \in On(mail, m) |-> CHOOSE i \in 1..Cardinality(On(mail, m)) : h[i] = x]
      <3>4. \A x \in On(mail, m) : \E i \in 1..Cardinality(On(mail, m)) : h[i] = x
        BY <3>3 DEF Bijection, Surjection
      <3>5. \A x \in On(mail, m) : g[x] \in 1..Cardinality(On(mail, m)) /\ h[g[x]] = x
        BY <3>4
      <3>6. g \in [On(mail, m) -> 1..Cardinality(On(mail, m))]
        BY <3>5
      <3> HIDE DEF g
      <3>7. \A x, y \in On(mail, m) : g[x] = g[y] => x = y
        BY <3>5
      <3> QED
        BY <3>6, <3>7
    <2> HIDE DEF place, num
    <2>3. ASSUME NEW u \in GoTo(k) PROVE f[u] \in All
      <3>1. num(u[1])[u[2]] \in 1..Cardinality(On(mail, u[1]))
        BY <2>1, <2>2
      <3>2. Cardinality(On(mail, u[1])) <= Cost(mail, u[1]) /\ Cardinality(On(mail, u[1])) \in Nat
        BY <2>1, CostOf, OnRow, Finite
      <3>3. Cost(mail, u[1]) \in Nat
        BY <1>2, <2>1
      <3>4. num(u[1])[u[2]] \in 1..Cost(mail, Line[place(u[1])])
        BY <2>1, <3>1, <3>2, <3>3
      <3> QED
        BY <2>1, <3>4
    <2>4. ASSUME NEW u \in GoTo(k), NEW v \in GoTo(k), f[u] = f[v] PROVE u = v
      <3>1. place(u[1]) = place(v[1]) /\ num(u[1])[u[2]] = num(v[1])[v[2]]
        BY <2>4
      <3>2. u[1] = v[1]
        BY <2>1, <3>1
      <3>3. u[2] = v[2]
        BY <2>1, <2>2, <3>1, <3>2
      <3> QED
        BY <2>1, <3>2, <3>3
    <2>5. f \in Injection(GoTo(k), All)
      <3>1. f \in [GoTo(k) -> All]
        BY <2>3
      <3>2. \A u, v \in GoTo(k) : f[u] = f[v] => u = v
        BY <2>4
      <3> HIDE DEF f, All
      <3> QED
        BY <3>1, <3>2, Fun_IsInj
    <2> HIDE DEF f, All
    <2> QED
      BY <1>3, <1>4, <2>5, FS_Injection
  <1>7. k = 1 => Spent(k) = Cost(mail, Line[1])
    <2> SUFFICES ASSUME k = 1 PROVE Spent(k) = Cost(mail, Line[1])
      OBVIOUS
    <2> DEFINE c == Cost(mail, Line[1])
    <2>1. All = {1} \X (1..c)
      OBVIOUS
    <2>2. c \in Nat
      BY <1>2
    <2> HIDE DEF c, All
    <2>3. Cardinality({1} \X (1..c)) = c
      BY ONLY <2>2, PairsOf
    <2> QED
      BY <1>4, <2>1, <2>3 DEF c
  <1>8. Spent(k) \in Nat
    BY <1>3, <1>4, FS_CardinalityType
  <1> QED
    BY <1>5, <1>6, <1>7, <1>8

-----------------------------------------------------------------------------
(* Taking a batch *)

\* A batch of mails, each once and with a row, that goes to at most n recipients.
GoesTo(batch, t) ==
    {u \in Mails \X Recipients : \E k \in DOMAIN batch : batch[k] = u[1] /\ u[2] \in On(t, u[1])}

Batch(batch, n, t, rows) ==
    /\ batch \in Seq(Mails)
    /\ \A j, k \in DOMAIN batch : batch[j] = batch[k] => j = k
    /\ \A k \in DOMAIN batch : batch[k] \in 1..rows
    /\ Cardinality(GoesTo(batch, t)) <= n

\* A batch that is counted as n messages, for which there is room.
Counts(n, batch) ==
    /\ n \in 1..(Limit + Cardinality(Recipients))
    /\ n <= Limit - Used(slots, now) \/ Used(slots, now) = 0
    /\ slots' = slots \cup {[id |-> lastId + 1, at |-> now, count |-> n]}
    /\ lastId' = lastId + 1
    /\ run' = [Idle EXCEPT !.phase = "connect", !.batch = lastId + 1, !.credit = n, !.pending = batch]
    /\ Batch(batch, n, mail', made')

LEMMA UsedNat == Logged => Used(slots, now) \in Nat
  <1> SUFFICES ASSUME Logged PROVE Used(slots, now) \in Nat
    OBVIOUS
  <1>1. Counted(slots, now) \subseteq UNION {Messages(s) : s \in slots}
    BY DEF Counted, InWindow
  <1>2. IsFiniteSet(Counted(slots, now))
    BY <1>1, FS_Subset DEF Logged
  <1> QED
    BY <1>2, FS_CardinalityType DEF Used

\* Handing a batch on counts it.
LEMMA HandCounts ==
    ASSUME TypeOK, NEW table, NEW rows, NEW batch \in Seq(Mails), NEW spent \in Nat, NEW deferred,
           \A m \in Mails : DOMAIN table[m] = Fields,
           \A k \in DOMAIN batch : table[batch[k]].state = "outgoing",
           Hand(table, rows, batch, spent, deferred),
           batch = <<>> <=> spent = 0,
           batch # <<>> =>
               /\ spent <= Limit + Cardinality(Recipients)
               /\ spent <= Limit - Used(slots, now) \/ Used(slots, now) = 0
               /\ Batch(batch, spent, table, made + rows)
    PROVE  \/ run' = Idle /\ slots' = slots /\ lastId' = lastId
           \/ Counts(spent, batch)
  <1>1. /\ slots' = Consumed(spent) /\ lastId' = NextSlot(spent) /\ made' = made + rows
        /\ run' = IF batch = <<>> THEN Idle
                  ELSE [Idle EXCEPT !.phase = "connect", !.batch = lastId', !.credit = spent,
                                    !.pending = batch]
    BY DEF Hand
  <1>2. CASE batch = <<>>
    BY <1>1, <1>2 DEF Consumed, NextSlot
  <1>3. CASE batch # <<>>
    <2>1. \A m \in Mails : On(mail', m) = On(table, m)
      <3>1. Handed(table, rows, batch)
        BY HandTo
      <3>2. \A m \in Mails : Redated(mail'[m], table[m])
        BY <3>1 DEF Handed
      <3> QED
        BY <3>2 DEF Redated, On
    <2>2. GoesTo(batch, mail') = GoesTo(batch, table)
      BY <2>1 DEF GoesTo
    <2>3. Batch(batch, spent, mail', made')
      BY <1>1, <1>3, <2>2 DEF Batch
    <2>4. spent > 0
      BY <1>3
    <2>5. slots' = slots \cup {[id |-> lastId + 1, at |-> now, count |-> spent]} /\ lastId' = lastId + 1
      BY <1>1, <2>4 DEF Consumed, NextSlot
    <2>6. run' = [Idle EXCEPT !.phase = "connect", !.batch = lastId + 1, !.credit = spent, !.pending = batch]
      BY <1>1, <1>3, <2>5
    <2>7. spent \in 1..(Limit + Cardinality(Recipients))
      BY <1>3, <2>4, Finite, RateAssumption
    <2> QED
      BY <1>3, <2>3, <2>5, <2>6, <2>7 DEF Counts
  <1> QED
    BY <1>2, <1>3

\* A run that takes a batch counts it, and there is room for it.
LEMMA TakeCounts ==
    ASSUME TypeOK, Logged, Take
    PROVE  \/ run' = Idle /\ slots' = slots /\ lastId' = lastId
           \/ \E n, batch : Counts(n, batch)
  <1>1. /\ Line \in Seq(Due) /\ Due \in SUBSET Mails /\ DOMAIN Line = 1..Len(Line) /\ Len(Line) \in Nat
        /\ Fitting \in 0..Len(Line)
        /\ \A m \in Mails : DOMAIN mail[m] = Fields
        /\ \A m \in Due : mail[m].state = "outgoing"
        /\ \A k \in 1..Len(Line) : Line[k] \in Due /\ Line[k] \in Mails
    BY LineIsDue DEF Due, TypeOK, TableOK, RowOK
  <1>2. made \in Nat /\ \A m \in Due : m \in 1..made
    <2>1. made \in Nat /\ \A m \in Due : m <= made /\ m \in Nat /\ m # 0
      BY <1>1, Numbers DEF TypeOK, TableOK, RowOK
    <2> QED
      BY <2>1
  <1>3. Used(slots, now) \in Nat /\ Limit \in Nat /\ Limit > 0 /\ Cardinality(Recipients) \in Nat
    BY UsedNat, RateAssumption, Finite
  <1>4. Fitting = 0 \/ Spent(Fitting) <= Budget
    <2> DEFINE S == {0} \cup {k \in DOMAIN Line : Spent(k) <= Budget}
    <2>1. S \in SUBSET (0..Len(Line)) /\ S # {}
      BY <1>1
    <2>2. Max(S) \in S
      BY <1>1, <2>1, MaxOf
    <2> QED
      BY <2>2 DEF Fitting
  <1>5. Budget = Limit - Used(slots, now)
    BY DEF Budget
  <1>6. Spent(Fitting) \in Nat /\ (Spent(Fitting) = 0 <=> Fitting = 0)
    BY <1>1, SpentOn
  \* The first mails of the line, as many as k.
  <1>7. ASSUME NEW k \in 0..Len(Line)
        PROVE  LET b == SubSeq(Line, 1, k)
               IN  /\ b \in Seq(Mails) /\ Len(b) = k /\ \A i \in 1..k : b[i] = Line[i]
                   /\ \A i \in DOMAIN b : mail[b[i]].state = "outgoing"
                   /\ Batch(b, Spent(k), mail, made)
    <2> DEFINE b == SubSeq(Line, 1, k)
    <2>1. /\ b \in Seq(Mails) /\ Len(b) = k /\ DOMAIN b = 1..k
          /\ \A i \in 1..k : b[i] = Line[i] /\ i \in 1..Len(Line)
      <3>1. Line \in Seq(Mails)
        BY <1>1
      <3> QED
        BY <1>1, <3>1
    <2> HIDE DEF b
    <2>2. GoesTo(b, mail) = GoTo(k)
      BY <2>1 DEF GoesTo, GoTo
    <2>3. Cardinality(GoesTo(b, mail)) <= Spent(k)
      BY <2>2, SpentOn
    <2>4. \A i, j \in DOMAIN b : b[i] = b[j] => i = j
      BY <2>1, LineOnce
    <2>5. Batch(b, Spent(k), mail, made)
      BY <1>1, <1>2, <2>1, <2>3, <2>4 DEF Batch
    <2> QED
      BY <1>1, <2>1, <2>5 DEF b
  <1> DEFINE taken == SubSeq(Line, 1, Fitting)
  <1>8. ASSUME NEW deferred, Hand(mail, 0, taken, Spent(Fitting), deferred)
        PROVE  \/ run' = Idle /\ slots' = slots /\ lastId' = lastId
               \/ \E n, batch : Counts(n, batch)
    <2>1. /\ taken \in Seq(Mails) /\ Len(taken) = Fitting
          /\ \A i \in DOMAIN taken : mail[taken[i]].state = "outgoing"
          /\ Batch(taken, Spent(Fitting), mail, made)
      BY <1>1, <1>7
    <2> HIDE DEF taken
    <2>2. taken = <<>> <=> Spent(Fitting) = 0
      BY <1>6, <2>1
    <2>3. made + 0 = made
      BY <1>2
    <2>4. taken # <<>> =>
            /\ Spent(Fitting) <= Limit + Cardinality(Recipients)
            /\ Spent(Fitting) <= Limit - Used(slots, now) \/ Used(slots, now) = 0
            /\ Batch(taken, Spent(Fitting), mail, made + 0)
      BY <1>3, <1>4, <1>5, <1>6, <2>1, <2>2, <2>3
    <2> QED
      BY <1>1, <1>6, <1>8, <2>1, <2>2, <2>4, HandCounts
  \* A mail too large to split.
  <1>9. ASSUME Fitting < Len(Line), RoomLeft = Limit,
               NEW deferred, Hand(mail, 0, Append(taken, First), Spent(Fitting + 1), deferred)
        PROVE  \/ run' = Idle /\ slots' = slots /\ lastId' = lastId
               \/ \E n, batch : Counts(n, batch)
    <2>1. Fitting = 0 /\ Used(slots, now) = 0
      BY <1>3, <1>5, <1>6, <1>9 DEF RoomLeft
    <2>2. Fitting + 1 \in 0..Len(Line) /\ Fitting + 1 = 1
      BY <1>1, <1>9, <2>1
    <2> DEFINE batch == SubSeq(Line, 1, Fitting + 1)
    <2>3. /\ batch \in Seq(Mails) /\ Len(batch) = 1 /\ batch[1] = Line[1]
          /\ \A i \in DOMAIN batch : mail[batch[i]].state = "outgoing"
          /\ Batch(batch, Spent(Fitting + 1), mail, made)
      <3>1. 1 \in 1..(Fitting + 1)
        BY <2>2
      <3> QED
        BY <1>7, <2>2, <3>1
    <2>4. taken \in Seq(Mails) /\ Len(taken) = 0
      BY <1>1, <1>7, <2>1
    <2> HIDE DEF batch, taken
    <2>5. Append(taken, First) = batch
      BY <1>1, <2>1, <2>2, <2>3, <2>4 DEF First
    <2>6. Spent(Fitting + 1) = Cost(mail, Line[1]) /\ Spent(Fitting + 1) \in Nat /\ Spent(Fitting + 1) # 0
      BY <2>2, SpentOn
    <2>7. Line[1] \in Mails
      BY <1>1, <2>2
    <2>8. Spent(Fitting + 1) <= Limit + Cardinality(Recipients)
      BY <2>6, <2>7, CostOf
    <2>9. made + 0 = made /\ batch # <<>>
      <3>1. Len(batch) = 1
        BY <2>3
      <3> QED
        BY <1>2, <3>1
    <2>10. Hand(mail, 0, batch, Spent(Fitting + 1), deferred)
      BY <1>9, <2>5
    <2> QED
      BY <1>1, <2>1, <2>3, <2>6, <2>8, <2>9, <2>10, HandCounts
  \* A mail that is split, so that the batch takes all that is left.
  <1>10. ASSUME Fitting < Len(Line), RoomLeft > 0, CanSplit, made < MaxMails,
                NEW first \in kSubset(Kept, mail[First].to), NEW deferred,
                Hand(Split(first), 1, Append(taken, made + 1), Budget, deferred)
         PROVE  \/ run' = Idle /\ slots' = slots /\ lastId' = lastId
                \/ \E n, batch : Counts(n, batch)
    <2>1. First \in Due /\ First \in Mails /\ First # made + 1
      <3>1. First \in Due /\ First \in Mails
        BY <1>1, <1>10 DEF First
      <3> QED
        BY <1>2, <3>1
    <2>2. first \subseteq mail[First].to /\ Cardinality(first) = Kept
      BY <1>10 DEF kSubset
    <2>3. made + 1 \in Mails /\ made + 1 \in Nat
      BY <1>2, <1>10, Numbers DEF Mails
    <2> DEFINE t == Split(first)
               batch == Append(taken, made + 1)
               cc == mail[First].cc
               part == {made + 1} \X (first \cup cc)
    <2>4. /\ taken \in Seq(Mails) /\ Len(taken) = Fitting
          /\ \A i \in DOMAIN taken : mail[taken[i]].state = "outgoing"
          /\ Batch(taken, Spent(Fitting), mail, made)
      BY <1>1, <1>7
    <2>5. /\ \A m \in Mails : DOMAIN t[m] = Fields
          /\ \A m \in Mails : m # made + 1 => t[m].state = mail[m].state /\ On(t, m) \subseteq On(mail, m)
          /\ t[made + 1].state = mail[First].state /\ On(t, made + 1) = first \cup cc
      <3>1. DOMAIN mail = Mails /\ \A m \in Mails : DOMAIN mail[m] = Fields
        BY <1>1 DEF TypeOK, TableOK, RowOK
      <3>2. t[made + 1] = [mail[First] EXCEPT !.to = first, !.notif = TRUE, !.retries = 0]
        BY <2>1, <2>3, <3>1 DEF Split
      <3>3. t[First] = [mail[First] EXCEPT !.to = @ \ first, !.cc = {}]
        BY <2>1, <2>3, <3>1 DEF Split, Fields
      <3>4. \A m \in Mails : m # made + 1 /\ m # First => t[m] = mail[m]
        BY <2>3, <3>1 DEF Split
      <3> HIDE DEF t
      <3>5. /\ DOMAIN t[made + 1] = Fields /\ t[made + 1].state = mail[First].state
            /\ t[made + 1].to = first /\ t[made + 1].cc = cc
        BY <2>1, <3>1, <3>2 DEF Fields
      <3>6. /\ DOMAIN t[First] = Fields /\ t[First].state = mail[First].state
            /\ t[First].to \subseteq mail[First].to /\ t[First].cc = {}
        BY <2>1, <3>1, <3>3 DEF Fields
      <3>7. \A m \in Mails : DOMAIN t[m] = Fields
        BY <3>1, <3>4, <3>5, <3>6
      <3>8. \A m \in Mails : m # made + 1 => t[m].state = mail[m].state /\ On(t, m) \subseteq On(mail, m)
        BY <3>4, <3>6 DEF On
      <3>9. t[made + 1].state = mail[First].state /\ On(t, made + 1) = first \cup cc
        BY <3>5 DEF On
      <3> QED
        BY <3>7, <3>8, <3>9
    <2> HIDE DEF t, taken
    <2>6. /\ batch \in Seq(Mails) /\ DOMAIN batch = DOMAIN taken \cup {Fitting + 1}
          /\ \A i \in DOMAIN taken : batch[i] = taken[i] /\ i # Fitting + 1
          /\ batch[Fitting + 1] = made + 1
      <3>1. taken \in Seq(Mails) /\ Len(taken) = Fitting /\ Fitting \in Nat
        BY <1>1, <2>4
      <3> QED
        BY <2>3, <3>1
    <2> HIDE DEF batch
    <2>7. \A i \in DOMAIN taken : taken[i] \in 1..made /\ taken[i] # made + 1 /\ taken[i] \in 1..(made + 1)
      <3>1. \A i \in DOMAIN taken : taken[i] \in 1..made
        BY <2>4 DEF Batch
      <3> QED
        BY <1>2, <3>1
    <2>8. /\ \A i \in DOMAIN batch : t[batch[i]].state = "outgoing"
          /\ \A i, j \in DOMAIN batch : batch[i] = batch[j] => i = j
          /\ \A i \in DOMAIN batch : batch[i] \in 1..(made + 1)
      <3>1. \A i \in DOMAIN taken : taken[i] \in Mails /\ t[taken[i]].state = "outgoing"
        BY <2>4, <2>5, <2>7
      <3>2. t[made + 1].state = "outgoing"
        BY <1>1, <2>1, <2>5
      <3>3. \A i, j \in DOMAIN taken : taken[i] = taken[j] => i = j
        BY <2>4 DEF Batch
      <3>4. made + 1 \in 1..(made + 1)
        BY <1>2
      <3> QED
        BY <2>6, <2>7, <3>1, <3>2, <3>3, <3>4
    <2>9. Cardinality(GoesTo(batch, t)) <= Budget
      <3>1. GoesTo(batch, t) \subseteq GoesTo(taken, mail) \cup part
        BY <2>5, <2>6, <2>7 DEF GoesTo
      <3>2. first \in SUBSET Recipients /\ cc \in SUBSET Recipients
        BY <2>1, <2>2, OnRow
      <3>3. /\ IsFiniteSet(first) /\ IsFiniteSet(cc) /\ Cardinality(first) \in Nat /\ Cardinality(cc) \in Nat
        BY <3>2, Finite
      <3>4. IsFiniteSet(first \cup cc) /\ Cardinality(first \cup cc) <= Cardinality(first) + Cardinality(cc)
        <4>1. /\ IsFiniteSet(first \cup cc)
              /\ Cardinality(first \cup cc) = Cardinality(first) + Cardinality(cc) - Cardinality(first \cap cc)
          BY <3>3, FS_Union
        <4>2. Cardinality(first \cap cc) \in Nat
          BY <3>3, FS_Intersection, FS_CardinalityType
        <4> QED
          BY <3>3, <4>1, <4>2
      <3>5. IsFiniteSet(part) /\ Cardinality(part) = Cardinality(first \cup cc) /\ Cardinality(part) \in Nat
        <4>1. IsFiniteSet({made + 1}) /\ Cardinality({made + 1}) = 1
          BY FS_Singleton
        <4>2. IsFiniteSet(part) /\ Cardinality(part) = 1 * Cardinality(first \cup cc)
          BY <3>4, <4>1, FS_Product
        <4>3. Cardinality(first \cup cc) \in Nat
          BY <3>4, FS_CardinalityType
        <4> QED
          BY <4>2, <4>3
      <3>6. GoesTo(taken, mail) \in SUBSET (Mails \X Recipients)
        BY DEF GoesTo
      <3>7. IsFiniteSet(GoesTo(taken, mail)) /\ Cardinality(GoesTo(taken, mail)) \in Nat
        BY <3>6, Finite
      <3>8. Cardinality(GoesTo(taken, mail)) <= Spent(Fitting)
        BY <2>4 DEF Batch
      <3> HIDE DEF part
      <3>9. /\ IsFiniteSet(GoesTo(taken, mail) \cup part)
            /\ Cardinality(GoesTo(taken, mail) \cup part) <= Cardinality(GoesTo(taken, mail)) + Cardinality(part)
        <4> DEFINE A == GoesTo(taken, mail)
        <4> HIDE DEF A
        <4>0. IsFiniteSet(A) /\ Cardinality(A) \in Nat
          BY <3>7 DEF A
        <4>1. /\ IsFiniteSet(A \cup part)
              /\ Cardinality(A \cup part) = Cardinality(A) + Cardinality(part) - Cardinality(A \cap part)
          BY <3>5, <4>0, FS_Union
        <4>2. Cardinality(A \cap part) \in Nat
          BY <4>0, FS_Intersection, FS_CardinalityType
        <4>3. Cardinality(A \cup part) <= Cardinality(A) + Cardinality(part)
          BY <3>5, <4>0, <4>1, <4>2
        <4> QED
          BY <4>1, <4>3 DEF A
      <3>10. Cardinality(GoesTo(batch, t)) <= Cardinality(GoesTo(taken, mail) \cup part)
        BY <3>1, <3>9, FS_Subset
      <3>11. Cardinality(GoesTo(batch, t)) \in Nat /\ Cardinality(GoesTo(taken, mail) \cup part) \in Nat
        <4>1. GoesTo(batch, t) \in SUBSET (Mails \X Recipients)
          BY DEF GoesTo
        <4> QED
          BY <4>1, <3>9, Finite, FS_CardinalityType
      <3>12. Cardinality(first) = Budget - Spent(Fitting) - Cardinality(cc)
        BY <2>2 DEF Kept, RoomLeft
      <3> HIDE DEF cc
      <3>13. Budget \in Int
        BY <1>3, <1>5
      <3> QED
        BY <1>6, <3>3, <3>4, <3>5, <3>7, <3>8, <3>9, <3>10, <3>11, <3>12, <3>13
    <2>10. Batch(batch, Budget, t, made + 1)
      BY <2>6, <2>8, <2>9 DEF Batch
    <2>11. Budget \in Nat /\ Budget # 0 /\ Budget <= Limit + Cardinality(Recipients) /\ Budget <= Limit - Used(slots, now)
      BY <1>3, <1>5, <1>6, <1>10 DEF RoomLeft
    <2>12. Hand(t, 1, batch, Budget, deferred)
      BY <1>10 DEF t, batch
    <2>13. batch # <<>>
      BY <2>6
    <2> QED
      BY <2>5, <2>6, <2>8, <2>10, <2>11, <2>12, <2>13, HandCounts
  <1> QED
    BY <1>8, <1>9, <1>10 DEF Take, MoreThanTheLimit, taken

-----------------------------------------------------------------------------
(* The steps of a batch *)

\* Those ahead of the runner are finitely many.
LEMMA AheadFinite ==
    ASSUME NEW r, NEW t
    PROVE  IsFiniteSet(Ahead(r, t)) /\ Cardinality(Ahead(r, t)) \in Nat
  <1>1. Ahead(r, t) \in SUBSET (Mails \X Recipients)
    BY DEF Ahead
  <1> QED
    BY <1>1, Finite

\* A step within a session that goes to nobody else, and tries no message.
LEMMA SameCredit ==
    ASSUME NEW r, NEW new, NEW t, NEW u, Credited(r, t), r.phase \in Sessions, new.phase \in Sessions,
           new.batch = r.batch, new.credit = r.credit, Ahead(new, u) \subseteq Ahead(r, t)
    PROVE  Credited(new, u)
  <1>1. Cardinality(Ahead(new, u)) <= Cardinality(Ahead(r, t))
    BY AheadFinite, FS_Subset
  <1>2. Cardinality(Ahead(new, u)) \in Nat /\ Cardinality(Ahead(r, t)) \in Nat
    BY AheadFinite
  <1>3. r.credit \in Nat /\ r.batch # 0 /\ Cardinality(Ahead(r, t)) <= r.credit
    BY DEF Credited
  <1>4. Cardinality(Ahead(new, u)) <= r.credit
    BY <1>1, <1>2, <1>3
  <1> QED
    BY <1>3, <1>4 DEF Credited

\* Nobody is added to the mails ahead of the runner.
LEMMA FewerAhead ==
    ASSUME NEW r, NEW t, NEW u, NEW rows, \A k \in DOMAIN r.pending : r.pending[k] \in 1..rows,
           \A m \in Mails : m \in 1..rows => On(u, m) \subseteq On(t, m)
    PROVE  Ahead(r, u) \subseteq Ahead(r, t)
  BY DEF Ahead

\* A message is one of the slot's that are not tried yet.
LEMMA ItemCounted ==
    ASSUME TypeOK, Session, PaceInv, run.phase = "smtp", NEW item \in Items, Items # {}
    PROVE  /\ Cardinality(item) \in 1..run.credit
           /\ item \subseteq run.cc \cup run.to
           /\ LET new == After(item)
              IN  /\ DOMAIN new = RunFields
                  /\ new.phase = "smtp" /\ new.batch = run.batch /\ new.pending = run.pending /\ new.cur = run.cur
                  /\ new.credit = run.credit - Cardinality(item)
                  /\ new.cc = run.cc \ item /\ new.to = run.to \ item
                  /\ Once(new) /\ Credited(new, mail)
  <1> DEFINE m == run.cur
             n == Cardinality(item)
             new == After(item)
             part == {m} \X item
  <1>1. /\ m \in Mails /\ run.cc \subseteq mail[m].cc /\ run.to \subseteq mail[m].to
        /\ mail[m].to \in SUBSET Recipients /\ mail[m].cc \in SUBSET Recipients
        /\ DOMAIN run = RunFields
    BY OnRow DEF TypeOK, RunOK, Session
  <1>2. item \subseteq run.cc \cup run.to /\ item # {} /\ item \in SUBSET Recipients
    BY <1>1 DEF Items
  <1>3. IsFiniteSet(item) /\ n \in Nat /\ n # 0
    <2>1. IsFiniteSet(item) /\ Cardinality(item) \in Nat
      BY <1>2, Finite
    <2> QED
      BY <1>2, <2>1, FS_EmptySet
  <1>4. /\ DOMAIN new = RunFields
        /\ new.phase = "smtp" /\ new.batch = run.batch /\ new.pending = run.pending /\ new.cur = run.cur
        /\ new.credit = run.credit - n
        /\ new.cc = run.cc \ item /\ new.to = run.to \ item
    BY <1>1 DEF After, RunFields
  <1> HIDE DEF new
  <1>5. Ahead(new, mail) = Ahead(run, mail) \ part
    <2>1. \A k \in DOMAIN run.pending : run.pending[k] # m
      BY DEF PaceInv, Once
    <2> QED
      BY <1>4, <2>1 DEF Ahead
  <1>6. part \subseteq Ahead(run, mail)
    BY <1>1, <1>2 DEF Ahead
  <1>7. IsFiniteSet(part) /\ Cardinality(part) = n
    <2>1. IsFiniteSet({m}) /\ Cardinality({m}) = 1
      BY FS_Singleton
    <2>2. IsFiniteSet(part) /\ Cardinality(part) = 1 * n
      BY <1>3, <2>1, FS_Product
    <2> HIDE DEF n
    <2> QED
      BY <1>3, <2>2
  <1> HIDE DEF part
  <1>8. Cardinality(Ahead(run, mail) \ part) = Cardinality(Ahead(run, mail)) - n
    <2>1. Ahead(run, mail) \cap part = part
      BY <1>6
    <2> DEFINE A == Ahead(run, mail)
    <2>2. IsFiniteSet(A)
      BY AheadFinite
    <2> HIDE DEF A, n
    <2>3. Cardinality(A \ part) = Cardinality(A) - Cardinality(A \cap part)
      BY <2>2, FS_Difference
    <2> QED
      BY <1>7, <2>1, <2>3 DEF A
  <1>9. /\ Cardinality(Ahead(run, mail)) \in Nat /\ Cardinality(Ahead(new, mail)) \in Nat
        /\ run.credit \in Nat /\ Cardinality(Ahead(run, mail)) <= run.credit /\ run.batch # 0
    BY AheadFinite DEF PaceInv, Credited, Sessions
  <1> HIDE DEF n
  <1>10. n \in 1..run.credit /\ run.credit - n \in Nat /\ Cardinality(Ahead(new, mail)) <= run.credit - n
    BY <1>3, <1>5, <1>8, <1>9
  <1>11. Once(new)
    BY <1>4 DEF PaceInv, Once
  <1>12. Credited(new, mail)
    BY <1>4, <1>9, <1>10 DEF Credited, Sessions
  <1> QED
    BY <1>2, <1>4, <1>10, <1>11, <1>12 DEF n, new

\* The log grows by a slot.
LEMMA LoggedSlot ==
    ASSUME Logged, NEW n \in Nat, slots' = slots \cup {[id |-> lastId + 1, at |-> now, count |-> n]},
           lastId' = lastId + 1, accepted' = accepted
    PROVE  Logged'
  <1> DEFINE s == [id |-> lastId + 1, at |-> now, count |-> n]
             old == UNION {Messages(x) : x \in slots}
             new == UNION {Messages(x) : x \in slots'}
  <1>1. Messages(s) = {lastId + 1} \X (1..n)
    BY DEF Messages
  <1>2. IsFiniteSet(Messages(s))
    <2>1. IsFiniteSet({lastId + 1}) /\ IsFiniteSet(1..n)
      <3>1. IsFiniteSet({lastId + 1})
        BY FS_Singleton
      <3>2. IsFiniteSet(1..n)
        BY FS_Interval
      <3> QED
        BY <3>1, <3>2
    <2> QED
      BY <1>1, <2>1, FS_Product
  <1> HIDE DEF s
  <1>3. new = old \cup Messages(s)
    BY DEF s
  <1>4. IsFiniteSet(old \cup Messages(s))
    BY <1>2, FS_Union DEF Logged
  <1>5. lastId' \in Nat
    BY DEF Logged
  <1> QED
    BY <1>3, <1>4, <1>5 DEF Logged

LEMMA LoggedSame ==
    ASSUME Logged, slots' = slots, lastId' = lastId, accepted' = accepted
    PROVE  Logged'
  BY DEF Logged

-----------------------------------------------------------------------------
(* Every step is one of Pacing's, or none *)

paced == <<now, slots, lastId, accepted>>

LEMMA IdleRun ==
    /\ DOMAIN Idle = RunFields /\ Idle.phase = "idle" /\ Idle.batch = 0 /\ Idle.credit = 0
    /\ Idle.pending = <<>> /\ Idle.cur = 0 /\ Idle.cc = {} /\ Idle.to = {}
  BY DEF Idle, RunFields

\* A run that is over.
LEMMA OverInv ==
    ASSUME Logged', run' = Idle
    PROVE  PaceInv'
  BY IdleRun DEF PaceInv, Once, Credited, Sessions

\* A step Pacing does not see.
LEMMA Unseen ==
    ASSUME UNCHANGED paced, run'.batch = run.batch, run'.credit = run.credit
    PROVE  UNCHANGED Paced!vars
  BY DEF Paced!vars, paced

\* The batch is over, with nothing more accepted.
LEMMA BatchOver ==
    ASSUME PaceInv, UNCHANGED paced, run' = Idle
    PROVE  PaceInv' /\ [Paced!Next]_(Paced!vars)
  <1>1. Logged'
    BY LoggedSame DEF PaceInv, paced
  <1>2. CASE run.batch = 0
    <2>1. run.credit = 0
      BY <1>2 DEF PaceInv, Credited
    <2> QED
      BY <1>1, <1>2, <2>1, OverInv, IdleRun, Unseen
  <1>3. CASE run.batch # 0
    <2>1. accepted = [u \in DOMAIN accepted |-> accepted[u]]
      BY DEF PaceInv, Logged
    <2>2. DOMAIN accepted \cup ({run.batch} \X {}) = DOMAIN accepted
      OBVIOUS
    <2>3. Paced!Deliver({})
      BY <2>1, <2>2 DEF Paced!Deliver, paced
    <2>4. 1..run'.credit = {}
      BY IdleRun
    <2>5. Paced!EndBatch({})
      BY <1>3, <2>3, <2>4, IdleRun DEF Paced!EndBatch, paced
    <2> QED
      BY <1>1, <2>5, OverInv DEF Paced!Next
  <1> QED
    BY <1>2, <1>3

\* A step within a batch that tries no message.
LEMMA WithinBatch ==
    ASSUME PaceInv, UNCHANGED paced, run.phase \in Sessions, run'.phase \in Sessions,
           run'.batch = run.batch, run'.credit = run.credit,
           Ahead(run', mail') \subseteq Ahead(run, mail), Once(run)'
    PROVE  PaceInv' /\ [Paced!Next]_(Paced!vars)
  <1>1. Logged'
    BY LoggedSame DEF PaceInv, paced
  <1>2. Credited(run', mail')
    BY SameCredit DEF PaceInv
  <1> QED
    BY <1>1, <1>2, Unseen DEF PaceInv

\* A step that leaves the runner alone, and gives none of the mails more recipients.
LEMMA RunnerStays ==
    ASSUME PaceInv, UNCHANGED paced, run' = run, made \in Nat, made' \in Nat, made <= made',
           \A m \in Mails : m \in 1..made => On(mail', m) \subseteq On(mail, m)
    PROVE  PaceInv' /\ [Paced!Next]_(Paced!vars)
  <1>1. Logged'
    BY LoggedSame DEF PaceInv, paced
  <1>2. \A k \in DOMAIN run.pending : run.pending[k] \in 1..made
    BY DEF PaceInv, Once
  <1>3. Once(run)'
    BY <1>2 DEF PaceInv, Once
  <1>4. Ahead(run, mail') \subseteq Ahead(run, mail)
    BY <1>2, FewerAhead
  <1>5. Credited(run', mail')
    <2>1. CASE run.phase \in Sessions
      BY <1>4, <2>1, SameCredit DEF PaceInv
    <2>2. CASE run.phase \notin Sessions
      BY <2>2 DEF PaceInv, Credited
    <2> QED
      BY <2>1, <2>2
  <1> QED
    BY <1>1, <1>3, <1>5, Unseen DEF PaceInv

\* Taking a batch.
LEMMA PacedTake ==
    ASSUME TypeOK, PaceInv, Take, run.phase = "idle", now' = now, accepted' = accepted
    PROVE  PaceInv' /\ [Paced!Next]_(Paced!vars)
  <1>1. run.batch = 0 /\ run.credit = 0 /\ Logged
    BY DEF PaceInv, Credited, Sessions
  <1>2. CASE run' = Idle /\ slots' = slots /\ lastId' = lastId
    BY <1>2, BatchOver DEF paced
  <1>3. ASSUME NEW n, NEW batch, Counts(n, batch) PROVE PaceInv' /\ [Paced!Next]_(Paced!vars)
    <2>1. n \in Nat /\ lastId \in Nat /\ n \in 1..(Limit + Cardinality(Recipients))
      BY <1>1, <1>3 DEF Counts, Logged
    <2>2. /\ run'.phase = "connect" /\ run'.batch = lastId + 1 /\ run'.credit = n
          /\ run'.pending = batch /\ run'.cur = 0
      BY <1>3 DEF Counts, Idle
    <2>3. Logged'
      BY <1>1, <1>3, <2>1, LoggedSlot DEF Counts
    <2>4. Batch(batch, n, mail', made')
      BY <1>3 DEF Counts
    <2>5. Once(run)'
      <3>1. \A k \in DOMAIN batch : batch[k] \in 1..made' /\ batch[k] # 0
        BY <2>4, Numbers DEF Batch
      <3> QED
        BY <2>2, <2>4, <3>1 DEF Once, Batch
    <2>6. Ahead(run', mail') = GoesTo(batch, mail')
      BY <2>2, Numbers DEF Ahead, GoesTo
    <2>7. lastId + 1 # 0 /\ Cardinality(GoesTo(batch, mail')) <= n
      BY <2>1, <2>4 DEF Batch
    <2>8. Credited(run, mail)'
      BY <2>1, <2>2, <2>6, <2>7 DEF Credited, Sessions
    <2>9. Paced!Take(n)
      <3>1. Paced!Used(slots, now) = Used(slots, now)
        BY DEF Paced!Used, Paced!Cardinality, Paced!Counted, Paced!InWindow, Paced!Messages,
               Used, Cardinality, Counted, InWindow, Messages
      <3>2. Paced!Room(n)
        BY <1>3, <3>1 DEF Counts, Paced!Room
      <3>3. slots' = slots \cup {Paced!Slot(n)} /\ lastId' = lastId + 1
        BY <1>3 DEF Counts, Paced!Slot
      <3> QED
        BY <1>1, <2>2, <3>2, <3>3 DEF Paced!Take
    <2> QED
      BY <2>1, <2>3, <2>5, <2>8, <2>9 DEF PaceInv, Paced!Next
  <1> QED
    BY <1>1, <1>2, <1>3, TakeCounts

\* A message that is tried: the slot's next ones.
Next1(item) == (run.credit - Cardinality(item) + 1)..run.credit

LEMMA Tried ==
    ASSUME TypeOK, Session, PaceInv, run.phase = "smtp", NEW item \in Items, Items # {},
           run'.credit = run.credit - Cardinality(item)
    PROVE  Next1(item) \in SUBSET (1..run.credit) /\ 1..run'.credit = (1..run.credit) \ Next1(item)
  <1> DEFINE n == Cardinality(item)
             c == run.credit
  <1>1. n \in 1..c /\ c \in Nat
    BY ItemCounted DEF PaceInv, Credited
  <1> HIDE DEF n, c
  <1>2. (c - n + 1)..c \in SUBSET (1..c) /\ 1..(c - n) = (1..c) \ ((c - n + 1)..c)
    BY <1>1
  <1> QED
    BY <1>2 DEF n, c, Next1

LEMMA Delivered ==
    ASSUME NEW item, Deliver(item)
    PROVE  Paced!Deliver(Next1(item)) /\ accepted' = [u \in DOMAIN accepted' |-> accepted'[u]]
  <1> DEFINE counted == {run.batch} \X Next1(item)
  <1>1. accepted' = [u \in DOMAIN accepted \cup counted |-> IF u \in counted THEN now ELSE accepted[u]]
    BY DEF Deliver, Next1
  <1>2. Paced!Deliver(Next1(item))
    BY <1>1 DEF Paced!Deliver
  <1> HIDE DEF counted
  <1> QED
    BY <1>1, <1>2

-----------------------------------------------------------------------------
(* The steps of the runner *)

LEMMA PacedAccept ==
    ASSUME TypeOK, Session, PaceInv, Accept
    PROVE  PaceInv' /\ [Paced!Next]_(Paced!vars)
  <1>1. PICK item \in Items : run' = [After(item) EXCEPT !.reached = @ \cup item] /\ Deliver(item)
    BY DEF Accept
  <1>2. /\ run.phase = "smtp" /\ Items # {} /\ mail' = mail /\ made' = made
        /\ now' = now /\ slots' = slots /\ lastId' = lastId
    BY DEF Accept, Sending, queue, tables, ids
  <1>3. /\ DOMAIN After(item) = RunFields
        /\ Once(After(item)) /\ Credited(After(item), mail)
        /\ After(item).batch = run.batch /\ After(item).credit = run.credit - Cardinality(item)
    BY <1>1, <1>2, ItemCounted
  <1> DEFINE new == After(item)
  <1> HIDE DEF new
  <1>4. /\ run'.phase = new.phase /\ run'.batch = new.batch /\ run'.credit = new.credit
        /\ run'.pending = new.pending /\ run'.cur = new.cur /\ run'.cc = new.cc /\ run'.to = new.to
    BY <1>1, <1>3 DEF new, RunFields
  <1>5. Once(run)'
    BY <1>2, <1>3, <1>4 DEF Once, new
  <1>6. Ahead(run', mail') = Ahead(new, mail)
    BY <1>2, <1>4 DEF Ahead
  <1>7. Credited(run', mail')
    BY <1>3, <1>4, <1>6 DEF Credited, new
  <1>8. Paced!Deliver(Next1(item)) /\ accepted' = [u \in DOMAIN accepted' |-> accepted'[u]]
    BY <1>1, Delivered
  <1>9. Logged'
    BY <1>2, <1>8 DEF PaceInv, Logged
  <1>10. Next1(item) \in SUBSET (1..run.credit) /\ 1..run'.credit = (1..run.credit) \ Next1(item)
    BY <1>1, <1>2, <1>3, <1>4, Tried DEF new
  <1>11. run.batch # 0 /\ run'.batch = run.batch
    BY <1>2, <1>3, <1>4 DEF PaceInv, Credited, Sessions, new
  <1>12. Paced!Accept(Next1(item))
    BY <1>2, <1>8, <1>10, <1>11 DEF Paced!Accept
  <1> QED
    BY <1>5, <1>7, <1>9, <1>10, <1>12 DEF PaceInv, Paced!Next

LEMMA PacedInvalid ==
    ASSUME TypeOK, Session, PaceInv, Invalid
    PROVE  PaceInv' /\ [Paced!Next]_(Paced!vars)
  <1>1. PICK item \in Items : run' = [After(item) EXCEPT !.invalid = TRUE]
    BY DEF Invalid
  <1>2. /\ run.phase = "smtp" /\ Items # {} /\ mail' = mail /\ made' = made
        /\ now' = now /\ slots' = slots /\ lastId' = lastId /\ accepted' = accepted
    BY DEF Invalid, Sending, queue, tables, ids
  <1>3. /\ DOMAIN After(item) = RunFields
        /\ Once(After(item)) /\ Credited(After(item), mail)
        /\ After(item).batch = run.batch /\ After(item).credit = run.credit - Cardinality(item)
    BY <1>1, <1>2, ItemCounted
  <1> DEFINE new == After(item)
  <1> HIDE DEF new
  <1>4. /\ run'.phase = new.phase /\ run'.batch = new.batch /\ run'.credit = new.credit
        /\ run'.pending = new.pending /\ run'.cur = new.cur /\ run'.cc = new.cc /\ run'.to = new.to
    BY <1>1, <1>3 DEF new, RunFields
  <1>5. Once(run)'
    BY <1>2, <1>3, <1>4 DEF Once, new
  <1>6. Ahead(run', mail') = Ahead(new, mail)
    BY <1>2, <1>4 DEF Ahead
  <1>7. Credited(run', mail')
    BY <1>3, <1>4, <1>6 DEF Credited, new
  <1>8. Logged'
    BY <1>2, LoggedSame DEF PaceInv
  <1>9. Next1(item) \in SUBSET (1..run.credit) /\ 1..run'.credit = (1..run.credit) \ Next1(item)
    BY <1>1, <1>2, <1>3, <1>4, Tried DEF new
  <1>10. run.batch # 0 /\ run'.batch = run.batch
    BY <1>2, <1>3, <1>4 DEF PaceInv, Credited, Sessions, new
  <1>11. Paced!Fail(Next1(item))
    BY <1>2, <1>9, <1>10 DEF Paced!Fail
  <1> QED
    BY <1>5, <1>7, <1>8, <1>9, <1>11 DEF PaceInv, Paced!Next

\* The connection is lost; the message in hand may have been accepted.
LEMMA PacedDrop ==
    ASSUME TypeOK, Session, PaceInv, Drop
    PROVE  PaceInv' /\ [Paced!Next]_(Paced!vars)
  <1>1. /\ run' = Idle /\ run.phase = "smtp" /\ Items # {}
        /\ now' = now /\ slots' = slots /\ lastId' = lastId
    BY DEF Drop, Sending, queue, tables, ids
  <1>2. CASE accepted' = accepted
    BY <1>1, <1>2, BatchOver DEF paced
  <1>3. ASSUME NEW item \in Items, Deliver(item)
        PROVE  PaceInv' /\ [Paced!Next]_(Paced!vars)
    <2>1. Paced!Deliver(Next1(item)) /\ accepted' = [u \in DOMAIN accepted' |-> accepted'[u]]
      BY <1>3, Delivered
    <2>2. Logged'
      BY <1>1, <2>1 DEF PaceInv, Logged
    <2>3. Next1(item) \in SUBSET (1..run.credit)
      <3> DEFINE n == Cardinality(item)
                 c == run.credit
      <3>1. n \in 1..c /\ c \in Nat
        BY <1>1, ItemCounted DEF PaceInv, Credited
      <3> HIDE DEF n, c
      <3>2. (c - n + 1)..c \in SUBSET (1..c)
        BY <3>1
      <3> QED
        BY <3>2 DEF n, c, Next1
    <2>4. run.batch # 0 /\ run'.batch = 0 /\ 1..run'.credit = {}
      BY <1>1, IdleRun DEF PaceInv, Credited, Sessions
    <2>5. Paced!EndBatch(Next1(item))
      BY <1>1, <2>1, <2>4 DEF Paced!EndBatch
    <2> QED
      BY <1>1, <2>2, <2>3, <2>5, OverInv DEF Paced!Next
  <1> QED
    BY <1>2, <1>3 DEF Drop

\* A temporary error ends the batch and counts a full window.
LEMMA PacedRefuse ==
    ASSUME TypeOK, PaceInv, RefuseTemporarily
    PROVE  PaceInv' /\ [Paced!Next]_(Paced!vars)
  <1>1. /\ slots' = Penalty /\ lastId' = lastId + 1 /\ run.phase = "smtp"
        /\ run' = [NextMail EXCEPT !.phase = "stop", !.batch = 0, !.credit = 0]
        /\ now' = now /\ made' = made /\ accepted' = accepted
    BY DEF RefuseTemporarily, Sending
  <1>2. /\ run'.phase = "stop" /\ run'.batch = 0 /\ run'.credit = 0
        /\ run'.pending = run.pending /\ run'.cur = 0
    <2>1. DOMAIN run = RunFields
      BY DEF TypeOK, RunOK
    <2> QED
      BY <1>1, <2>1 DEF NextMail, RunFields
  <1>3. slots' = slots \cup {[id |-> lastId + 1, at |-> now, count |-> Limit]} /\ Limit \in Nat
    BY <1>1, RateAssumption DEF Penalty, Consumed
  <1>4. Logged'
    BY <1>1, <1>3, LoggedSlot DEF PaceInv
  <1>5. Once(run)'
    <2>1. \A k \in DOMAIN run.pending : run.pending[k] \in Mails
      BY DEF TypeOK, RunOK
    <2> QED
      BY <1>1, <1>2, <2>1, Numbers DEF PaceInv, Once
  <1>6. Credited(run, mail)'
    BY <1>2 DEF Credited, Sessions
  <1>7. run.batch # 0
    BY <1>1 DEF PaceInv, Credited, Sessions
  <1>8. Paced!Refuse
    BY <1>1, <1>2, <1>3, <1>7 DEF Paced!Refuse, Paced!Slot
  <1> QED
    BY <1>4, <1>5, <1>6, <1>8 DEF PaceInv, Paced!Next

\* The next mail of the batch is taken in hand, or skipped.
LEMMA PacedStart ==
    ASSUME TypeOK, PaceInv, StartMail
    PROVE  PaceInv' /\ [Paced!Next]_(Paced!vars)
  <1> DEFINE m == Head(run.pending)
             rest == Tail(run.pending)
  <1>1. /\ run.phase = "batch" /\ run.pending # <<>> /\ run.cur = 0 /\ UNCHANGED paced /\ made' = made
        /\ DOMAIN run = RunFields /\ run.pending \in Seq(Mails)
    BY DEF StartMail, paced, TypeOK, RunOK, history
  <1>2. /\ m \in Mails /\ rest \in Seq(Mails) /\ m = run.pending[1] /\ 1 \in DOMAIN run.pending
        /\ \A k \in DOMAIN rest : k + 1 \in DOMAIN run.pending /\ rest[k] = run.pending[k + 1] /\ k + 1 # 1 /\ k \in Nat
    BY <1>1
  <1> HIDE DEF m, rest
  <1>3. DOMAIN mail = Mails /\ \A x \in Mails : DOMAIN mail[x] = Fields
    BY DEF TypeOK, TableOK, RowOK
  <1>4. /\ run'.phase \in {"smtp", "batch"} /\ run'.batch = run.batch /\ run'.credit = run.credit
        /\ run'.pending = rest
        /\ \/ run'.cur = m /\ run'.cc = mail[m].cc /\ run'.to = mail[m].to
           \/ run'.cur = 0
        /\ \A x \in Mails : On(mail', x) = On(mail, x)
    <2>1. CASE mail[m].state = "outgoing"
      <3>1. /\ mail' = [mail EXCEPT ![m].state = "exception"]
            /\ run' = [run EXCEPT !.phase = "smtp", !.pending = rest, !.cur = m,
                                  !.cc = mail[m].cc, !.to = mail[m].to,
                                  !.reached = {}, !.invalid = FALSE]
        BY <2>1 DEF StartMail, m, rest
      <3>2. \A x \in Mails : On(mail', x) = On(mail, x)
        BY <1>2, <1>3, <3>1 DEF On, Fields
      <3> QED
        BY <1>1, <3>1, <3>2 DEF RunFields
    <2>2. CASE mail[m].state # "outgoing"
      <3>1. mail' = mail /\ run' = [run EXCEPT !.pending = rest]
        BY <2>2 DEF StartMail, m, rest
      <3> QED
        BY <1>1, <3>1 DEF RunFields
    <2> QED
      BY <2>1, <2>2
  <1>5. Once(run)'
    <2>1. \A j, k \in DOMAIN rest : rest[j] = rest[k] => j = k
      <3> SUFFICES ASSUME NEW j \in DOMAIN rest, NEW k \in DOMAIN rest, rest[j] = rest[k] PROVE j = k
        OBVIOUS
      <3>1. j + 1 = k + 1
        BY <1>2 DEF PaceInv, Once
      <3> QED
        BY <1>2, <3>1
    <2>2. \A k \in DOMAIN rest : rest[k] \in 1..made /\ rest[k] # m
      BY <1>2 DEF PaceInv, Once
    <2>3. \A k \in DOMAIN rest : rest[k] # 0
      BY <2>2
    <2> QED
      BY <1>1, <1>4, <2>1, <2>2, <2>3 DEF Once
  <1>6. Ahead(run', mail') \subseteq Ahead(run, mail)
    <2> SUFFICES ASSUME NEW u \in Mails \X Recipients, u \in Ahead(run', mail') PROVE u \in Ahead(run, mail)
      BY DEF Ahead
    <2>1. CASE (\E k \in DOMAIN rest : rest[k] = u[1]) /\ u[2] \in On(mail, u[1])
      BY <1>2, <2>1 DEF Ahead
    <2>2. CASE u[1] = m /\ u[2] \in mail[m].cc \cup mail[m].to
      BY <1>2, <2>2 DEF Ahead, On
    <2>3. u[1] # 0
      BY Numbers
    <2> QED
      BY <1>4, <2>1, <2>2, <2>3 DEF Ahead
  <1> QED
    BY <1>1, <1>4, <1>5, <1>6, WithinBatch DEF Sessions

\* The mail in hand is done, in one way or another; nobody is added to those ahead.
LEMMA PacedNextMail ==
    ASSUME TypeOK, PaceInv, UNCHANGED paced, made' = made, run.phase = "smtp", run' = NextMail,
           \A m \in Mails : m # run.cur => On(mail', m) \subseteq On(mail, m)
    PROVE  PaceInv' /\ [Paced!Next]_(Paced!vars)
  <1>1. /\ run'.phase = "batch" /\ run'.batch = run.batch /\ run'.credit = run.credit
        /\ run'.pending = run.pending /\ run'.cur = 0 /\ run'.cc = {} /\ run'.to = {}
    <2>1. DOMAIN run = RunFields
      BY DEF TypeOK, RunOK
    <2> QED
      BY <2>1 DEF NextMail, RunFields
  <1>2. \A k \in DOMAIN run.pending : run.pending[k] # run.cur /\ run.pending[k] \in Mails /\ run.pending[k] # 0
    <2>1. \A k \in DOMAIN run.pending : run.pending[k] \in Mails
      BY DEF TypeOK, RunOK
    <2> QED
      BY <2>1, Numbers DEF PaceInv, Once
  <1>3. Once(run)'
    BY <1>1, <1>2 DEF PaceInv, Once
  <1>4. Ahead(run', mail') \subseteq Ahead(run, mail)
    BY <1>1, <1>2 DEF Ahead
  <1> QED
    BY <1>1, <1>3, <1>4, WithinBatch DEF Sessions

LEMMA PacedRunner ==
    ASSUME TypeOK, Session, PaceInv, Runner
    PROVE  PaceInv' /\ [Paced!Next]_(Paced!vars)
  <1>1. CASE ConnectOk
    <2>1. /\ run.phase = "connect" /\ UNCHANGED paced /\ made' = made /\ mail' = mail
          /\ run' = [run EXCEPT !.phase = "batch"] /\ DOMAIN run = RunFields
      BY <1>1 DEF ConnectOk, paced, queue, tables, ids, history, TypeOK, RunOK
    <2>2. /\ run'.phase = "batch" /\ run'.batch = run.batch /\ run'.credit = run.credit
          /\ run'.pending = run.pending /\ run'.cur = run.cur /\ run'.cc = run.cc /\ run'.to = run.to
      BY <2>1 DEF RunFields
    <2>3. Once(run)' /\ Ahead(run', mail') \subseteq Ahead(run, mail)
      BY <2>1, <2>2 DEF PaceInv, Once, Ahead
    <2> QED
      BY <2>1, <2>2, <2>3, WithinBatch DEF Sessions
  <1>2. CASE ConnectFails \/ EndBatch \/ StopBatch
    <2>1. run' = Idle /\ UNCHANGED paced
      BY <1>2 DEF ConnectFails, EndBatch, StopBatch, paced, queue, tables, ids, history
    <2> QED
      BY <2>1, BatchOver
  <1>3. CASE StartMail
    BY <1>3, PacedStart
  <1>4. CASE Accept
    BY <1>4, PacedAccept
  <1>5. CASE Invalid
    BY <1>5, PacedInvalid
  <1>6. CASE RefuseTemporarily
    BY <1>6, PacedRefuse
  <1>7. CASE FailForGood \/ FailAfterInvalid
    <2>1. run' = NextMail /\ UNCHANGED paced /\ made' = made /\ run.phase = "smtp"
      BY <1>7 DEF FailForGood, FailAfterInvalid, Sending, paced, queue, tables, ids, history
    <2>2. \A m \in Mails : m # run.cur => On(mail', m) \subseteq On(mail, m)
      <3>1. CASE FailForGood
        BY <3>1, CutTo DEF On
      <3>2. CASE FailAfterInvalid
        BY <3>2 DEF FailAfterInvalid, queue, tables
      <3> QED
        BY <1>7, <3>1, <3>2
    <2> QED
      BY <2>1, <2>2, PacedNextMail
  <1>8. CASE FinishMail
    <2>1. run' = NextMail /\ UNCHANGED paced /\ made' = made
      BY <1>8 DEF FinishMail, paced, history
    <2>2. \A m \in Mails : Sent[m].to = mail[m].to /\ Sent[m].cc = mail[m].cc
      <3>1. DOMAIN mail = Mails /\ \A m \in Mails : DOMAIN mail[m] = Fields
        BY DEF TypeOK, TableOK, RowOK
      <3> QED
        BY <3>1 DEF Sent, Fields
    <2>3. run.phase = "smtp" /\ (mail' = mail \/ mail' = Sent \/ Left(Sent, {run.cur}, mail'))
      BY <1>8, FinishTo
    <2>4. \A m \in Mails : m # run.cur => On(mail', m) \subseteq On(mail, m)
      BY <2>2, <2>3 DEF Left, On
    <2> QED
      BY <2>1, <2>3, <2>4, PacedNextMail
  <1>9. CASE Drop
    BY <1>9, PacedDrop
  <1> QED
    BY <1>1, <1>2, <1>3, <1>4, <1>5, <1>6, <1>7, <1>8, <1>9 DEF Runner

-----------------------------------------------------------------------------
(* The theorem *)

\* What users do: no mail but a new one has more recipients after it.
LEMMA PacedUsers ==
    ASSUME TypeOK, PaceInv, Users
    PROVE  PaceInv' /\ [Paced!Next]_(Paced!vars)
  <1>0. made \in Nat /\ DOMAIN mail = Mails /\ \A m \in Mails : DOMAIN mail[m] = Fields
    BY DEF TypeOK, TableOK, RowOK
  <1>1. ASSUME NEW l \in Letters, Post(l) PROVE PaceInv' /\ [Paced!Next]_(Paced!vars)
    <2>1. UNCHANGED paced /\ run' = run /\ made' = made + 1
      BY <1>1 DEF Post, paced, history
    <2>2. \A m \in Mails \ {made'} : mail'[m] = mail[m]
      BY <1>1, PostTo
    <2>3. made' \in Nat /\ made <= made' /\ made' \notin 1..made
      BY <1>0, <2>1
    <2>4. \A m \in Mails : m \in 1..made => On(mail', m) \subseteq On(mail, m)
      BY <2>2, <2>3 DEF On
    <2> QED
      BY <1>0, <2>1, <2>3, <2>4, RunnerStays
  <1>2. CASE SendNow
    <2>1. UNCHANGED paced /\ run' = run /\ made' = made /\ mail' = mail
      BY <1>2 DEF SendNow, paced, history
    <2> QED
      BY <1>0, <2>1, RunnerStays DEF On
  <1>3. ASSUME NEW m \in Mails, Retry(m) \/ Cancel(m) PROVE PaceInv' /\ [Paced!Next]_(Paced!vars)
    <2>1. /\ UNCHANGED paced /\ run' = run /\ made' = made
          /\ \/ mail' = [mail EXCEPT ![m].state = "outgoing", ![m].retries = 0]
             \/ mail' = [mail EXCEPT ![m].state = "cancel"]
      BY <1>3 DEF Retry, Cancel, paced, history
    <2>2. \A x \in Mails : On(mail', x) = On(mail, x)
      BY <1>0, <2>1 DEF On, Fields
    <2> QED
      BY <1>0, <2>1, <2>2, RunnerStays
  <1>4. ASSUME NEW S \in SUBSET Mails, Delete(S) PROVE PaceInv' /\ [Paced!Next]_(Paced!vars)
    <2>1. UNCHANGED paced /\ run' = run /\ made' = made
      BY <1>4 DEF Delete, paced
    <2>2. Left(mail, S, mail')
      BY <1>4, DeleteTo
    <2>3. NoMail.to = {} /\ NoMail.cc = {}
      BY DEF NoMail
    <2>4. \A x \in Mails : On(mail', x) \subseteq On(mail, x)
      BY <2>2, <2>3 DEF Left, On
    <2> QED
      BY <1>0, <2>1, <2>4, RunnerStays
  <1> QED
    BY <1>1, <1>2, <1>3, <1>4 DEF Users

\* No worker is killed whose count is not committed.
CountsKept == [][Crash => slots = saved.slots]_vars

LEMMA PacedNext ==
    ASSUME TypeOK, Session, PaceInv, [Next]_vars, [Crash => slots = saved.slots]_vars
    PROVE  PaceInv' /\ [Paced!Next]_(Paced!vars)
  <1>1. CASE Tick
    <2>1. /\ now' = now + 1 /\ run' = run /\ mail' = mail /\ made' = made /\ slots' = slots /\ lastId' = lastId
          /\ accepted' = [u \in {v \in DOMAIN accepted : accepted[v] > now + 1 - Window} |-> accepted[u]]
          /\ \A s \in slots : s.id = run.batch => now < s.at + Hold
      BY <1>1 DEF Tick, queue, tables, ids
    <2>2. Logged'
      BY <2>1 DEF PaceInv, Logged
    <2>3. PaceInv'
      BY <2>1, <2>2 DEF PaceInv, Once, Credited, Ahead, On
    <2>4. Paced!Tick
      <3>0. now + 1 - Window = (now + 1) - Window
        BY RateAssumption DEF TypeOK
      <3>1. accepted' = Paced!Forget(accepted, now + 1)
        BY <1>1, <3>0, Zenon DEF Tick, Paced!Forget
      <3>2. Paced!InTime
        BY <2>1 DEF Paced!InTime
      <3> QED
        BY <2>1, <3>1, <3>2 DEF Paced!Tick
    <2> QED
      BY <2>3, <2>4 DEF Paced!Next
  <1>2. CASE TriggeredRun \/ RegularRun
    <2>1. Take /\ run.phase = "idle" /\ now' = now /\ accepted' = accepted
      BY <1>2 DEF TriggeredRun, RegularRun, history
    <2> QED
      BY <2>1, PacedTake
  <1>3. CASE Runner
    BY <1>3, PacedRunner
  <1>4. CASE Crash
    <2>1. /\ run' = Idle /\ slots' = saved.slots /\ run.phase # "idle"
          /\ now' = now /\ lastId' = lastId /\ accepted' = accepted
      BY <1>4 DEF Crash, ids
    <2>2. run' # run
      BY <2>1, IdleRun
    <2>3. slots' = slots
      BY <1>4, <2>1, <2>2 DEF vars
    <2> QED
      BY <2>1, <2>3, BatchOver DEF paced
  <1>5. CASE Users
    BY <1>5, PacedUsers
  <1>6. CASE UNCHANGED vars
    <2>1. UNCHANGED paced /\ run' = run /\ made' = made /\ mail' = mail
      BY <1>6 DEF vars, paced, queue, tables, ids, history
    <2>2. made \in Nat
      BY DEF TypeOK
    <2> QED
      BY <2>1, <2>2, RunnerStays DEF On
  <1> QED
    BY <1>1, <1>2, <1>3, <1>4, <1>5, <1>6 DEF Next

LEMMA PacedInit == Init => PaceInv /\ Paced!Init
  <1> SUFFICES ASSUME Init PROVE PaceInv /\ Paced!Init
    OBVIOUS
  <1>1. now = 0 /\ slots = {} /\ lastId = 0 /\ run = Idle /\ accepted = <<>>
    BY DEF Init
  <1>2. Once(run) /\ Credited(run, mail)
    BY <1>1, IdleRun DEF Once, Credited, Sessions
  <1>3. Logged
    <2>1. UNION {Messages(s) : s \in slots} = {}
      BY <1>1
    <2>2. accepted = [u \in DOMAIN accepted |-> accepted[u]]
      BY <1>1
    <2> QED
      BY <1>1, <2>1, <2>2, FS_EmptySet DEF Logged
  <1>4. 1..run.credit = {}
    BY <1>1, IdleRun
  <1>5. Paced!Init
    BY <1>1, <1>4, IdleRun DEF Paced!Init
  <1> QED
    BY <1>2, <1>3, <1>5 DEF PaceInv

\* The queue implements Pacing, unless a worker is killed between taking a batch and the
\* first commit after it (_rate_limit_take, _rate_limit_consume, _postprocess_sent_message).
THEOREM QueueImplementsPacing == Spec /\ CountsKept => QueueIsPaced
  <1>1. Init => TypeOK /\ Session /\ PaceInv /\ Paced!Init
    BY TypeInit, KeptInit, PacedInit
  <1>2. /\ TypeOK /\ Session /\ PaceInv /\ [Next]_vars /\ [Crash => slots = saved.slots]_vars
        => (TypeOK /\ Session /\ PaceInv)' /\ [Paced!Next]_(Paced!vars)
    BY TypeNext, SessionNext, PacedNext
  <1> QED
    BY <1>1, <1>2, PTL DEF Spec, CountsKept, QueueIsPaced, Paced!Spec

-----------------------------------------------------------------------------
(* So what is proved of Pacing holds of the queue. *)

Promised == INSTANCE PacingProofs WITH
    batch   <- run.batch,
    untried <- 1..run.credit,
    Sizes   <- 1..(Limit + Cardinality(Recipients)),
    Keep    <- Window

LEMMA PromiseApplies == Promised!RateAssumption /\ Promised!PacingAssumption
  <1>1. Promised!RateAssumption
    BY RateAssumption DEF Promised!RateAssumption
  <1>2. Limit + Cardinality(Recipients) \in Nat
    BY Finite, RateAssumption
  <1>3. 1..(Limit + Cardinality(Recipients)) \subseteq Nat \ {0}
    BY <1>2
  <1>4. Hold \in Nat /\ Hold < Window
    BY QueueAssumption, Zenon
  <1> QED
    BY <1>1, <1>3, <1>4, RateAssumption DEF Promised!PacingAssumption

LEMMA SamePacing == Paced!Spec => Promised!Spec
  BY DEF Paced!Spec, Promised!Spec, Paced!Init, Promised!Init, Paced!vars, Promised!vars,
         Paced!Next, Promised!Next, Paced!Take, Promised!Take, Paced!Accept, Promised!Accept,
         Paced!Fail, Promised!Fail, Paced!Refuse, Promised!Refuse,
         Paced!EndBatch, Promised!EndBatch, Paced!Vacuum, Promised!Vacuum,
         Paced!Tick, Promised!Tick, Paced!Slot, Promised!Slot, Paced!Room, Promised!Room,
         Paced!Deliver, Promised!Deliver, Paced!Forget, Promised!Forget,
         Paced!InTime, Promised!InTime, Paced!Used, Promised!Used,
         Paced!Counted, Promised!Counted, Paced!InWindow, Promised!InWindow,
         Paced!Messages, Promised!Messages, Paced!Cardinality, Promised!Cardinality

\* The provider of the queue's mail server accepts at most the limit, or one mail that
\* cannot be split, in any window shortened by the length of a batch, as long as no worker
\* is killed whose count is not committed (_rate_limit_take, _rate_limit_consume).
THEOREM QueuePacesProvider == Spec /\ CountsKept => []Paced!ProviderPaced
  <1>1. Promised!Spec => []Promised!ProviderPaced
    BY PromiseApplies, Promised!ProviderIsPaced
  <1>2. Promised!ProviderPaced => Paced!ProviderPaced
    BY DEF Promised!ProviderPaced, Paced!ProviderPaced, Promised!AtMostLimit,
           Paced!AtMostLimit, Promised!Cardinality, Paced!Cardinality
  <1> QED
    BY <1>1, <1>2, SamePacing, QueueImplementsPacing, PTL DEF QueueIsPaced


-----------------------------------------------------------------------------
(* ScheduleLoop: counting *)

\* Logs that can be counted.
Logs == {log \in SUBSET [id : Int, at : Nat, count : Nat] : IsFiniteSet(log)}

\* A message counts as many as its slot says.
LEMMA MessagesCount ==
    ASSUME NEW s, s.count \in Nat
    PROVE  IsFiniteSet(Messages(s)) /\ Cardinality(Messages(s)) = s.count
  <1>1. IsFiniteSet({s.id}) /\ Cardinality({s.id}) = 1
    BY FS_Singleton
  <1>2. IsFiniteSet(1..s.count) /\ Cardinality(1..s.count) = s.count
    BY FS_Interval
  <1>3. IsFiniteSet({s.id} \X (1..s.count)) /\ Cardinality({s.id} \X (1..s.count)) = 1 * s.count
    BY <1>1, <1>2, FS_Product
  <1> QED
    BY <1>3 DEF Messages

\* A log counts a finite number of messages.
LEMMA CountedFinite ==
    ASSUME NEW log \in Logs, NEW time
    PROVE  IsFiniteSet(Counted(log, time)) /\ Used(log, time) \in Nat
  <1> DEFINE window == InWindow(log, time)
             all    == {Messages(s) : s \in window}
             map    == [s \in window |-> Messages(s)]
  <1>1. IsFiniteSet(window)
    BY FS_Subset DEF InWindow, Logs
  <1>2. map \in Surjection(window, all)
    BY DEF Surjection
  <1>3. IsFiniteSet(all)
    BY <1>1, <1>2, FS_Surjection
  <1>4. \A T \in all : IsFiniteSet(T)
    BY MessagesCount DEF InWindow, Logs
  <1>5. IsFiniteSet(Counted(log, time))
    BY <1>3, <1>4, FS_UNION DEF Counted
  <1> QED
    BY <1>5, FS_CardinalityType DEF Used

\* Fewer messages count for less.
LEMMA FewerUsed ==
    ASSUME NEW log \in Logs, NEW small \in Logs, NEW time, NEW other,
           InWindow(small, other) \subseteq InWindow(log, time)
    PROVE  Used(small, other) <= Used(log, time)
  <1>1. Counted(small, other) \subseteq Counted(log, time)
    BY DEF Counted
  <1> QED
    BY <1>1, CountedFinite, FS_Subset DEF Used

\* One more slot counts for no more than it says.
LEMMA OneMoreUsed ==
    ASSUME NEW log \in Logs, NEW s \in [id : Int, at : Nat, count : Nat], NEW time
    PROVE  log \cup {s} \in Logs /\ Used(log \cup {s}, time) <= Used(log, time) + s.count
  <1>1. log \cup {s} \in Logs
    BY FS_AddElement DEF Logs
  <1>2. Counted(log \cup {s}, time) \subseteq Counted(log, time) \cup Messages(s)
    BY DEF Counted, InWindow
  <1> DEFINE old == Counted(log, time)
             more == Messages(s)
             both == Counted(log \cup {s}, time)
  <1>3. IsFiniteSet(old) /\ Cardinality(old) \in Nat
    BY CountedFinite DEF Used
  <1>4. IsFiniteSet(more) /\ Cardinality(more) = s.count
    BY MessagesCount
  <1>5. IsFiniteSet(old \cup more)
        /\ Cardinality(old \cup more) = Cardinality(old) + Cardinality(more) - Cardinality(old \cap more)
    BY <1>3, <1>4, FS_Union
  <1>6. Cardinality(old \cap more) \in Nat
    BY <1>3, FS_Intersection, FS_CardinalityType
  <1>7. Cardinality(both) <= Cardinality(old \cup more)
    BY <1>2, <1>5, FS_Subset
  <1>8. Cardinality(both) \in Nat
    BY <1>1, CountedFinite DEF Used
  <1> HIDE DEF old, more, both
  <1>9. Cardinality(both) <= Cardinality(old) + s.count
    BY <1>3, <1>4, <1>5, <1>6, <1>7, <1>8
  <1> QED
    BY <1>1, <1>9 DEF Used, old, both

\* An empty window counts nothing.
LEMMA NothingUsed ==
    ASSUME NEW log, NEW time, InWindow(log, time) = {}
    PROVE  Used(log, time) = 0
  <1>1. Counted(log, time) = {}
    BY DEF Counted
  <1> QED
    BY <1>1, FS_EmptySet DEF Used

\* The oldest slot of a window.
LEMMA OldestSlot ==
    ASSUME NEW log \in Logs, NEW time, InWindow(log, time) # {}
    PROVE  \E s \in InWindow(log, time) :
               /\ \A r \in InWindow(log, time) : s.at <= r.at
               /\ NextRoom(log, time) = s.at + Window + Margin
  <1> DEFINE ages == {s.at : s \in InWindow(log, time)}
  <1>1. ages \in SUBSET Nat /\ ages # {}
    BY DEF InWindow, Logs
  <1>2. \E n \in ages : \A m \in ages : n <= m
    BY <1>1, LeastExists
  <1>3. Min(ages) \in ages /\ \A m \in ages : Min(ages) <= m
    BY <1>2 DEF Min
  <1>4. PICK s \in InWindow(log, time) : s.at = Min(ages)
    BY <1>3
  <1>5. \A r \in InWindow(log, time) : s.at <= r.at
    BY <1>3, <1>4
  <1> QED
    BY <1>4, <1>5 DEF NextRoom

-----------------------------------------------------------------------------
(* ScheduleLoop: the inductive invariant *)

\* The arguments, and what the loop keeps: the slots of the window and what it has placed.
Loop ==
    /\ logged \in SlotLogs
    /\ costs \in Seq(Int)
    /\ clock \in Nat
    /\ given \in Seq(Nat)
    /\ Len(given) <= Len(costs)
    /\ events = InWindow(logged, Start)
                    \cup {Planned(j, given[j], Clipped(costs[j])) : j \in 1..Len(given)}

\* The loop has not got behind what it has placed.
Forward == Start <= clock /\ \A k \in 1..Len(given) : given[k] <= clock

\* When it has waited since the last message was placed, the next did not fit just before.
Latest == IF given = <<>> THEN Start ELSE given[Len(given)]
Waited == clock > Latest => Used(events, clock - Margin - 1) + ToPlace > Limit

LoopInv == Loop /\ Forward /\ Waited /\ PlanKeepsItsPromise

LEMMA CostRange ==
    ASSUME NEW cost \in Int
    PROVE  Clipped(cost) \in Nat /\ 1 <= Clipped(cost) /\ Clipped(cost) <= Limit
  BY RateAssumption DEF Clipped

LEMMA Countable ==
    ASSUME Loop
    PROVE  /\ events \in Logs
           /\ logged \cup {Planned(j, given[j], Clipped(costs[j])) : j \in 1..Len(given)} \in Logs
           /\ \A e \in events : e.id > -Turn
  <1> DEFINE placed == {Planned(j, given[j], Clipped(costs[j])) : j \in 1..Len(given)}
             map    == [j \in 1..Len(given) |-> Planned(j, given[j], Clipped(costs[j]))]
  <1>0. Len(given) \in Nat /\ \A j \in 1..Len(given) : given[j] \in Nat /\ costs[j] \in Int
    BY DEF Loop
  <1>1. \A j \in 1..Len(given) : /\ Planned(j, given[j], Clipped(costs[j])) \in [id : Int, at : Nat, count : Nat]
                                 /\ Planned(j, given[j], Clipped(costs[j])).id > -Turn
    <2> SUFFICES ASSUME NEW j \in 1..Len(given)
                 PROVE  /\ Planned(j, given[j], Clipped(costs[j])) \in [id : Int, at : Nat, count : Nat]
                        /\ Planned(j, given[j], Clipped(costs[j])).id > -Turn
      OBVIOUS
    <2>1. Clipped(costs[j]) \in Nat
      BY <1>0, CostRange
    <2>2. given[j] \in Nat /\ j \in Int /\ Len(given) \in Nat /\ j <= Len(given)
      BY <1>0
    <2> QED
      BY <2>1, <2>2 DEF Planned, Turn
  <1>2. IsFiniteSet(1..Len(given))
    BY <1>0, FS_Interval
  <1>3. map \in Surjection(1..Len(given), placed)
    BY DEF Surjection
  <1>4. IsFiniteSet(placed)
    BY <1>2, <1>3, FS_Surjection
  <1>5. IsFiniteSet(logged) /\ logged \subseteq [id : Nat, at : Nat, count : Nat]
    BY ScheduleAssumption DEF Loop
  <1>6. InWindow(logged, Start) \subseteq logged /\ IsFiniteSet(InWindow(logged, Start))
    BY <1>5, FS_Subset DEF InWindow
  <1>7. events = InWindow(logged, Start) \cup placed
    BY DEF Loop
  <1>8. IsFiniteSet(events)
    BY <1>4, <1>6, <1>7, FS_Union
  <1>9. IsFiniteSet(logged \cup placed)
    BY <1>4, <1>5, FS_Union
  <1>10. \A s \in logged : s \in [id : Int, at : Nat, count : Nat] /\ s.id > -Turn
    BY <1>0, <1>5 DEF Turn
  <1> QED
    BY <1>1, <1>6, <1>7, <1>8, <1>9, <1>10 DEF Logs

\* Waiting only when something is in the window: min() never gets an empty list.
LEMMA SomethingToWaitFor ==
    ASSUME Loop, Turn <= Len(costs), ~Fits
    PROVE  InWindow(events, clock) # {}
  <1>1. costs[Turn] \in Int
    BY DEF Loop, Turn
  <1>2. ToPlace <= Limit /\ ToPlace \in Nat
    BY <1>1, CostRange DEF ToPlace
  <1>3. InWindow(events, clock) = {} => Used(events, clock) = 0
    BY NothingUsed
  <1> QED
    BY <1>2, <1>3 DEF Fits

LEMMA WaitKeeps == LoopInv /\ Wait => LoopInv'
  <1> SUFFICES ASSUME LoopInv, Wait PROVE LoopInv'
    OBVIOUS
  <1>1. events \in Logs /\ clock \in Nat /\ Turn \in Nat
    BY Countable DEF LoopInv, Loop, Turn
  <1>2. PICK s \in InWindow(events, clock) : /\ \A r \in InWindow(events, clock) : s.at <= r.at
                                         /\ NextRoom(events, clock) = s.at + Window + Margin
    BY <1>1, OldestSlot DEF Wait
  <1>3. s.at \in Nat /\ s.at > clock - Window
    BY <1>1, <1>2 DEF InWindow, Logs
  <1>4. clock' = s.at + Window + Margin
    BY <1>2 DEF Wait
  <1>5. clock' \in Nat /\ clock' > clock
    BY <1>1, <1>3, <1>4, RateAssumption
  <1>6. UNCHANGED <<logged, costs, events, given>>
    BY DEF Wait
  <1>7. Loop'
    BY <1>5, <1>6 DEF LoopInv, Loop
  <1>8. Forward'
    <2>1. Start <= clock /\ \A k \in 1..Len(given) : given[k] <= clock /\ given[k] \in Nat
      BY DEF LoopInv, Loop, Forward
    <2>2. Start <= clock' /\ \A k \in 1..Len(given) : given[k] <= clock'
      BY <1>1, <1>5, <2>1, ScheduleAssumption
    <2> QED
      BY <1>6, <2>2 DEF Forward
  <1>9. Waited'
    <2>1. InWindow(events, clock) \subseteq InWindow(events, clock' - Margin - 1)
      BY <1>1, <1>2, <1>3, <1>4, RateAssumption DEF InWindow, Logs
    <2>2. Used(events, clock) <= Used(events, clock' - Margin - 1)
      BY <1>1, <2>1, FewerUsed
    <2>3. Used(events, clock) \in Nat /\ Used(events, clock' - Margin - 1) \in Nat
      BY <1>1, CountedFinite
    <2>4. costs[Turn] \in Int
      BY DEF LoopInv, Loop, Wait, Turn
    <2>5. ToPlace \in Nat /\ ~(Used(events, clock) + ToPlace <= Limit)
      BY <2>4, CostRange DEF ToPlace, Wait, Fits
    <2>6. Used(events, clock' - Margin - 1) + ToPlace > Limit
      BY <2>2, <2>3, <2>5, RateAssumption
    <2> QED
      BY <1>6, <2>6 DEF Waited, ToPlace, Turn
  <1>10. PlanKeepsItsPromise'
    BY <1>6 DEF LoopInv, PlanKeepsItsPromise, PlannedWithinLimit, FirstInFirstOut, NoNeedlessWait
  <1> QED
    BY <1>7, <1>8, <1>9, <1>10 DEF LoopInv

LEMMA PlaceKeeps == LoopInv /\ Place => LoopInv'
  <1> SUFFICES ASSUME LoopInv, Place PROVE LoopInv'
    OBVIOUS
  <1> DEFINE n      == Len(given)
             new    == Planned(Turn, clock, ToPlace)
             placed == {Planned(j, given[j], Clipped(costs[j])) : j \in 1..n}
             sent   == logged \cup placed
  <1>1. /\ n \in Nat /\ Turn = n + 1 /\ Turn <= Len(costs) /\ clock \in Nat /\ Start <= clock
        /\ \A k \in 1..n : given[k] \in Nat /\ given[k] <= clock
    BY DEF LoopInv, Loop, Forward, Place, Turn
  <1>2. /\ logged' = logged /\ costs' = costs /\ clock' = clock /\ events' = events \cup {new}
        /\ given' = Append(given, clock) /\ given' \in Seq(Nat) /\ Len(given') = n + 1
        /\ \A k \in 1..n : given'[k] = given[k]
        /\ given'[n + 1] = clock
    BY DEF LoopInv, Loop, Place
  <1>3. costs[Turn] \in Int /\ ToPlace = Clipped(costs[Turn]) /\ ToPlace \in Nat /\ 1 <= ToPlace /\ ToPlace <= Limit
    <2>1. costs[Turn] \in Int
      BY <1>1 DEF LoopInv, Loop
    <2> QED
      BY <2>1, CostRange DEF ToPlace
  <1>4. new \in [id : Int, at : Nat, count : Nat] /\ new.id = -Turn /\ new.at = clock /\ new.count = ToPlace
    BY <1>1, <1>3 DEF Planned
  <1>5. {Planned(j, given'[j], Clipped(costs'[j])) : j \in 1..Len(given')} = placed \cup {new}
    BY <1>1, <1>2, <1>3
  <1>6. Loop'
    BY <1>1, <1>2, <1>5 DEF LoopInv, Loop
  <1>7. Forward'
    <2>1. \A k \in 1..(n + 1) : given'[k] <= clock
      BY <1>1, <1>2
    <2> QED
      BY <1>1, <1>2, <2>1 DEF Forward
  <1>8. Waited'
    <2>1. given' # <<>> /\ Latest' = clock
      BY <1>1, <1>2 DEF Latest
    <2> QED
      BY <1>1, <1>2, <2>1 DEF Waited
  <1>9. events \in Logs /\ sent \in Logs /\ \A e \in events : e.id > -Turn
    BY Countable DEF LoopInv
  <1>10. Loop' => events' \in Logs /\ sent \cup {new} \in Logs
    BY <1>4, <1>9, OneMoreUsed, <1>2
  <1>11. PlannedWithinLimit'
    <2> DEFINE upTo(S, time) == {s \in S : s.at <= time}
    <2>1. \A time \in Nat, S \in Logs : upTo(S, time) \in Logs
      <3> SUFFICES ASSUME NEW time \in Nat, NEW S \in Logs PROVE upTo(S, time) \in Logs
        OBVIOUS
      <3> QED
        BY FS_Subset DEF Logs
    <2>2. Used(events', clock) <= Limit
      <3>1. Used(events', clock) <= Used(events, clock) + ToPlace
        BY <1>2, <1>4, <1>9, OneMoreUsed
      <3>2. Used(events, clock) \in Nat /\ Used(events', clock) \in Nat /\ Used(events, clock) + ToPlace <= Limit
        BY <1>6, <1>9, <1>10, CountedFinite DEF Place, Fits
      <3> QED
        BY <1>3, <3>1, <3>2, RateAssumption
    <2>3. Used(upTo(sent \cup {new}, clock), clock) <= Limit
      <3>1. InWindow(upTo(sent \cup {new}, clock), clock) \subseteq InWindow(events', clock)
        <4> SUFFICES ASSUME NEW s \in sent \cup {new}, s.at <= clock, s.at > clock - Window
                     PROVE  s \in events'
          BY DEF InWindow
        <4>1. CASE s \in logged
          <5>1. s.at \in Nat
            BY <4>1, <1>9 DEF Logs
          <5>2. s.at > Start - Window
            BY <1>1, <5>1, ScheduleAssumption, RateAssumption
          <5> QED
            BY <1>2, <4>1, <5>2 DEF LoopInv, Loop, InWindow
        <4>2. CASE s \in placed
          BY <1>2, <4>2 DEF LoopInv, Loop
        <4>3. CASE s = new
          BY <1>2, <4>3
        <4> QED
          BY <4>1, <4>2, <4>3
      <3>2. upTo(sent \cup {new}, clock) \in Logs /\ events' \in Logs
        BY <1>1, <1>6, <1>10, <2>1
      <3>3. Used(upTo(sent \cup {new}, clock), clock) <= Used(events', clock)
        BY <3>1, <3>2, FewerUsed
      <3>4. Used(upTo(sent \cup {new}, clock), clock) \in Nat /\ Used(events', clock) \in Nat
        BY <3>2, CountedFinite
      <3> QED
        BY <2>2, <3>3, <3>4, RateAssumption
    <2>4. ASSUME NEW k \in 1..(n + 1) PROVE Used(upTo(sent \cup {new}, given'[k]), given'[k]) <= Limit
      <3>1. CASE given'[k] = clock
        BY <2>3, <3>1
      <3>2. CASE given'[k] # clock
        <4>1. k \in 1..n /\ given'[k] = given[k] /\ given[k] < clock
          BY <1>1, <1>2, <3>2
        <4>2. upTo(sent \cup {new}, given[k]) = upTo(sent, given[k])
          BY <1>1, <1>4, <4>1
        <4>3. DOMAIN given = 1..n
          BY DEF LoopInv, Loop
        <4>4. sent = logged \cup {Planned(j, given[j], Clipped(costs[j])) : j \in DOMAIN given}
          BY <4>3
        <4>5. \A i \in DOMAIN given : Used(upTo(sent, given[i]), given[i]) <= Limit
          BY <4>4 DEF LoopInv, PlanKeepsItsPromise, PlannedWithinLimit
        <4>6. Used(upTo(sent, given[k]), given[k]) <= Limit
          BY <4>1, <4>3, <4>5
        <4> QED
          BY <4>1, <4>2, <4>6
      <3> QED
        BY <3>1, <3>2
    <2>5. DOMAIN given' = 1..(n + 1)
      BY <1>2
    <2>6. {Planned(j, given'[j], Clipped(costs'[j])) : j \in DOMAIN given'} = placed \cup {new}
      BY <1>2, <1>5, <2>5
    <2>7. logged' \cup {Planned(j, given'[j], Clipped(costs'[j])) : j \in DOMAIN given'} = sent \cup {new}
      BY <1>2, <2>6
    <2> QED
      BY <2>4, <2>5, <2>7 DEF PlannedWithinLimit
  <1>12. FirstInFirstOut'
    <2>1. /\ \A k \in 1..n : given[k] >= Start
          /\ \A j, k \in 1..n : j < k => given[j] <= given[k]
      BY DEF LoopInv, Loop, PlanKeepsItsPromise, FirstInFirstOut
    <2>2. /\ \A k \in 1..(n + 1) : given'[k] >= Start
          /\ \A j, k \in 1..(n + 1) : j < k => given'[j] <= given'[k]
      BY <1>1, <1>2, <2>1, ScheduleAssumption
    <2>3. DOMAIN given' = 1..(n + 1)
      BY <1>2
    <2> QED
      BY <2>2, <2>3 DEF FirstInFirstOut
  <1>13. NoNeedlessWait'
    <2> DEFINE earlier(f, k) == IF k = 1 THEN Start ELSE f[k - 1]
               ahead(S, k)   == {e \in S : e.id > -k}
    <2>1. ASSUME NEW k \in 1..(n + 1), given'[k] > earlier(given', k)
          PROVE  Used(ahead(events', k), given'[k] - Margin - 1) + Clipped(costs[k]) > Limit
      <3>1. CASE k = n + 1
        <4>1. ahead(events', k) = events
          BY <1>1, <1>2, <1>4, <1>9, <3>1
        <4>2. earlier(given', k) = Latest
          <5>1. CASE n = 0
            BY <1>1, <3>1, <5>1 DEF LoopInv, Loop, Latest
          <5>2. CASE n # 0
            BY <1>1, <1>2, <3>1, <5>2 DEF LoopInv, Loop, Latest
          <5> QED
            BY <5>1, <5>2
        <4>3. clock > Latest
          BY <1>2, <2>1, <3>1, <4>2
        <4>4. Used(events, clock - Margin - 1) + Clipped(costs[k]) > Limit
          BY <1>1, <1>3, <3>1, <4>3 DEF LoopInv, Waited
        <4> QED
          BY <1>2, <3>1, <4>1, <4>4
      <3>2. CASE k \in 1..n
        <4>1. ahead(events', k) = ahead(events, k)
          BY <1>1, <1>2, <1>4, <3>2
        <4>2. given'[k] = given[k] /\ earlier(given', k) = earlier(given, k)
          BY <1>1, <1>2, <3>2
        <4>3. DOMAIN given = 1..n
          BY DEF LoopInv, Loop
        <4>4. \A i \in DOMAIN given : given[i] > earlier(given, i) =>
                Used(ahead(events, i), given[i] - Margin - 1) + Clipped(costs[i]) > Limit
          BY DEF LoopInv, PlanKeepsItsPromise, NoNeedlessWait
        <4>5. Used(ahead(events, k), given[k] - Margin - 1) + Clipped(costs[k]) > Limit
          BY <2>1, <3>2, <4>2, <4>3, <4>4
        <4> QED
          BY <4>1, <4>2, <4>5
      <3> QED
        BY <1>1, <3>1, <3>2
    <2>2. DOMAIN given' = 1..(n + 1)
      BY <1>2
    <2> QED
      BY <1>2, <2>1, <2>2 DEF NoNeedlessWait
  <1> QED
    BY <1>6, <1>7, <1>8, <1>11, <1>12, <1>13 DEF LoopInv, PlanKeepsItsPromise

LEMMA LoopInit == ScheduleInit => LoopInv
  <1> SUFFICES ASSUME ScheduleInit PROVE LoopInv
    OBVIOUS
  <1>1. logged \in SlotLogs /\ costs \in Seq(Int) /\ clock = Start /\ given = <<>> /\ Start \in Nat
        /\ events = InWindow(logged, Start)
    BY ScheduleAssumption DEF ScheduleInit
  <1>2. Loop
    BY <1>1 DEF Loop
  <1>3. Forward /\ Waited
    BY <1>1 DEF Forward, Waited, Latest
  <1>4. PlanKeepsItsPromise
    BY <1>1 DEF PlanKeepsItsPromise, PlannedWithinLimit, FirstInFirstOut, NoNeedlessWait
  <1> QED
    BY <1>2, <1>3, <1>4 DEF LoopInv

LEMMA LoopAlways == ScheduleSpec => []LoopInv
  <1>1. LoopInv /\ UNCHANGED scheduleVars => LoopInv'
    BY DEF scheduleVars, LoopInv, Loop, Forward, Waited, Latest, ToPlace, Turn, PlanKeepsItsPromise,
           PlannedWithinLimit, FirstInFirstOut, NoNeedlessWait
  <1>2. LoopInv /\ [ScheduleNext]_scheduleVars => LoopInv'
    BY <1>1, WaitKeeps, PlaceKeeps DEF ScheduleNext
  <1> QED
    BY <1>2, LoopInit, PTL DEF ScheduleSpec

-----------------------------------------------------------------------------
\* The plan of schedule() keeps every window within the limit, also with an over-full log and with
\* messages dearer than the limit; it is in the order of the messages, and no message waits longer
\* than it must and the margin.
THEOREM PlanKeepsItsPromiseAlways == ScheduleSpec => []PlanKeepsItsPromise
  BY LoopAlways, PTL DEF LoopInv

\* schedule() never takes min() of nothing: while a message does not fit, a slot or a message it
\* placed is in the window (the while loop of lib/rate_window.py).
THEOREM NeverWaitsForNothing ==
    ScheduleSpec => [](Turn <= Len(costs) /\ ~Fits => InWindow(events, clock) # {})
  <1>1. LoopInv => (Turn <= Len(costs) /\ ~Fits => InWindow(events, clock) # {})
    BY SomethingToWaitFor DEF LoopInv
  <1> QED
    BY <1>1, LoopAlways, PTL
=============================================================================
