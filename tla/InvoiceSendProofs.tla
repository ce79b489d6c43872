-------------------------- MODULE InvoiceSendProofs -------------------------
(***************************************************************************)
(* Proofs about InvoiceSend, for any invoices, levels, fees, ways of       *)
(* delivery and users: letters are printed whole, invoices tell of the     *)
(* reminders sent for them, what has left is accounted for, levels rise,   *)
(* and the fees asked for are those of the reminders sent before.          *)
(*                                                                         *)
(* A request works on the database as it read it, and others commit in the *)
(* meantime.  So the inductive invariant RemindersInv says of every        *)
(* request what it has handed over and how that differs from what it read  *)
(* (Sound), that new ids are its own (Unborn), and of the history that it  *)
(* is that of the rows (Ledger, Knowing, Rising, Asked); the rest is what  *)
(* the commit makes of it, when no row it wrote has changed (CommitIs).    *)
(***************************************************************************)
EXTENDS InvoiceSend, FiniteSetTheorems, SequenceTheorems, WellFoundedInduction, TLAPS

\* A finite set as a sequence: each element once (SetToSeq).
LEMMA SetToSeqIs ==
    ASSUME NEW S, IsFiniteSet(S)
    PROVE  /\ SetToSeq(S) \in Seq(S)
           /\ Len(SetToSeq(S)) = Cardinality(S)
           /\ \A i, j \in 1..Len(SetToSeq(S)) : SetToSeq(S)[i] = SetToSeq(S)[j] => i = j
           /\ \A x \in S : \E i \in 1..Len(SetToSeq(S)) : SetToSeq(S)[i] = x
<1> DEFINE n == Cardinality(S)
           f == SetToSeq(S)
<1>0. n \in Nat
  BY FS_CardinalityType
<1>1. \E g \in [1..n -> S] : IsInjective(g)
  <2>1. PICK g : ExistsBijection(1..n, S) /\ g \in Bijection(1..n, S)
    BY FS_CardinalityType DEF ExistsBijection
  <2> QED BY <2>1 DEF Bijection, Injection, IsInjective
<1>2. f \in [1..n -> S] /\ IsInjective(f)
  BY <1>1 DEF SetToSeq
<1> HIDE DEF f
<1>3. f \in Seq(S) /\ Len(f) = n
  BY <1>0, <1>2
<1>4. \A i, j \in 1..n : f[i] = f[j] => i = j
  BY <1>2 DEF IsInjective
<1>5. \A x \in S : \E i \in 1..n : f[i] = x
  <2> DEFINE R == {f[i] : i \in 1..n}
  <2>1. R \subseteq S
    BY <1>2
  <2>2. IsFiniteSet(1..n) /\ Cardinality(1..n) = n
    BY <1>0, FS_Interval
  <2>3. f \in Bijection(1..n, R)
    BY <1>2, <1>4 DEF Bijection, Injection, Surjection, IsInjective
  <2>4. ExistsBijection(1..n, R)
    BY <2>3 DEF ExistsBijection
  <2>5. IsFiniteSet(R) /\ Cardinality(R) = n
    BY <2>2, <2>4, FS_Bijection
  <2>6. R = S
    BY <2>1, <2>5, FS_Subset
  <2> QED BY <2>6
<1> QED BY <1>3, <1>4, <1>5 DEF f

-----------------------------------------------------------------------------
(* What holds of the rows, of a request, and of the database                 *)

RowFields == {"state", "moves", "level", "channel", "previous"}
RequestFields == {"kind", "fresh", "ids", "seen", "db", "todo", "left", "queued", "post"}

IsRow(x) == DOMAIN x = RowFields /\ x.moves \subseteq Invoices /\ x.level \in Nat
IsRows(rows) == DOMAIN rows = Reminders /\ \A r \in Reminders : IsRow(rows[r])

IsInvoice(x) == DOMAIN x = {"paid", "level", "count"} /\ x.level \in Nat /\ x.count \in Nat
IsInvoices(t) == DOMAIN t = Invoices /\ \A m \in Invoices : IsInvoice(t[m])

IsDatabase(db) == DOMAIN db = {"invoice", "reminder"} /\ IsInvoices(db.invoice) /\ IsRows(db.reminder)

\* The reminders a wizard creates.
IsFresh(fresh) ==
    /\ DOMAIN fresh \subseteq Reminders
    /\ \A r \in DOMAIN fresh : IsRow(fresh[r]) /\ fresh[r].state = "draft"

\* A reminder as the request finds it: one it creates, or one it reads.
Found(req, r) == IF r \in DOMAIN req.fresh THEN req.fresh[r] ELSE req.seen.reminder[r]

\* All the request has to send, and how many of it have been handed over.
Whole(req) == Drafts(Created(req.seen, req.fresh), req.ids)
Handed(req) == Len(Whole(req)) - Len(req.todo)
HandedOver(req) == {Whole(req)[i] : i \in 1..Handed(req)}

\* The places of the reminders of an invoice among those handed over.
About(req, m) == {i \in 1..Handed(req) : m \in Found(req, Whole(req)[i]).moves}

\* A request is somewhere in what it has to send.
Underneath(req) ==
    /\ IsDatabase(req.seen) /\ IsDatabase(req.db) /\ IsFresh(req.fresh)
    /\ \A r \in DOMAIN req.fresh : req.seen.reminder[r].state = "none"
    /\ req.ids \subseteq Reminders
    /\ req.todo \in Seq(Reminders) /\ Len(req.todo) <= Len(Whole(req))
    /\ \A i \in 1..Len(req.todo) : req.todo[i] = Whole(req)[Handed(req) + i]
    /\ req.left \cup req.queued \subseteq HandedOver(req)
    /\ req.left \cap req.queued = {}

\* Its own database is the one it read, with what it created, and what it has handed
\* over marked as sent.
RowsWritten(req) ==
    \A r \in Reminders :
        /\ req.db.reminder[r].moves = Found(req, r).moves
        /\ req.db.reminder[r].level = Found(req, r).level
        /\ req.db.reminder[r].state = IF r \in HandedOver(req) THEN "sent" ELSE Found(req, r).state
        /\ r \notin DOMAIN req.fresh => req.db.reminder[r].previous = Found(req, r).previous
        /\ r \notin HandedOver(req) \cup DOMAIN req.fresh => req.db.reminder[r] = req.seen.reminder[r]

InvoicesWritten(req) ==
    \A m \in Invoices :
        /\ req.db.invoice[m].count = req.seen.invoice[m].count + Cardinality(About(req, m))
        /\ About(req, m) = {} => req.db.invoice[m] = req.seen.invoice[m]
        /\ \A i \in About(req, m) :
            (\A j \in About(req, m) : j <= i) => req.db.invoice[m].level = Found(req, Whole(req)[i]).level

Sound(req) ==
    /\ DOMAIN req = RequestFields /\ req.kind \in {"wizard", "list"}
    /\ req.post # NoPost => req.todo # <<>>
    /\ Underneath(req) /\ RowsWritten(req) /\ InvoicesWritten(req)

Working(u) == request[u].kind \in {"wizard", "list"}

BatchFields == {"kind", "cron", "stage", "texts", "letters", "failed", "left", "post"}

\* Nothing, a batch of invoices, or a request for reminders.
NoReminders(req) ==
    req = Idle \/ (DOMAIN req = BatchFields /\ req.kind = "invoices" /\ req.left = {})
Going(req) == NoReminders(req) \/ Sound(req)

Rows ==
    /\ IsInvoices(invoice) /\ IsRows(reminder) /\ made \in 0..MaxReminders
    /\ copies \in [Reminders -> Nat] /\ wasted \in [Reminders -> Nat] /\ DOMAIN knew = Reminders
Wizards ==
    /\ DOMAIN wizard = Users
    /\ \A u \in Users :
        /\ DOMAIN wizard[u] = {"lines", "knew"} /\ IsFiniteSet(wizard[u].lines)
        /\ \A line \in wizard[u].lines : line.moves \subseteq Invoices /\ line.level \in Nat
Requests == DOMAIN request = Users /\ \A u \in Users : Going(request[u])

\* order has the reminders that are sent, each once.
Ledger ==
    /\ order \in Seq(Reminders)
    /\ \A i, j \in 1..Len(order) : order[i] = order[j] => i = j
    /\ \A r \in Reminders : reminder[r].state = "sent" <=> \E i \in 1..Len(order) : order[i] = r

\* A reminder that is being created is in nobody else's way.
Unborn ==
    /\ \A r \in Reminders : r > made => reminder[r].state = "none"
    /\ \A u \in Users : Working(u) =>
        \A r \in DOMAIN request[u].fresh : r <= made /\ reminder[r].state = "none"
    /\ \A u, v \in Users : Working(u) /\ Working(v) /\ u # v =>
        DOMAIN request[u].fresh \cap DOMAIN request[v].fresh = {}

\* What is known when a reminder is prepared has been sent, and what was known when
\* that was prepared is known as well.
Closed(known) == known \subseteq Sent /\ \A t \in known : knew[t] \subseteq known
Knowing ==
    /\ \A u \in Users : Closed(wizard[u].knew)
    /\ \A r \in Reminders : Closed(knew[r])

\* Levels rise from what was known on, for whatever is proposed, being created or there.
Rises(moves, level, known) ==
    \A r \in known :
        (reminder[r].moves \cap moves # {} /\ level <= reminder[r].level) =>
            \E t \in known : /\ r \notin knew[t]
                             /\ reminder[t].moves \cap reminder[r].moves # {}
                             /\ Place(r) < Place(t)
Rising ==
    /\ \A u \in Users : \A line \in wizard[u].lines : Rises(line.moves, line.level, wizard[u].knew)
    /\ \A r \in Reminders :
        reminder[r].state # "none" => Rises(reminder[r].moves, reminder[r].level, knew[r])
    /\ \A u \in Users : Working(u) =>
        \A r \in DOMAIN request[u].fresh :
            Rises(request[u].fresh[r].moves, request[u].fresh[r].level, knew[r])

\* All levels are levels.
Graded ==
    /\ \A u \in Users : \A line \in wizard[u].lines : line.level \in Levels
    /\ \A r \in Reminders : reminder[r].state # "none" => reminder[r].level \in Levels
    /\ \A u \in Users : Working(u) =>
        \A r \in DOMAIN request[u].fresh : request[u].fresh[r].level \in Levels

\* The fees that a request has put on a reminder it creates.
Previous(req, r) == req.db.reminder[r].previous

FeesOf(rows, S) == MapThenSumSet(LAMBDA r : LevelFee[rows[r].level], S)

\* These fees are of reminders sent for the invoices, all that are known among them.
Asks(previous, moves, known, A) ==
    /\ A \subseteq Sent /\ \A t \in A : reminder[t].moves \cap moves # {}
    /\ \A t \in known : reminder[t].moves \cap moves # {} => t \in A
    /\ previous = FeesOf(reminder, A)

\* The fees asked for are of reminders sent before, for a reminder there is or being created.
Asked ==
    /\ \A r \in Reminders : reminder[r].state # "none" =>
        \E A : /\ Asks(reminder[r].previous, reminder[r].moves, knew[r], A)
               /\ r \in Sent => \A t \in A : Place(t) < Place(r)
    /\ \A u \in Users : Working(u) =>
        \A r \in DOMAIN request[u].fresh :
            \E A : Asks(Previous(request[u], r), request[u].fresh[r].moves, knew[r], A)

RemindersInv ==
    /\ Rows /\ Wizards /\ Requests /\ Ledger /\ Unborn /\ InvoiceTellsReminders /\ LeavesOnce
    /\ Knowing /\ Rising /\ Graded /\ Asked

-----------------------------------------------------------------------------
(* Letters                                                                   *)

IsCampaign(c) ==
    /\ DOMAIN c = {"letters", "call", "server", "sealed", "loose"}
    /\ c.letters \in Nat \ {0} /\ c.sealed \in Nat
    /\ c.call = "create" => c.server = "none" /\ c.sealed = 0 /\ c.loose = FALSE
    /\ c.call = "envelope" => c.server = "open" /\ c.sealed < c.letters /\ c.loose = FALSE
    /\ c.call \in {"content", "seal"} => c.server = "open" /\ c.sealed < c.letters
    /\ c.call = "cancel" => c.server = "open"
    /\ c.call = "close" => c.server = "open" /\ c.sealed = c.letters /\ c.loose = FALSE
    /\ c.call \in {"create", "envelope", "content", "seal", "cancel", "close", "posted", "failed"}
    /\ c.call \in {"posted", "failed"} =>
        (c.server = "closed" => c.sealed = c.letters /\ c.loose = FALSE)

LEMMA NewCampaignIs ==
    ASSUME NEW n \in Nat, n # 0
    PROVE  IsCampaign(NewCampaign(n)) /\ NewCampaign(n).call = "create"
<1> DEFINE c == NewCampaign(n)
<1>1. /\ DOMAIN c = {"letters", "call", "server", "sealed", "loose"}
      /\ c.letters = n /\ c.call = "create" /\ c.server = "none" /\ c.sealed = 0 /\ c.loose = FALSE
  BY DEF NewCampaign
<1> HIDE DEF c
<1> QED BY <1>1 DEF IsCampaign, c

LEMMA AnsweredIs ==
    ASSUME NEW c, IsCampaign(c), Underway(c), NEW answer \in Answers
    PROVE  IsCampaign(Answered(c, answer))
<1> DEFINE e == IF answer = "refused" THEN c ELSE Effect(c)
           a == Answered(c, answer)
<1>0. c.call \in {"create", "envelope", "content", "seal", "cancel", "close"}
  BY DEF IsCampaign, Underway
<1>1. CASE c.call = "create"
  <2>1. Effect(c) = [c EXCEPT !.server = "open"]
    BY <1>1, Zenon DEF Effect
  <2>2. Following([c EXCEPT !.server = "open"]) = "envelope"
    BY <1>1 DEF Following, IsCampaign
  <2> QED BY <1>1, <2>1, <2>2 DEF IsCampaign, Answered, OnError, Answers
<1>2. CASE c.call = "envelope"
  <2>1. Effect(c) = [c EXCEPT !.loose = TRUE]
    BY <1>2, Zenon DEF Effect
  <2>2. Following([c EXCEPT !.loose = TRUE]) = "content"
    BY <1>2 DEF Following, IsCampaign
  <2> QED BY <1>2, <2>1, <2>2 DEF IsCampaign, Answered, OnError, Answers
<1>3. CASE c.call = "content"
  <2>1. Effect(c) = c
    BY <1>3, Zenon DEF Effect
  <2>2. Following(c) = "seal"
    BY <1>3 DEF Following, IsCampaign
  <2> QED BY <1>3, <2>1, <2>2 DEF IsCampaign, Answered, OnError, Answers
<1>4. CASE c.call = "seal"
  <2> DEFINE d == [c EXCEPT !.loose = FALSE, !.sealed = @ + 1]
  <2>1. Effect(c) = d
    BY <1>4, Zenon DEF Effect
  <2>2. /\ DOMAIN d = DOMAIN c /\ d.letters = c.letters /\ d.server = c.server /\ d.call = "seal"
        /\ d.sealed = c.sealed + 1 /\ d.loose = FALSE
    BY <1>4 DEF IsCampaign
  <2> HIDE DEF d
  <2>3. Following(d) = IF d.sealed # d.letters THEN "envelope" ELSE IF CloseAtOnce THEN "close" ELSE "posted"
    BY <2>2, Zenon DEF Following, AllSealed
  <2> QED BY <1>4, <2>1, <2>2, <2>3 DEF IsCampaign, Answered, OnError, Answers
<1>5. CASE c.call = "cancel"
  <2>1. Effect(c) = [c EXCEPT !.server = "cancelled"]
    BY <1>5, Zenon DEF Effect
  <2>2. Following([c EXCEPT !.server = "cancelled"]) = "failed"
    BY <1>5 DEF Following, IsCampaign
  <2> QED BY <1>5, <2>1, <2>2 DEF IsCampaign, Answered, OnError, Answers
<1>6. CASE c.call = "close"
  <2>1. Effect(c) = [c EXCEPT !.server = "closed"]
    BY <1>6, Zenon DEF Effect
  <2>2. Following([c EXCEPT !.server = "closed"]) = "posted"
    BY <1>6 DEF Following, IsCampaign
  <2> QED BY <1>6, <2>1, <2>2 DEF IsCampaign, Answered, OnError, Answers
<1> QED BY <1>0, <1>1, <1>2, <1>3, <1>4, <1>5, <1>6

\* What a campaign that will be printed has in it.
LEMMA PrintedWhole ==
    ASSUME NEW c, IsCampaign(c), Printed(c)
    PROVE  c.sealed = c.letters /\ ~c.loose
BY DEF IsCampaign, Printed

\* A request posts nothing, or a campaign as it can be.
Posts(req) == req.post = NoPost \/ IsCampaign(req.post)

\* A batch goes on after an error in the batch job only.
IsBatch(req) ==
    /\ DOMAIN req = BatchFields /\ req.kind = "invoices" /\ req.letters \subseteq Invoices
    /\ req.failed # {} => req.cron
    /\ Posts(req)

MayPost(req) ==
    \/ req = Idle
    \/ DOMAIN req = RequestFields /\ req.kind \in {"wizard", "list"} /\ Posts(req)
    \/ IsBatch(req)

LettersInv == DOMAIN request = Users /\ \A u \in Users : MayPost(request[u])

LEMMA LettersInit == Init => LettersInv
BY DEF Init, LettersInv, MayPost

LEMMA OneRequest ==
    ASSUME LettersInv, NEW u \in Users, NEW req, MayPost(req), request' = [request EXCEPT ![u] = req]
    PROVE  LettersInv'
BY DEF LettersInv, MayPost, IsBatch, Posts

LEMMA StartedPosts ==
    ASSUME NEW kind \in {"wizard", "list"}, NEW fresh, NEW ids
    PROVE  MayPost(Started(kind, fresh, ids))
BY DEF Started, MayPost, Posts, RequestFields

LEMMA DeliverPosts ==
    ASSUME LettersInv, NEW u \in Users, Working(u), NEW left, NEW queued, Deliver(u, left, queued)
    PROVE  LettersInv'
<1> DEFINE req == [request[u] EXCEPT !.todo = Tail(@), !.db = Marked(@, Head(request[u].todo)),
                      !.left = @ \cup left, !.queued = @ \cup queued, !.post = NoPost]
<1>1. request' = [request EXCEPT ![u] = req]
  BY DEF Deliver
<1>2. DOMAIN request[u] = RequestFields /\ request[u].kind \in {"wizard", "list"}
  BY DEF LettersInv, MayPost, Idle, IsBatch, Working
<1>3. DOMAIN req = RequestFields /\ req.kind = request[u].kind /\ req.post = NoPost
  BY <1>2 DEF RequestFields
<1> HIDE DEF req
<1> QED BY <1>1, <1>2, <1>3, OneRequest DEF MayPost, Posts

LEMMA RollBackPosts ==
    ASSUME LettersInv, NEW u \in Users, NEW more, RollBack(u, more)
    PROVE  LettersInv'
BY OneRequest DEF RollBack, MayPost

\* The campaign of a request goes on.
LEMMA CampaignPosts ==
    ASSUME LettersInv, NEW u \in Users, request[u] # Idle, NEW c, IsCampaign(c),
           request' = [request EXCEPT ![u].post = c]
    PROVE  LettersInv'
<1> DEFINE req == [request[u] EXCEPT !.post = c]
<1>1. request' = [request EXCEPT ![u] = req]
  BY DEF LettersInv
<1>2. MayPost(request[u])
  BY DEF LettersInv
<1>3. CASE IsBatch(request[u])
  <2>1. /\ DOMAIN req = BatchFields /\ req.kind = "invoices" /\ req.letters = request[u].letters
        /\ req.failed = request[u].failed /\ req.cron = request[u].cron /\ req.post = c
    BY <1>3 DEF BatchFields, IsBatch
  <2> HIDE DEF req
  <2>2. IsBatch(req)
    BY <1>3, <2>1 DEF IsBatch, Posts
  <2>3. MayPost(req)
    BY <2>2 DEF MayPost
  <2> QED BY <1>1, <2>3, OneRequest
<1>4. CASE DOMAIN request[u] = RequestFields /\ request[u].kind \in {"wizard", "list"}
  <2>1. DOMAIN req = RequestFields /\ req.kind = request[u].kind /\ req.post = c
    BY <1>4 DEF RequestFields
  <2> HIDE DEF req
  <2> QED BY <1>1, <1>4, <2>1, OneRequest DEF MayPost, Posts
<1> QED BY <1>2, <1>3, <1>4 DEF MayPost

LEMMA FailedPosts ==
    ASSUME NEW req, IsBatch(req), NEW next
    PROVE  MayPost(Failed(req, next))
<1>1. CASE req.cron
  <2> DEFINE g == [req EXCEPT !.stage = next, !.failed = @ \cup {req.stage}, !.post = NoPost]
  <2>1. DOMAIN g = BatchFields /\ g.kind = "invoices" /\ g.letters = req.letters /\ g.post = NoPost
    BY DEF IsBatch, BatchFields
  <2>2. g.cron
    BY <1>1 DEF IsBatch, BatchFields
  <2>3. Failed(req, next) = g
    BY <1>1 DEF Failed
  <2> HIDE DEF g
  <2> QED BY <2>1, <2>2, <2>3 DEF IsBatch, MayPost, Posts
<1>2. CASE ~req.cron
  BY <1>2 DEF Failed, MayPost
<1> QED BY <1>1, <1>2

\* A batch goes to its next stage.
LEMMA BatchPosts ==
    ASSUME LettersInv, NEW u \in Users, IsBatch(request[u]), NEW req,
           DOMAIN req = BatchFields, req.kind = "invoices", req.letters = request[u].letters,
           req.failed = request[u].failed, req.cron = request[u].cron, Posts(req),
           request' = [request EXCEPT ![u] = req]
    PROVE  LettersInv'
<1>1. IsBatch(req)
  BY DEF IsBatch
<1> QED BY <1>1, OneRequest DEF MayPost

LEMMA LettersStep == LettersInv /\ [Next]_vars => LettersInv'
<1> SUFFICES ASSUME LettersInv, [Next]_vars
             PROVE  LettersInv'
  OBVIOUS
<1> USE DEF Working
<1>0. CASE UNCHANGED request
  BY <1>0 DEF LettersInv, MayPost, IsBatch, Posts
<1>1. CASE \E u \in Users : Confirm(u)
  <2>1. PICK u \in Users : Confirm(u)
    BY <1>1
  <2>2. PICK fresh, ids : request' = [request EXCEPT ![u] = Started("wizard", fresh, ids)]
    BY <2>1, ZenonT(30) DEF Confirm
  <2> QED BY <2>2, StartedPosts, OneRequest
<1>2. CASE \E u \in Users : SendPrepared(u)
  <2>1. PICK u \in Users : SendPrepared(u)
    BY <1>2
  <2>2. PICK ids : request' = [request EXCEPT ![u] = Started("list", <<>>, ids)]
    BY <2>1 DEF SendPrepared
  <2> QED BY <2>2, StartedPosts, OneRequest
<1>3. ASSUME NEW u \in Users, SendEmail(u) PROVE LettersInv'
  BY <1>3, DeliverPosts DEF SendEmail, ToSend
<1>4. ASSUME NEW u \in Users, SendManual(u) PROVE LettersInv'
  BY <1>4, DeliverPosts DEF SendManual, ToSend
<1>5. ASSUME NEW u \in Users, SendSms(u) PROVE LettersInv'
  BY <1>5, DeliverPosts, RollBackPosts DEF SendSms, ToSend
<1>6. ASSUME NEW u \in Users, StartLetter(u) PROVE LettersInv'
  <2>1. IsCampaign(NewCampaign(1))
    BY NewCampaignIs
  <2>2. request[u] # Idle /\ request' = [request EXCEPT ![u].post = NewCampaign(1)]
    BY <1>6 DEF StartLetter, ToSend, Idle
  <2> QED BY <2>1, <2>2, CampaignPosts
<1>7. ASSUME NEW u \in Users, PostCall(u) PROVE LettersInv'
  <2>1. PICK answer \in Answers : request' = [request EXCEPT ![u].post = Answered(@, answer)]
    BY <1>7 DEF PostCall
  <2>2. request[u] # Idle /\ IsCampaign(request[u].post) /\ Underway(request[u].post)
    BY <1>7 DEF PostCall, Posting, LettersInv, MayPost, IsBatch, Posts
  <2>3. IsCampaign(Answered(request[u].post, answer))
    BY <2>2, AnsweredIs
  <2>4. request' = [request EXCEPT ![u].post = Answered(request[u].post, answer)]
    BY <2>1
  <2> QED BY <2>2, <2>3, <2>4, CampaignPosts
<1>8. ASSUME NEW u \in Users, EndLetter(u) PROVE LettersInv'
  BY <1>8, DeliverPosts, RollBackPosts DEF EndLetter
<1>9. ASSUME NEW u \in Users, Commit(u) PROVE LettersInv'
  BY <1>9, OneRequest DEF Commit, MayPost
<1>10. ASSUME NEW u \in Users, Rerun(u) PROVE LettersInv'
  <2> DEFINE again == Started(request[u].kind, request[u].fresh, request[u].ids)
  <2>1. request[u].kind \in {"wizard", "list"} /\ request' = [request EXCEPT ![u] = IF Checked(again) THEN again ELSE Idle]
    BY <1>10 DEF Rerun
  <2>2. MayPost(again)
    BY <2>1, StartedPosts
  <2>3. MayPost(IF Checked(again) THEN again ELSE Idle)
    BY <2>2 DEF MayPost
  <2> HIDE DEF again
  <2> QED BY <2>1, <2>3, OneRequest
<1>11. ASSUME NEW u \in Users, SendInvoices(u) PROVE LettersInv'
  <2>1. PICK batch \in Batches, cron \in BOOLEAN : request' = [request EXCEPT ![u] =
            [kind |-> "invoices", cron |-> cron, stage |-> "sms", texts |-> SetToSeq(batch.texts),
             letters |-> batch.letters, failed |-> {}, left |-> {}, post |-> NoPost]]
    BY <1>11 DEF SendInvoices
  <2>2. batch.letters \subseteq Invoices
    BY BatchesAssumption DEF BatchesAssumption
  <2> DEFINE req == [kind |-> "invoices", cron |-> cron, stage |-> "sms", texts |-> SetToSeq(batch.texts),
             letters |-> batch.letters, failed |-> {}, left |-> {}, post |-> NoPost]
  <2>3. MayPost(req)
    BY <2>2 DEF MayPost, IsBatch, BatchFields, Posts
  <2> HIDE DEF req
  <2>4. request' = [request EXCEPT ![u] = req]
    BY <2>1 DEF req
  <2> QED BY <2>3, <2>4, OneRequest
<1>12. ASSUME NEW u \in Users, SmsInvoice(u) PROVE LettersInv'
  <2>1. IsBatch(request[u])
    BY <1>12 DEF SmsInvoice, Sending, LettersInv, MayPost, Idle
  <2> DEFINE req1 == [request[u] EXCEPT !.stage = "letters"]
             req2 == [request[u] EXCEPT !.texts = Tail(@)]
  <2>2. \/ request' = [request EXCEPT ![u] = req1]
        \/ request' = [request EXCEPT ![u] = req2]
        \/ request' = [request EXCEPT ![u] = Failed(request[u], "letters")]
    BY <1>12 DEF SmsInvoice, LettersInv
  <2>3. ASSUME NEW req \in {req1, req2} PROVE
            /\ DOMAIN req = BatchFields /\ req.kind = "invoices" /\ req.letters = request[u].letters
            /\ req.failed = request[u].failed /\ req.post = request[u].post
    BY <2>1 DEF IsBatch, BatchFields
  <2>4. ASSUME NEW req \in {req1, req2} PROVE req.cron = request[u].cron
    BY <2>1 DEF IsBatch, BatchFields
  <2> HIDE DEF req1, req2
  <2>5. ASSUME NEW req \in {req1, req2} PROVE Posts(req)
    BY <2>1, <2>3 DEF IsBatch, Posts
  <2>6. ASSUME NEW req \in {req1, req2}, request' = [request EXCEPT ![u] = req] PROVE LettersInv'
    BY <2>1, <2>3, <2>4, <2>5, <2>6, BatchPosts
  <2> QED BY <2>1, <2>2, <2>6, FailedPosts, OneRequest
<1>13. ASSUME NEW u \in Users, StartLetters(u) PROVE LettersInv'
  <2>1. IsBatch(request[u])
    BY <1>13 DEF StartLetters, Sending, LettersInv, MayPost, Idle
  <2> DEFINE n == Cardinality(request[u].letters)
             req == [request[u] EXCEPT !.stage = "mail"]
  <2>2. n \in Nat
    BY <2>1, FS_Subset, FS_CardinalityType, ReminderAssumption DEF ReminderAssumption, IsBatch
  <2>3. CASE n = 0
    <3>1. request' = [request EXCEPT ![u] = req]
      BY <1>13, <2>3 DEF StartLetters
    <3>2. /\ DOMAIN req = BatchFields /\ req.kind = "invoices" /\ req.letters = request[u].letters
          /\ req.failed = request[u].failed /\ req.post = request[u].post
      BY <2>1 DEF IsBatch, BatchFields
    <3>3. req.cron = request[u].cron
      BY <2>1 DEF IsBatch, BatchFields
    <3> HIDE DEF req
    <3>4. Posts(req)
      BY <2>1, <3>2 DEF IsBatch, Posts
    <3> QED BY <2>1, <3>1, <3>2, <3>3, <3>4, BatchPosts
  <2>4. CASE n # 0
    <3>1. request' = [request EXCEPT ![u].post = NewCampaign(n)]
      BY <1>13, <2>4 DEF StartLetters, LettersInv
    <3>2. IsCampaign(NewCampaign(n))
      BY <2>2, <2>4, NewCampaignIs
    <3>3. request[u] # Idle
      BY <2>1 DEF IsBatch, Idle
    <3> QED BY <3>1, <3>2, <3>3, CampaignPosts
  <2> QED BY <2>3, <2>4
<1>14. ASSUME NEW u \in Users, EndLetters(u) PROVE LettersInv'
  <2>1. IsBatch(request[u])
    BY <1>14 DEF EndLetters, LettersInv, MayPost, Idle
  <2> DEFINE req == [request[u] EXCEPT !.stage = "mail", !.post = NoPost]
  <2>2. \/ request' = [request EXCEPT ![u] = req]
        \/ request' = [request EXCEPT ![u] = Failed(request[u], "mail")]
    BY <1>14 DEF EndLetters
  <2>3. /\ DOMAIN req = BatchFields /\ req.kind = "invoices" /\ req.letters = request[u].letters
        /\ req.failed = request[u].failed /\ req.post = NoPost
    BY <2>1 DEF IsBatch, BatchFields
  <2>4. req.cron = request[u].cron
    BY <2>1 DEF IsBatch, BatchFields
  <2> HIDE DEF req
  <2>5. Posts(req)
    BY <2>3 DEF Posts
  <2> QED BY <2>1, <2>2, <2>3, <2>4, <2>5, BatchPosts, FailedPosts, OneRequest
<1>15. ASSUME NEW u \in Users, EndBatch(u) PROVE LettersInv'
  BY <1>15, OneRequest DEF EndBatch, MayPost
<1>16. CASE (\E u \in Users : OpenWizard(u)) \/ (\E r \in Reminders : Cancel(r))
            \/ (\E m \in Invoices : Pay(m)) \/ NextDay \/ UNCHANGED vars
  BY <1>0, <1>16 DEF OpenWizard, Cancel, Pay, NextDay, vars
<1> QED
  BY <1>1, <1>2, <1>3, <1>4, <1>5, <1>6, <1>7, <1>8, <1>9, <1>10, <1>11, <1>12, <1>13, <1>14, <1>15,
     <1>16 DEF Next, ReminderNext

\* LettersWhole: a campaign that is printed has all its letters, each of them whole,
\* and only the batch job sends mails after an error (_ekopost_post_pdfs,
\* _hook_if_success).
THEOREM LettersWholeAlways == Spec => []LettersWhole
<1>1. LettersInv => LettersWhole
  <2> SUFFICES ASSUME LettersInv, NEW u \in Users, request[u] # Idle
               PROVE  /\ Posting(u) /\ Printed(request[u].post) =>
                            request[u].post.sealed = request[u].post.letters /\ ~request[u].post.loose
                      /\ Sending(u, "mail") /\ request[u].failed # {} => request[u].cron
    BY DEF LettersWhole
  <2>1. Posting(u) => IsCampaign(request[u].post)
    BY DEF LettersInv, MayPost, IsBatch, Posts, Posting
  <2>2. Sending(u, "mail") => IsBatch(request[u])
    BY DEF LettersInv, MayPost, Sending
  <2> QED BY <2>1, <2>2, PrintedWhole DEF IsBatch
<1> QED BY <1>1, LettersInit, LettersStep, PTL DEF Spec

-----------------------------------------------------------------------------
(* Requests                                                                  *)

\* The database a request starts with (create_for): what it creates and what it reads.
LEMMA CreatedIs ==
    ASSUME NEW seen, NEW fresh, IsDatabase(seen), IsFresh(fresh)
    PROVE  /\ IsDatabase(Created(seen, fresh))
           /\ Created(seen, fresh).invoice = seen.invoice
           /\ \A r \in Reminders :
                LET found == IF r \in DOMAIN fresh THEN fresh[r] ELSE seen.reminder[r]
                    row   == Created(seen, fresh).reminder[r]
                IN  /\ row.state = found.state /\ row.moves = found.moves /\ row.level = found.level
                    /\ r \notin DOMAIN fresh => row = seen.reminder[r]
                    /\ r \in DOMAIN fresh => row.previous = PreviousFees(seen.reminder, fresh[r].moves)
<1> DEFINE db == Created(seen, fresh)
           rows == [r \in Reminders |->
                        IF r \in DOMAIN fresh
                        THEN [fresh[r] EXCEPT !.previous = PreviousFees(seen.reminder, fresh[r].moves)]
                        ELSE seen.reminder[r]]
<1>1. db = [seen EXCEPT !.reminder = rows]
  BY DEF Created
<1>2. DOMAIN db = {"invoice", "reminder"} /\ db.invoice = seen.invoice /\ db.reminder = rows
  BY <1>1 DEF IsDatabase
<1>3. ASSUME NEW r \in Reminders
      PROVE  /\ IsRow(rows[r])
             /\ r \in DOMAIN fresh => /\ rows[r].state = fresh[r].state /\ rows[r].moves = fresh[r].moves
                                      /\ rows[r].level = fresh[r].level
                                      /\ rows[r].previous = PreviousFees(seen.reminder, fresh[r].moves)
             /\ r \notin DOMAIN fresh => rows[r] = seen.reminder[r]
  <2>1. CASE r \in DOMAIN fresh
    <3>1. IsRow(fresh[r])
      BY <2>1 DEF IsFresh
    <3> DEFINE row == [fresh[r] EXCEPT !.previous = PreviousFees(seen.reminder, fresh[r].moves)]
    <3>2. /\ DOMAIN row = RowFields /\ row.state = fresh[r].state /\ row.moves = fresh[r].moves
          /\ row.level = fresh[r].level /\ row.previous = PreviousFees(seen.reminder, fresh[r].moves)
      BY <3>1 DEF IsRow, RowFields
    <3>3. rows[r] = row
      BY <2>1
    <3> HIDE DEF row, rows
    <3> QED BY <2>1, <3>1, <3>2, <3>3 DEF IsRow
  <2>2. CASE r \notin DOMAIN fresh
    BY <2>2 DEF IsDatabase, IsRows
  <2> QED BY <2>1, <2>2
<1>4. DOMAIN rows = Reminders
  OBVIOUS
<1> HIDE DEF db, rows
<1>5. IsDatabase(db)
  BY <1>2, <1>3, <1>4 DEF IsDatabase, IsRows
<1> QED BY <1>2, <1>3, <1>5 DEF db

\* All that a request has to send (action_send): the drafts among its reminders, each once.
LEMMA WholeIs ==
    ASSUME NEW req, IsDatabase(req.seen), IsFresh(req.fresh), req.ids \subseteq Reminders
    PROVE  /\ Whole(req) \in Seq(Reminders) /\ Len(Whole(req)) \in Nat
           /\ \A i \in 1..Len(Whole(req)) : Whole(req)[i] \in req.ids /\ Found(req, Whole(req)[i]).state = "draft"
           /\ \A i, j \in 1..Len(Whole(req)) : Whole(req)[i] = Whole(req)[j] => i = j
           /\ \A r \in req.ids : Found(req, r).state = "draft" => \E i \in 1..Len(Whole(req)) : Whole(req)[i] = r
<1> DEFINE S == {r \in req.ids : Created(req.seen, req.fresh).reminder[r].state = "draft"}
<1>1. S = {r \in req.ids : Found(req, r).state = "draft"}
  BY CreatedIs DEF Found
<1>2. IsFiniteSet(S)
  <2>1. IsFiniteSet(Reminders)
    BY FS_Interval, ReminderAssumption DEF ReminderAssumption, Reminders
  <2>2. S \subseteq Reminders
    OBVIOUS
  <2> QED BY <2>1, <2>2, FS_Subset
<1>3. Whole(req) = SetToSeq(S)
  BY DEF Whole, Drafts
<1> HIDE DEF S
<1>4. /\ SetToSeq(S) \in Seq(S)
      /\ \A i, j \in 1..Len(SetToSeq(S)) : SetToSeq(S)[i] = SetToSeq(S)[j] => i = j
      /\ \A x \in S : \E i \in 1..Len(SetToSeq(S)) : SetToSeq(S)[i] = x
  BY <1>2, SetToSeqIs
<1> DEFINE w == Whole(req)
<1> HIDE DEF w
<1>5. /\ w \in Seq(S)
      /\ \A i, j \in 1..Len(w) : w[i] = w[j] => i = j
      /\ \A x \in S : \E i \in 1..Len(w) : w[i] = x
  BY <1>3, <1>4 DEF w
<1>6. S \subseteq Reminders
  BY <1>1
<1>7. w \in Seq(Reminders) /\ Len(w) \in Nat /\ \A i \in 1..Len(w) : w[i] \in S
  BY <1>5, <1>6
<1> QED BY <1>1, <1>5, <1>7 DEF w

\* Adding the next place to a set of places.
LEMMA PlaceAdded ==
    ASSUME NEW n \in Nat, NEW A, A \subseteq 1..n
    PROVE  /\ IsFiniteSet(A) /\ Cardinality(A) \in Nat
           /\ Cardinality(A \cup {n + 1}) = Cardinality(A) + 1
<1>1. IsFiniteSet(1..n)
  BY FS_Interval
<1>2. IsFiniteSet(A)
  BY <1>1, FS_Subset
<1> DEFINE k == n + 1
<1>3. k \notin A
  OBVIOUS
<1> HIDE DEF k
<1>4. Cardinality(A \cup {k}) = Cardinality(A) + 1
  BY <1>2, <1>3, FS_AddElement
<1> QED BY <1>2, <1>4, FS_CardinalityType DEF k

\* A request that begins has handed over nothing.
LEMMA StartedSound ==
    ASSUME IsInvoices(invoice), IsRows(reminder), NEW kind \in {"wizard", "list"},
           NEW fresh, IsFresh(fresh), \A r \in DOMAIN fresh : reminder[r].state = "none",
           NEW ids, ids \subseteq Reminders
    PROVE  /\ Sound(Started(kind, fresh, ids))
           /\ Started(kind, fresh, ids).left = {} /\ Started(kind, fresh, ids).fresh = fresh
           /\ Started(kind, fresh, ids).seen = Database
           /\ Started(kind, fresh, ids).ids = ids /\ Started(kind, fresh, ids).kind = kind
           /\ \A r \in DOMAIN fresh :
                Started(kind, fresh, ids).db.reminder[r].previous = PreviousFees(reminder, fresh[r].moves)
<1> DEFINE req == Started(kind, fresh, ids)
<1>1. /\ DOMAIN req = RequestFields /\ req.kind = kind /\ req.fresh = fresh /\ req.ids = ids
      /\ req.seen = Database /\ req.db = Created(Database, fresh)
      /\ req.todo = Drafts(Created(Database, fresh), ids) /\ req.left = {} /\ req.queued = {}
      /\ req.post = NoPost
  BY DEF Started, RequestFields
<1> HIDE DEF req
<1>2. IsDatabase(Database)
  BY DEF IsDatabase, Database
<1>3. Whole(req) = req.todo
  BY <1>1 DEF Whole
<1>4. Whole(req) \in Seq(Reminders) /\ Len(Whole(req)) \in Nat
  BY <1>1, <1>2, WholeIs
<1>5. Handed(req) = 0 /\ HandedOver(req) = {} /\ \A m \in Invoices : About(req, m) = {}
  BY <1>3, <1>4 DEF Handed, HandedOver, About
<1>6. Underneath(req)
  <2>1. IsDatabase(req.db)
    BY <1>1, <1>2, CreatedIs
  <2>2. \A i \in 1..Len(req.todo) : req.todo[i] = Whole(req)[Handed(req) + i]
    BY <1>3, <1>4, <1>5
  <2>3. \A r \in DOMAIN req.fresh : req.seen.reminder[r].state = "none"
    BY <1>1 DEF Database
  <2> QED BY <1>1, <1>2, <1>3, <1>4, <1>5, <2>1, <2>2, <2>3 DEF Underneath
<1>7. RowsWritten(req)
  BY <1>1, <1>2, <1>5, CreatedIs DEF RowsWritten, Found
<1>8. InvoicesWritten(req)
  <2>1. req.db.invoice = req.seen.invoice
    BY <1>1, <1>2, CreatedIs
  <2>2. Cardinality({}) = 0
    BY FS_EmptySet
  <2>3. \A m \in Invoices : req.seen.invoice[m].count \in Nat
    BY <1>1, <1>2 DEF IsDatabase, IsInvoices, IsInvoice
  <2> SUFFICES ASSUME NEW m \in Invoices
               PROVE  /\ req.db.invoice[m].count = req.seen.invoice[m].count + Cardinality(About(req, m))
                      /\ req.db.invoice[m] = req.seen.invoice[m] /\ About(req, m) = {}
    BY DEF InvoicesWritten
  <2>4. Cardinality(About(req, m)) = 0
    BY <1>5, <2>2
  <2> QED BY <1>5, <2>1, <2>3, <2>4
<1>9. \A r \in DOMAIN fresh : req.db.reminder[r].previous = PreviousFees(reminder, fresh[r].moves)
  <2>1. Database.reminder = reminder
    BY DEF Database
  <2>2. \A r \in DOMAIN fresh : r \in Reminders
    BY DEF IsFresh
  <2> QED BY <1>1, <1>2, <2>1, <2>2, CreatedIs
<1> QED BY <1>1, <1>6, <1>7, <1>8, <1>9 DEF Sound, req

\* What does not concern the campaign.
LEMMA PostSound ==
    ASSUME NEW req, Sound(req), req.todo # <<>>, NEW post
    PROVE  /\ Sound([req EXCEPT !.post = post])
           /\ [req EXCEPT !.post = post].left = req.left /\ [req EXCEPT !.post = post].fresh = req.fresh
           /\ [req EXCEPT !.post = post].kind = req.kind /\ [req EXCEPT !.post = post].db = req.db
<1> DEFINE new == [req EXCEPT !.post = post]
<1>1. /\ DOMAIN new = RequestFields /\ new.kind = req.kind /\ new.fresh = req.fresh /\ new.ids = req.ids
      /\ new.seen = req.seen /\ new.db = req.db /\ new.todo = req.todo /\ new.left = req.left
      /\ new.queued = req.queued
  BY DEF Sound, RequestFields
<1> HIDE DEF new
<1>2. Whole(new) = Whole(req) /\ Handed(new) = Handed(req) /\ HandedOver(new) = HandedOver(req)
  BY <1>1 DEF Whole, Handed, HandedOver
<1>3. \A r : Found(new, r) = Found(req, r)
  BY <1>1 DEF Found
<1>4. \A m \in Invoices : About(new, m) = About(req, m)
  BY <1>2, <1>3 DEF About
<1>5. Underneath(new)
  BY <1>1, <1>2 DEF Underneath, Sound
<1>6. RowsWritten(new)
  BY <1>1, <1>2, <1>3 DEF RowsWritten, Sound
<1>7. InvoicesWritten(new)
  BY <1>1, <1>2, <1>3, <1>4 DEF InvoicesWritten, Sound
<1> QED BY <1>1, <1>5, <1>6, <1>7 DEF Sound, new

\* The reminder that is next: a draft as the request found it, not handed over yet.
LEMMA NextToSend ==
    ASSUME NEW req, Sound(req), req.todo # <<>>
    PROVE  /\ Handed(req) \in Nat /\ Handed(req) + 1 \in 1..Len(Whole(req))
           /\ Head(req.todo) = Whole(req)[Handed(req) + 1]
           /\ Head(req.todo) \in Reminders /\ Head(req.todo) \in req.ids
           /\ Head(req.todo) \notin HandedOver(req)
           /\ Found(req, Head(req.todo)).state = "draft"
<1> DEFINE w == Whole(req)
<1>1. /\ w \in Seq(Reminders) /\ Len(w) \in Nat
      /\ \A i \in 1..Len(w) : w[i] \in req.ids /\ Found(req, w[i]).state = "draft"
      /\ \A i, j \in 1..Len(w) : w[i] = w[j] => i = j
  BY WholeIs DEF Sound, Underneath
<1>2. /\ req.todo \in Seq(Reminders) /\ Len(req.todo) <= Len(w)
      /\ \A i \in 1..Len(req.todo) : req.todo[i] = w[Handed(req) + i]
      /\ Handed(req) = Len(w) - Len(req.todo)
  BY DEF Sound, Underneath, Handed
<1>3. Len(req.todo) \in Nat /\ Len(req.todo) >= 1 /\ Head(req.todo) = req.todo[1]
  BY <1>2
<1> DEFINE h == Handed(req)
<1>4. HandedOver(req) = {w[i] : i \in 1..h}
  BY DEF HandedOver
<1>5. h \in Nat /\ h + 1 \in 1..Len(w) /\ Head(req.todo) = w[h + 1]
  <2> DEFINE n == Len(w)
             t == Len(req.todo)
  <2> HIDE DEF w
  <2>a. 1 \in 1..Len(req.todo)
    BY <1>3
  <2>b. \A i \in 1..Len(req.todo) : req.todo[i] = w[h + i]
    BY <1>2
  <2> HIDE DEF h
  <2>0. req.todo[1] = w[h + 1]
    BY <2>a, <2>b
  <2>1. n \in Nat /\ t \in Nat /\ t >= 1 /\ t <= n /\ h = n - t /\ w[h + 1] = req.todo[1]
    BY <1>1, <1>2, <1>3, <2>0 DEF h
  <2> HIDE DEF n, t
  <2>2. h \in Nat /\ h + 1 \in 1..n
    BY <2>1
  <2> QED BY <1>3, <2>1, <2>2 DEF n
<1> HIDE DEF w, h
<1>6. Head(req.todo) \notin HandedOver(req)
  BY <1>1, <1>4, <1>5
<1>7. Head(req.todo) \in req.ids /\ Found(req, Head(req.todo)).state = "draft" /\ Head(req.todo) \in Reminders
  BY <1>1, <1>5
<1> QED BY <1>5, <1>6, <1>7 DEF w, h

\* Marking a reminder writes its row and those of its invoices (_mark_sent).
LEMMA MarkedIs ==
    ASSUME NEW db, IsDatabase(db), NEW r \in Reminders
    PROVE  /\ IsDatabase(Marked(db, r))
           /\ \A s \in Reminders :
                /\ s # r => Marked(db, r).reminder[s] = db.reminder[s]
                /\ Marked(db, r).reminder[s].moves = db.reminder[s].moves
                /\ Marked(db, r).reminder[s].level = db.reminder[s].level
                /\ Marked(db, r).reminder[s].previous = db.reminder[s].previous
           /\ Marked(db, r).reminder[r].state = "sent"
           /\ \A m \in Invoices :
                /\ m \notin db.reminder[r].moves => Marked(db, r).invoice[m] = db.invoice[m]
                /\ m \in db.reminder[r].moves =>
                    /\ Marked(db, r).invoice[m].level = db.reminder[r].level
                    /\ Marked(db, r).invoice[m].count = db.invoice[m].count + 1
<1> DEFINE new == Marked(db, r)
           row == [db.reminder[r] EXCEPT !.state = "sent"]
           level == db.reminder[r].level
<1>1. /\ DOMAIN new = {"invoice", "reminder"}
      /\ new.invoice = [m \in Invoices |-> IF m \in db.reminder[r].moves
                                           THEN Reminded(db.invoice[m], level) ELSE db.invoice[m]]
      /\ new.reminder = [db.reminder EXCEPT ![r] = row]
  BY DEF Marked
<1> HIDE DEF new
<1>2. IsRow(db.reminder[r])
  BY DEF IsDatabase, IsRows
<1>3. /\ DOMAIN row = RowFields /\ row.state = "sent" /\ row.moves = db.reminder[r].moves
      /\ row.level = db.reminder[r].level /\ row.previous = db.reminder[r].previous
  BY <1>2 DEF IsRow, RowFields
<1> HIDE DEF row
<1>4. IsRow(row)
  BY <1>2, <1>3 DEF IsRow
<1>5. DOMAIN new.reminder = Reminders /\ new.reminder[r] = row /\ \A s \in Reminders \ {r} : new.reminder[s] = db.reminder[s]
  BY <1>1 DEF IsDatabase, IsRows
<1>6. IsRows(new.reminder)
  BY <1>4, <1>5 DEF IsDatabase, IsRows
<1>7. ASSUME NEW m \in Invoices
      PROVE  /\ IsInvoice(Reminded(db.invoice[m], level))
             /\ Reminded(db.invoice[m], level).level = level
             /\ Reminded(db.invoice[m], level).count = db.invoice[m].count + 1
  <2>1. IsInvoice(db.invoice[m])
    BY DEF IsDatabase, IsInvoices
  <2> DEFINE i == db.invoice[m]
             j == [i EXCEPT !.level = level, !.count = @ + 1]
  <2>2. j = Reminded(i, level)
    BY DEF Reminded
  <2>3. DOMAIN j = DOMAIN i /\ j.level = level /\ j.count = i.count + 1
    BY <2>1 DEF IsInvoice
  <2>4. level \in Nat
    BY <1>2 DEF IsRow
  <2> HIDE DEF j, level
  <2> QED BY <2>1, <2>2, <2>3, <2>4 DEF IsInvoice
<1> HIDE DEF level
<1>8. IsInvoices(new.invoice)
  BY <1>1, <1>7 DEF IsInvoices, IsDatabase
<1>9. IsDatabase(new)
  BY <1>1, <1>6, <1>8 DEF IsDatabase
<1> QED BY <1>1, <1>3, <1>5, <1>7, <1>9 DEF new, level

\* A reminder handed over and marked.
Handing(req, left, queued) ==
    [req EXCEPT !.todo = Tail(@), !.db = Marked(@, Head(req.todo)), !.left = @ \cup left,
                !.queued = @ \cup queued, !.post = NoPost]

LEMMA HandingIs ==
    ASSUME NEW req, Sound(req), req.todo # <<>>, NEW left, NEW queued
    PROVE  LET new == Handing(req, left, queued)
           IN  /\ DOMAIN new = RequestFields /\ new.kind = req.kind /\ new.fresh = req.fresh
               /\ new.ids = req.ids /\ new.seen = req.seen /\ new.db = Marked(req.db, Head(req.todo))
               /\ new.todo = Tail(req.todo) /\ new.left = req.left \cup left
               /\ new.queued = req.queued \cup queued /\ new.post = NoPost
               /\ Whole(new) = Whole(req) /\ Handed(new) = Handed(req) + 1
               /\ HandedOver(new) = HandedOver(req) \cup {Head(req.todo)}
               /\ \A r : Found(new, r) = Found(req, r)
<1> DEFINE new == Handing(req, left, queued)
           h == Handed(req)
           w == Whole(req)
<1>1. /\ DOMAIN new = RequestFields /\ new.kind = req.kind /\ new.fresh = req.fresh
      /\ new.ids = req.ids /\ new.seen = req.seen /\ new.db = Marked(req.db, Head(req.todo))
      /\ new.todo = Tail(req.todo) /\ new.left = req.left \cup left
      /\ new.queued = req.queued \cup queued /\ new.post = NoPost
  BY DEF Handing, Sound, RequestFields
<1> HIDE DEF new
<1>2. Whole(new) = w
  BY <1>1 DEF Whole
<1>3. w \in Seq(Reminders) /\ Len(w) \in Nat
  BY WholeIs DEF Sound, Underneath
<1>4. Len(req.todo) \in Nat /\ Len(Tail(req.todo)) = Len(req.todo) - 1
  BY DEF Sound, Underneath
<1>5. h = Len(w) - Len(req.todo) /\ Handed(new) = Len(w) - Len(new.todo)
  BY <1>2 DEF Handed
<1>6. Handed(new) = h + 1
  <2> DEFINE n == Len(w)
             t == Len(req.todo)
             s == Len(Tail(req.todo))
  <2>1. n \in Nat /\ t \in Nat /\ s = t - 1 /\ h = n - t /\ Handed(new) = n - s
    BY <1>1, <1>3, <1>4, <1>5
  <2> HIDE DEF n, t, s, h
  <2> QED BY <2>1
<1>7. h \in Nat /\ h + 1 \in 1..Len(w) /\ Head(req.todo) = w[h + 1]
  BY NextToSend
<1>8. HandedOver(req) = {w[i] : i \in 1..h} /\ HandedOver(new) = {w[i] : i \in 1..(h + 1)}
  BY <1>2, <1>6 DEF HandedOver
<1>9. HandedOver(new) = HandedOver(req) \cup {Head(req.todo)}
  <2> HIDE DEF h, w
  <2>1. \A i : i \in 1..(h + 1) <=> i \in 1..h \/ i = h + 1
    BY <1>7
  <2> QED BY <1>7, <1>8, <2>1
<1>10. \A r : Found(new, r) = Found(req, r)
  BY <1>1 DEF Found
<1> HIDE DEF h, w
<1> QED BY <1>1, <1>2, <1>6, <1>9, <1>10 DEF new, h, w

LEMMA HandingSound ==
    ASSUME NEW req, Sound(req), req.todo # <<>>, NEW left, NEW queued,
           left \cup queued \subseteq {Head(req.todo)}, left \cap queued = {}
    PROVE  /\ Sound(Handing(req, left, queued))
           /\ \A r \in Reminders : Handing(req, left, queued).db.reminder[r].previous = req.db.reminder[r].previous
<1> DEFINE new == Handing(req, left, queued)
           h == Handed(req)
           w == Whole(req)
           r == Head(req.todo)
<1>1. /\ DOMAIN new = RequestFields /\ new.kind = req.kind /\ new.fresh = req.fresh
      /\ new.ids = req.ids /\ new.seen = req.seen /\ new.db = Marked(req.db, r)
      /\ new.todo = Tail(req.todo) /\ new.left = req.left \cup left
      /\ new.queued = req.queued \cup queued /\ new.post = NoPost
      /\ Whole(new) = w /\ Handed(new) = h + 1 /\ HandedOver(new) = HandedOver(req) \cup {r}
      /\ \A x : Found(new, x) = Found(req, x)
  BY HandingIs
<1>2. /\ h \in Nat /\ h + 1 \in 1..Len(w) /\ r = w[h + 1] /\ r \in Reminders /\ r \in req.ids
      /\ r \notin HandedOver(req) /\ Found(req, r).state = "draft"
  BY NextToSend
<1>3. Underneath(req) /\ RowsWritten(req) /\ InvoicesWritten(req) /\ req.kind \in {"wizard", "list"}
  BY DEF Sound
<1>4. w \in Seq(Reminders) /\ Len(w) \in Nat
  BY <1>3, WholeIs DEF Underneath
<1> HIDE DEF new, h, w, r
<1>6. IsDatabase(req.db)
  BY <1>3 DEF Underneath
<1>7. /\ IsDatabase(new.db)
      /\ \A s \in Reminders :
           /\ s # r => new.db.reminder[s] = req.db.reminder[s]
           /\ new.db.reminder[s].moves = req.db.reminder[s].moves
           /\ new.db.reminder[s].level = req.db.reminder[s].level
           /\ new.db.reminder[s].previous = req.db.reminder[s].previous
      /\ new.db.reminder[r].state = "sent"
      /\ \A m \in Invoices :
           /\ m \notin req.db.reminder[r].moves => new.db.invoice[m] = req.db.invoice[m]
           /\ m \in req.db.reminder[r].moves =>
                /\ new.db.invoice[m].level = req.db.reminder[r].level
                /\ new.db.invoice[m].count = req.db.invoice[m].count + 1
  <2> DEFINE old == req.db
             db == new.db
  <2>1. db = Marked(old, r) /\ IsDatabase(old) /\ r \in Reminders
    BY <1>1, <1>2, <1>6
  <2> HIDE DEF old, db
  <2>2. /\ IsDatabase(db)
        /\ \A s \in Reminders :
             /\ s # r => db.reminder[s] = old.reminder[s]
             /\ db.reminder[s].moves = old.reminder[s].moves
             /\ db.reminder[s].level = old.reminder[s].level
             /\ db.reminder[s].previous = old.reminder[s].previous
        /\ db.reminder[r].state = "sent"
        /\ \A m \in Invoices :
             /\ m \notin old.reminder[r].moves => db.invoice[m] = old.invoice[m]
             /\ m \in old.reminder[r].moves =>
                  /\ db.invoice[m].level = old.reminder[r].level
                  /\ db.invoice[m].count = old.invoice[m].count + 1
    BY <2>1, MarkedIs
  <2> QED BY <2>2 DEF old, db
<1>8. Underneath(new)
  <2>1. req.todo \in Seq(Reminders) /\ Len(req.todo) <= Len(w) /\ h = Len(w) - Len(req.todo)
    BY <1>3 DEF Underneath, Handed, h, w
  <2>2. \A i \in 1..Len(req.todo) : req.todo[i] = w[h + i]
    BY <1>3 DEF Underneath, h, w
  <2>3. new.todo \in Seq(Reminders) /\ Len(new.todo) = Len(req.todo) - 1
    BY <1>1, <2>1
  <2>4. \A i \in 1..Len(new.todo) : new.todo[i] = req.todo[i + 1]
    BY <1>1, <2>1
  <2>5. \A i \in 1..Len(new.todo) : new.todo[i] = w[(h + 1) + i]
    <3> SUFFICES ASSUME NEW i \in 1..Len(new.todo) PROVE new.todo[i] = w[(h + 1) + i]
      OBVIOUS
    <3>1. i \in Nat /\ i + 1 \in 1..Len(req.todo) /\ h + (i + 1) = (h + 1) + i
      BY <1>2, <2>1, <2>3
    <3> QED BY <2>2, <2>4, <3>1
  <2>6. Len(new.todo) <= Len(w)
    BY <1>4, <2>1, <2>3
  <2>7. new.left \cup new.queued \subseteq HandedOver(new) /\ new.left \cap new.queued = {}
    <3>1. req.left \cup req.queued \subseteq HandedOver(req) /\ req.left \cap req.queued = {}
      BY <1>3 DEF Underneath
    <3>2. left \cup queued \subseteq {r} /\ left \cap queued = {}
      BY DEF r
    <3> QED BY <1>1, <1>2, <3>1, <3>2
  <2> QED BY <1>1, <1>3, <1>7, <2>3, <2>5, <2>6, <2>7 DEF Underneath
<1>9. RowsWritten(new)
  <2> SUFFICES ASSUME NEW s \in Reminders
               PROVE  /\ new.db.reminder[s].moves = Found(new, s).moves
                      /\ new.db.reminder[s].level = Found(new, s).level
                      /\ new.db.reminder[s].state = IF s \in HandedOver(new) THEN "sent" ELSE Found(new, s).state
                      /\ s \notin DOMAIN new.fresh => new.db.reminder[s].previous = Found(new, s).previous
                      /\ s \notin HandedOver(new) \cup DOMAIN new.fresh => new.db.reminder[s] = new.seen.reminder[s]
    BY DEF RowsWritten
  <2>1. /\ req.db.reminder[s].moves = Found(req, s).moves
        /\ req.db.reminder[s].level = Found(req, s).level
        /\ req.db.reminder[s].state = IF s \in HandedOver(req) THEN "sent" ELSE Found(req, s).state
        /\ s \notin DOMAIN req.fresh => req.db.reminder[s].previous = Found(req, s).previous
        /\ s \notin HandedOver(req) \cup DOMAIN req.fresh => req.db.reminder[s] = req.seen.reminder[s]
    BY <1>3 DEF RowsWritten
  <2>2. CASE s # r
    BY <1>1, <1>7, <2>1, <2>2
  <2>3. CASE s = r
    <3>1. s \in HandedOver(new) /\ Found(new, s) = Found(req, s) /\ new.fresh = req.fresh
      BY <1>1, <2>3
    <3>2. /\ new.db.reminder[s].state = "sent"
          /\ new.db.reminder[s].moves = req.db.reminder[s].moves
          /\ new.db.reminder[s].level = req.db.reminder[s].level
          /\ new.db.reminder[s].previous = req.db.reminder[s].previous
      BY <1>7, <2>3
    <3> QED BY <2>1, <3>1, <3>2
  <2> QED BY <2>2, <2>3
<1>10. InvoicesWritten(new)
  <2> SUFFICES ASSUME NEW m \in Invoices
               PROVE  /\ new.db.invoice[m].count = new.seen.invoice[m].count + Cardinality(About(new, m))
                      /\ About(new, m) = {} => new.db.invoice[m] = new.seen.invoice[m]
                      /\ \A i \in About(new, m) :
                           (\A j \in About(new, m) : j <= i) => new.db.invoice[m].level = Found(new, Whole(new)[i]).level
    BY DEF InvoicesWritten
  <2> DEFINE A == About(req, m)
             B == About(new, m)
  <2>1. A = {i \in 1..h : m \in Found(req, w[i]).moves} /\ B = {i \in 1..(h + 1) : m \in Found(req, w[i]).moves}
    BY <1>1 DEF About, h, w
  <2>2. /\ req.db.invoice[m].count = req.seen.invoice[m].count + Cardinality(A)
        /\ A = {} => req.db.invoice[m] = req.seen.invoice[m]
        /\ \A i \in A : (\A j \in A : j <= i) => req.db.invoice[m].level = Found(req, w[i]).level
    BY <1>3 DEF InvoicesWritten, w
  <2>3. A \subseteq 1..h /\ Cardinality(A) \in Nat /\ Cardinality(A \cup {h + 1}) = Cardinality(A) + 1
    <3>1. A \subseteq 1..h
      BY <2>1
    <3> HIDE DEF A
    <3> QED BY <1>2, <3>1, PlaceAdded
  <2>4. req.seen.invoice[m].count \in Nat
    BY <1>3 DEF Underneath, IsDatabase, IsInvoices, IsInvoice
  <2>5. req.db.reminder[r].moves = Found(req, r).moves /\ req.db.reminder[r].level = Found(req, r).level
    BY <1>2, <1>3 DEF RowsWritten
  <2> HIDE DEF A, B
  <2>6. CASE m \in Found(req, r).moves
    <3>1. B = A \cup {h + 1}
      BY <1>2, <2>1, <2>6
    <3>2. new.db.invoice[m].count = new.seen.invoice[m].count + Cardinality(B)
      <4>1. new.db.invoice[m].count = req.db.invoice[m].count + 1
        BY <1>7, <2>5, <2>6
      <4> DEFINE a == Cardinality(A)
                 s == req.seen.invoice[m].count
      <4>2. a \in Nat /\ s \in Nat /\ req.db.invoice[m].count = s + a /\ Cardinality(B) = a + 1
            /\ new.seen.invoice[m].count = s
        BY <1>1, <2>2, <2>3, <2>4, <3>1
      <4> HIDE DEF a, s
      <4> QED BY <4>1, <4>2
    <3>3. ASSUME NEW i \in B, \A j \in B : j <= i PROVE i = h + 1
      BY <1>2, <2>3, <3>1, <3>3
    <3>4. new.db.invoice[m].level = Found(req, w[h + 1]).level
      BY <1>2, <1>7, <2>5, <2>6
    <3>5. B # {}
      BY <3>1
    <3>6. \A i \in B : (\A j \in B : j <= i) => new.db.invoice[m].level = Found(new, Whole(new)[i]).level
      BY <1>1, <3>3, <3>4
    <3> QED BY <3>2, <3>5, <3>6 DEF B
  <2>7. CASE m \notin Found(req, r).moves
    <3>1. B = A
      BY <1>2, <2>1, <2>7
    <3>2. new.db.invoice[m] = req.db.invoice[m] /\ new.seen = req.seen
      BY <1>1, <1>7, <2>5, <2>7
    <3>3. \A i \in B : (\A j \in B : j <= i) => new.db.invoice[m].level = Found(new, Whole(new)[i]).level
      BY <1>1, <2>2, <3>1, <3>2
    <3> QED BY <2>2, <3>1, <3>2, <3>3 DEF B
  <2> QED BY <2>6, <2>7
<1> QED BY <1>1, <1>3, <1>7, <1>8, <1>9, <1>10 DEF Sound, new

-----------------------------------------------------------------------------
(* Steps of requests                                                         *)

\* A request goes on with what it creates, with the fees it had found or those there are now,
\* or there is none for reminders after the step.
Recounts(u, req) ==
    \A r \in DOMAIN req.fresh :
        Previous(req, r) \in {Previous(request[u], r), PreviousFees(reminder, req.fresh[r].moves)}
GoesOn(u) ==
    \E req : /\ request' = [request EXCEPT ![u] = req]
             /\ Sound(request[u]) /\ Sound(req)
             /\ req.kind = request[u].kind /\ req.fresh = request[u].fresh
             /\ Recounts(u, req)
Ends(u) ==
    \E req : /\ request' = [request EXCEPT ![u] = req]
             /\ NoReminders(req)

\* A wizard's request creates reminders of lines it proposed, under ids not used so far.
Begins(u, fresh, ids) ==
    /\ request[u] = Idle
    /\ IsFresh(fresh) /\ DOMAIN fresh = (made + 1)..made' /\ ids \subseteq DOMAIN fresh
    /\ made' \in made..MaxReminders
    /\ request' = [request EXCEPT ![u] = Started("wizard", fresh, ids)]
    /\ knew' = [r \in Reminders |-> IF r \in DOMAIN fresh THEN wizard[u].knew ELSE knew[r]]
    /\ \A r \in DOMAIN fresh : \E line \in wizard[u].lines :
        fresh[r].moves = line.moves /\ fresh[r].level = line.level

LEMMA WorkingSound ==
    ASSUME Requests, NEW u \in Users
    PROVE  Working(u) <=> Sound(request[u])
BY DEF Requests, Going, NoReminders, Working, Sound, Idle

LEMMA DeliverGoesOn ==
    ASSUME Requests, NEW u \in Users, Working(u), request[u].todo # <<>>, NEW left, NEW queued,
           left \cup queued \subseteq {Head(request[u].todo)}, left \cap queued = {},
           Deliver(u, left, queued)
    PROVE  /\ GoesOn(u) /\ request' = [request EXCEPT ![u] = Handing(request[u], left, queued)]
           /\ Handing(request[u], left, queued).left = request[u].left \cup left
<1> DEFINE req == Handing(request[u], left, queued)
<1>1. Sound(request[u])
  BY WorkingSound
<1>2. Sound(req) /\ \A r \in Reminders : Previous(req, r) = Previous(request[u], r)
  BY <1>1, HandingSound DEF Previous
<1>3. req.kind = request[u].kind /\ req.fresh = request[u].fresh /\ req.left = request[u].left \cup left
  BY <1>1, HandingIs
<1>4. request' = [request EXCEPT ![u] = req]
  BY DEF Deliver, Handing
<1> HIDE DEF req
<1>6. Recounts(u, req)
  <2>1. DOMAIN req.fresh \subseteq Reminders
    BY <1>2 DEF Sound, Underneath, IsFresh
  <2> QED BY <1>2, <2>1 DEF Recounts
<1>5. GoesOn(u)
  BY <1>1, <1>2, <1>3, <1>4, <1>6 DEF GoesOn
<1> QED BY <1>3, <1>4, <1>5 DEF req

LEMMA PostGoesOn ==
    ASSUME Requests, NEW u \in Users, Working(u), request[u].todo # <<>>, NEW post,
           request' = [request EXCEPT ![u].post = post]
    PROVE  /\ GoesOn(u)
           /\ request' = [request EXCEPT ![u] = [request[u] EXCEPT !.post = post]]
           /\ [request[u] EXCEPT !.post = post].left = request[u].left
<1> DEFINE req == [request[u] EXCEPT !.post = post]
<1>1. Sound(request[u])
  BY WorkingSound
<1>2. /\ Sound(req) /\ req.kind = request[u].kind /\ req.fresh = request[u].fresh
      /\ req.left = request[u].left /\ req.db = request[u].db
  BY <1>1, PostSound
<1>3. request' = [request EXCEPT ![u] = req]
  BY DEF Requests
<1> HIDE DEF req
<1>4. GoesOn(u)
  BY <1>1, <1>2, <1>3 DEF GoesOn, Recounts, Previous
<1> QED BY <1>2, <1>3, <1>4 DEF req

LEMMA RollBackEnds ==
    ASSUME NEW u \in Users, NEW more, RollBack(u, more)
    PROVE  Ends(u)
BY DEF RollBack, Ends, NoReminders

\* A request that is run again is sound, or over.
LEMMA RerunSteps ==
    ASSUME Rows, Requests, Unborn, NEW u \in Users, Rerun(u)
    PROVE  /\ GoesOn(u) \/ Ends(u)
           /\ \E req : /\ request' = [request EXCEPT ![u] = req]
                       /\ req = Idle \/ req.left = {}
<1> DEFINE again == Started(request[u].kind, request[u].fresh, request[u].ids)
<1>1. Sound(request[u]) /\ request[u].kind \in {"wizard", "list"}
  BY WorkingSound DEF Rerun, Working
<1>2. IsFresh(request[u].fresh) /\ request[u].ids \subseteq Reminders
  BY <1>1 DEF Sound, Underneath
<1>0. \A r \in DOMAIN request[u].fresh : reminder[r].state = "none"
  BY <1>1 DEF Unborn, Working
<1>3. /\ Sound(again) /\ again.left = {} /\ again.kind = request[u].kind /\ again.fresh = request[u].fresh
      /\ \A r \in DOMAIN again.fresh : Previous(again, r) = PreviousFees(reminder, again.fresh[r].moves)
  <2> DEFINE kind == request[u].kind
             fresh == request[u].fresh
             ids == request[u].ids
  <2>1. kind \in {"wizard", "list"} /\ IsFresh(fresh) /\ ids \subseteq Reminders
    BY <1>1, <1>2
  <2>2. \A r \in DOMAIN fresh : reminder[r].state = "none"
    BY <1>0
  <2>3. IsInvoices(invoice) /\ IsRows(reminder) /\ again = Started(kind, fresh, ids)
    BY DEF Rows
  <2> HIDE DEF again, kind, fresh, ids
  <2>4. /\ Sound(again) /\ again.left = {} /\ again.kind = kind /\ again.fresh = fresh
        /\ \A r \in DOMAIN fresh : again.db.reminder[r].previous = PreviousFees(reminder, fresh[r].moves)
    BY <2>1, <2>2, <2>3, StartedSound
  <2>5. \A r \in DOMAIN again.fresh : Previous(again, r) = PreviousFees(reminder, again.fresh[r].moves)
    BY <2>4 DEF Previous
  <2> QED BY <2>4, <2>5 DEF kind, fresh
<1>4. request' = [request EXCEPT ![u] = IF Checked(again) THEN again ELSE Idle]
  BY DEF Rerun
<1> HIDE DEF again
<1>5. CASE Checked(again)
  <2>1. Recounts(u, again)
    BY <1>3 DEF Recounts
  <2> QED BY <1>1, <1>3, <1>4, <1>5, <2>1 DEF GoesOn
<1>6. CASE ~Checked(again)
  BY <1>4, <1>6 DEF Ends, NoReminders
<1> QED BY <1>5, <1>6

LEMMA ListStarts ==
    ASSUME Rows, NEW u \in Users, SendPrepared(u)
    PROVE  \E req : /\ request' = [request EXCEPT ![u] = req]
                    /\ Sound(req) /\ req.left = {} /\ DOMAIN req.fresh = {}
<1>1. PICK ids \in SUBSET Reminders : request' = [request EXCEPT ![u] = Started("list", <<>>, ids)]
  BY DEF SendPrepared
<1>2. IsFresh(<<>>) /\ DOMAIN <<>> = {}
  BY DEF IsFresh
<1> DEFINE req == Started("list", <<>>, ids)
<1>3. Sound(req) /\ req.left = {} /\ req.fresh = <<>>
  BY <1>2, StartedSound DEF Rows
<1> HIDE DEF req
<1>4. request' = [request EXCEPT ![u] = req]
  BY <1>1 DEF req
<1> QED BY <1>2, <1>3, <1>4

LEMMA ConfirmBegins ==
    ASSUME Rows, Wizards, NEW u \in Users, Confirm(u)
    PROVE  \E fresh, ids : Begins(u, fresh, ids)
<1>1. PICK lines \in SUBSET wizard[u].lines, send \in BOOLEAN : \E channel :
        LET seq == SetToSeq(lines)
            fresh == [r \in made + 1..made + Len(seq) |->
                [NoRow EXCEPT !.state = "draft", !.moves = seq[r - made].moves,
                    !.level = seq[r - made].level, !.channel = channel[seq[r - made]]]]
            req == Started("wizard", fresh, IF send THEN DOMAIN fresh ELSE {})
        IN  /\ made + Len(seq) <= MaxReminders
            /\ made' = made + Len(seq)
            /\ request' = [request EXCEPT ![u] = req]
            /\ knew' = [r \in Reminders |-> IF r \in DOMAIN fresh THEN wizard[u].knew ELSE knew[r]]
  <2>1. PICK lines \in SUBSET wizard[u].lines :
          \E channel \in [lines -> UNION Range(Channels)], send \in BOOLEAN :
            LET seq == SetToSeq(lines)
                fresh == [r \in made + 1..made + Len(seq) |->
                    [NoRow EXCEPT !.state = "draft", !.moves = seq[r - made].moves,
                        !.level = seq[r - made].level, !.channel = channel[seq[r - made]]]]
                req == Started("wizard", fresh, IF send THEN DOMAIN fresh ELSE {})
            IN  /\ made + Len(seq) <= MaxReminders
                /\ made' = made + Len(seq)
                /\ request' = [request EXCEPT ![u] = req]
                /\ knew' = [r \in Reminders |-> IF r \in DOMAIN fresh THEN wizard[u].knew ELSE knew[r]]
    BY ZenonT(60) DEF Confirm
  <2> QED BY <2>1, ZenonT(60)
<1>0. PICK channel :
        LET seq == SetToSeq(lines)
            fresh == [r \in made + 1..made + Len(seq) |->
                [NoRow EXCEPT !.state = "draft", !.moves = seq[r - made].moves,
                    !.level = seq[r - made].level, !.channel = channel[seq[r - made]]]]
            req == Started("wizard", fresh, IF send THEN DOMAIN fresh ELSE {})
        IN  /\ made + Len(seq) <= MaxReminders
            /\ made' = made + Len(seq)
            /\ request' = [request EXCEPT ![u] = req]
            /\ knew' = [r \in Reminders |-> IF r \in DOMAIN fresh THEN wizard[u].knew ELSE knew[r]]
  BY <1>1
<1> DEFINE seq == SetToSeq(lines)
           row(r) == [NoRow EXCEPT !.state = "draft", !.moves = seq[r - made].moves,
                        !.level = seq[r - made].level, !.channel = channel[seq[r - made]]]
           fresh == [r \in made + 1..made + Len(seq) |-> row(r)]
           ids == IF send THEN DOMAIN fresh ELSE {}
<1>2. seq \in Seq(lines) /\ Len(seq) \in Nat
  <2>1. IsFiniteSet(lines)
    BY FS_Subset DEF Wizards
  <2> QED BY <2>1, SetToSeqIs
<1>3. /\ made + Len(seq) <= MaxReminders /\ made' = made + Len(seq)
      /\ request' = [request EXCEPT ![u] = Started("wizard", fresh, ids)]
      /\ knew' = [r \in Reminders |-> IF r \in DOMAIN fresh THEN wizard[u].knew ELSE knew[r]]
  BY <1>0
<1> HIDE DEF seq
<1>4. made \in Nat /\ MaxReminders \in Nat /\ made' \in made..MaxReminders
  <2> DEFINE n == Len(seq)
  <2>1. /\ made \in 0..MaxReminders /\ MaxReminders \in Nat /\ n \in Nat
        /\ made + n <= MaxReminders /\ made' = made + n
    BY <1>2, <1>3, ReminderAssumption DEF Rows, ReminderAssumption
  <2> HIDE DEF n
  <2> QED BY <2>1
<1>5. ASSUME NEW r \in made + 1..made + Len(seq)
      PROVE  /\ r \in Reminders /\ IsRow(row(r)) /\ row(r).state = "draft"
             /\ \E line \in wizard[u].lines : row(r).moves = line.moves /\ row(r).level = line.level
  <2>1. r - made \in 1..Len(seq) /\ r \in Reminders
    <3> DEFINE n == Len(seq)
    <3>1. n \in Nat /\ r \in made + 1..made + n /\ made + n <= MaxReminders
      BY <1>2, <1>3
    <3> HIDE DEF n
    <3>2. r - made \in 1..n /\ r \in 1..MaxReminders
      BY <1>4, <3>1
    <3> QED BY <3>2 DEF n, Reminders
  <2>2. seq[r - made] \in wizard[u].lines
    BY <1>2, <2>1
  <2>3. seq[r - made].moves \subseteq Invoices /\ seq[r - made].level \in Nat
    BY <2>2 DEF Wizards
  <2>4. /\ DOMAIN row(r) = RowFields /\ row(r).state = "draft" /\ row(r).moves = seq[r - made].moves
        /\ row(r).level = seq[r - made].level
    BY DEF NoRow, RowFields
  <2> HIDE DEF row
  <2> QED BY <2>1, <2>2, <2>3, <2>4 DEF IsRow
<1>6. DOMAIN fresh = made + 1..made' /\ \A r \in DOMAIN fresh : fresh[r] = row(r)
  BY <1>3
<1> HIDE DEF row, fresh
<1>7. IsFresh(fresh)
  BY <1>3, <1>5, <1>6 DEF IsFresh
<1>8. \A r \in DOMAIN fresh : \E line \in wizard[u].lines :
        fresh[r].moves = line.moves /\ fresh[r].level = line.level
  BY <1>3, <1>5, <1>6
<1>9. ids \subseteq DOMAIN fresh
  OBVIOUS
<1>10. request[u] = Idle
  BY DEF Confirm
<1> HIDE DEF ids
<1> QED BY <1>3, <1>4, <1>6, <1>7, <1>8, <1>9, <1>10 DEF Begins

-----------------------------------------------------------------------------
(* What a step does to the books                                             *)

\* Before the commit the books stay as they are, but for payments and cancellations.
SameBooks ==
    /\ order' = order
    /\ IsInvoices(invoice') /\ IsRows(reminder')
    /\ \A m \in Invoices : invoice'[m].count = invoice[m].count /\ invoice'[m].level = invoice[m].level
    /\ \A r \in Reminders :
        /\ reminder'[r].moves = reminder[r].moves /\ reminder'[r].level = reminder[r].level
        /\ reminder'[r].previous = reminder[r].previous
        /\ reminder'[r].state = "sent" <=> reminder[r].state = "sent"
        /\ reminder'[r].state = "none" <=> reminder[r].state = "none"

LEMMA SameBooksStutter ==
    ASSUME Rows, UNCHANGED <<order, invoice, reminder>>
    PROVE  SameBooks
BY DEF Rows, SameBooks

LEMMA BooksKept ==
    ASSUME Rows, [Next]_vars, ~\E u \in Users : Commit(u)
    PROVE  SameBooks
<1>1. ASSUME NEW r \in Reminders, Cancel(r) PROVE SameBooks
  <2> DEFINE row == [reminder[r] EXCEPT !.state = "cancel"]
  <2>1. IsRow(reminder[r]) /\ reminder[r].state = "draft"
    BY <1>1 DEF Rows, IsRows, Cancel
  <2>2. /\ DOMAIN row = RowFields /\ row.state = "cancel" /\ row.moves = reminder[r].moves
        /\ row.level = reminder[r].level /\ row.previous = reminder[r].previous
    BY <2>1 DEF IsRow, RowFields
  <2>3. reminder' = [reminder EXCEPT ![r] = row] /\ UNCHANGED <<order, invoice>>
    BY <1>1 DEF Cancel, history
  <2> HIDE DEF row
  <2>4. IsRow(row)
    BY <2>1, <2>2 DEF IsRow
  <2>5. DOMAIN reminder' = Reminders /\ reminder'[r] = row /\ \A s \in Reminders \ {r} : reminder'[s] = reminder[s]
    BY <2>3 DEF Rows, IsRows
  <2>6. IsRows(reminder')
    BY <2>4, <2>5 DEF Rows, IsRows
  <2> QED BY <2>1, <2>2, <2>3, <2>5, <2>6 DEF Rows, SameBooks
<1>2. ASSUME NEW m \in Invoices, Pay(m) PROVE SameBooks
  <2> DEFINE row == [invoice[m] EXCEPT !.paid = TRUE]
  <2>1. IsInvoice(invoice[m])
    BY DEF Rows, IsInvoices
  <2>2. DOMAIN row = DOMAIN invoice[m] /\ row.count = invoice[m].count /\ row.level = invoice[m].level
    BY <2>1 DEF IsInvoice
  <2>3. invoice' = [invoice EXCEPT ![m] = row] /\ UNCHANGED <<order, reminder>>
    BY <1>2 DEF Pay, history
  <2> HIDE DEF row
  <2>4. IsInvoice(row)
    BY <2>1, <2>2 DEF IsInvoice
  <2>5. DOMAIN invoice' = Invoices /\ invoice'[m] = row /\ \A n \in Invoices \ {m} : invoice'[n] = invoice[n]
    BY <2>3 DEF Rows, IsInvoices
  <2>6. IsInvoices(invoice')
    BY <2>4, <2>5 DEF Rows, IsInvoices
  <2> QED BY <2>2, <2>3, <2>5, <2>6 DEF Rows, SameBooks
<1>3. CASE UNCHANGED <<order, invoice, reminder>>
  BY <1>3, SameBooksStutter
<1>4. ASSUME NEW u \in Users,
             \/ OpenWizard(u) \/ Confirm(u) \/ SendPrepared(u) \/ SendEmail(u) \/ SendManual(u) \/ SendSms(u)
             \/ StartLetter(u) \/ PostCall(u) \/ EndLetter(u) \/ Rerun(u)
      PROVE  UNCHANGED <<order, invoice, reminder>>
  BY <1>4 DEF OpenWizard, Confirm, SendPrepared, SendEmail, SendManual, SendSms, StartLetter, PostCall,
              EndLetter, Rerun, history
<1>5. ASSUME NEW u \in Users,
             SendInvoices(u) \/ SmsInvoice(u) \/ StartLetters(u) \/ EndLetters(u) \/ EndBatch(u)
      PROVE  UNCHANGED <<order, invoice, reminder>>
  BY <1>5 DEF SendInvoices, SmsInvoice, StartLetters, EndLetters, EndBatch, history
<1>6. CASE NextDay \/ UNCHANGED vars
  BY <1>3, <1>6 DEF NextDay, vars, history
<1> QED
  BY <1>1, <1>2, <1>3, <1>4, <1>5, <1>6 DEF Next, ReminderNext

\* What the commit writes: the rows the request has handed over or created, and the invoices
\* they are about, none of which has changed since the request read them.
LEMMA CommitIs ==
    ASSUME Rows, Requests, Unborn, NEW u \in Users, Commit(u)
    PROVE  LET req == request[u]
               w   == Whole(req)
           IN  /\ Sound(req) /\ order' = order \o w
               /\ Handed(req) = Len(w)
               /\ IsInvoices(invoice') /\ IsRows(reminder')
               /\ \A r \in Reminders :
                    /\ r \in HandedOver(req) =>
                        /\ reminder'[r].state = "sent" /\ reminder[r].state \in {"none", "draft"}
                        /\ reminder'[r].moves = Found(req, r).moves /\ reminder'[r].level = Found(req, r).level
                        /\ r \notin DOMAIN req.fresh => reminder[r] = Found(req, r)
                    /\ r \in DOMAIN req.fresh \ HandedOver(req) =>
                        /\ reminder'[r].state = "draft"
                        /\ reminder'[r].moves = req.fresh[r].moves /\ reminder'[r].level = req.fresh[r].level
                    /\ reminder'[r].previous =
                            IF r \in DOMAIN req.fresh THEN Previous(req, r) ELSE reminder[r].previous
                    /\ r \notin HandedOver(req) \cup DOMAIN req.fresh => reminder'[r] = reminder[r]
               /\ \A m \in Invoices :
                    /\ About(req, m) = {} => invoice'[m] = invoice[m]
                    /\ About(req, m) # {} => invoice'[m] = req.db.invoice[m] /\ invoice[m] = req.seen.invoice[m]
<1> DEFINE req == request[u]
           w == Whole(req)
<1>1. Sound(req)
  BY WorkingSound DEF Commit, Working
<1>2. Underneath(req) /\ RowsWritten(req) /\ InvoicesWritten(req)
  BY <1>1 DEF Sound
<1>3. w \in Seq(Reminders) /\ Len(w) \in Nat /\ \A i \in 1..Len(w) : Found(req, w[i]).state = "draft"
  BY <1>2, WholeIs DEF Underneath
<1>4. Handed(req) = Len(w)
  BY <1>3 DEF Commit, Handed
<1>5. order' = order \o w
  BY DEF Commit, Whole
<1>6. /\ invoice' = Written(req.db.invoice, req.seen.invoice, invoice)
      /\ reminder' = Written(req.db.reminder, req.seen.reminder, reminder)
      /\ \A m \in Invoices : req.db.invoice[m] # req.seen.invoice[m] => invoice[m] = req.seen.invoice[m]
      /\ \A r \in Reminders : req.db.reminder[r] # req.seen.reminder[r] => reminder[r] = req.seen.reminder[r]
  BY DEF Commit, Collision
<1>7. \A r \in HandedOver(req) : Found(req, r).state = "draft"
  BY <1>3, <1>4 DEF HandedOver
<1> HIDE DEF req, w
<1>8. /\ DOMAIN invoice' = Invoices /\ DOMAIN reminder' = Reminders
      /\ \A m \in Invoices : invoice'[m] =
            IF req.db.invoice[m] # req.seen.invoice[m] THEN req.db.invoice[m] ELSE invoice[m]
      /\ \A r \in Reminders : reminder'[r] =
            IF req.db.reminder[r] # req.seen.reminder[r] THEN req.db.reminder[r] ELSE reminder[r]
  BY <1>2, <1>6 DEF Written, Underneath, IsDatabase, IsInvoices, IsRows
<1>9. IsInvoices(invoice') /\ IsRows(reminder')
  BY <1>2, <1>8 DEF Rows, Underneath, IsDatabase, IsInvoices, IsRows
<1>10. ASSUME NEW r \in Reminders, r \in HandedOver(req)
       PROVE  /\ reminder'[r].state = "sent" /\ reminder[r].state \in {"none", "draft"}
              /\ reminder'[r].moves = Found(req, r).moves /\ reminder'[r].level = Found(req, r).level
              /\ r \notin DOMAIN req.fresh => reminder[r] = Found(req, r)
  <2>1. /\ req.db.reminder[r].moves = Found(req, r).moves /\ req.db.reminder[r].level = Found(req, r).level
        /\ req.db.reminder[r].state = "sent"
    BY <1>2, <1>10 DEF RowsWritten
  <2>2. req.seen.reminder[r].state \in {"none", "draft"}
    BY <1>2, <1>7, <1>10 DEF Found, Underneath
  <2>3. reminder'[r] = req.db.reminder[r] /\ reminder[r] = req.seen.reminder[r]
    BY <1>6, <1>8, <2>1, <2>2
  <2> QED BY <2>1, <2>2, <2>3 DEF Found
<1>11. ASSUME NEW r \in Reminders, r \in DOMAIN req.fresh \ HandedOver(req)
       PROVE  /\ reminder'[r].state = "draft"
              /\ reminder'[r].moves = req.fresh[r].moves /\ reminder'[r].level = req.fresh[r].level
  <2>1. Found(req, r) = req.fresh[r] /\ req.fresh[r].state = "draft" /\ req.seen.reminder[r].state = "none"
    BY <1>2, <1>11 DEF Found, Underneath, IsFresh
  <2>2. /\ req.db.reminder[r].moves = req.fresh[r].moves /\ req.db.reminder[r].level = req.fresh[r].level
        /\ req.db.reminder[r].state = "draft"
    BY <1>2, <1>11, <2>1 DEF RowsWritten
  <2>3. reminder'[r] = req.db.reminder[r]
    BY <1>8, <2>1, <2>2
  <2> QED BY <2>2, <2>3
<1>12. \A r \in Reminders : r \notin HandedOver(req) \cup DOMAIN req.fresh => reminder'[r] = reminder[r]
  BY <1>2, <1>8 DEF RowsWritten
<1>14. ASSUME NEW r \in Reminders
       PROVE  reminder'[r].previous = IF r \in DOMAIN req.fresh THEN Previous(req, r) ELSE reminder[r].previous
  <2>1. CASE r \in HandedOver(req)
    <3>1. /\ req.db.reminder[r].state = "sent" /\ Found(req, r).state = "draft"
          /\ r \notin DOMAIN req.fresh => req.db.reminder[r].previous = req.seen.reminder[r].previous
      BY <1>2, <1>7, <2>1 DEF RowsWritten, Found
    <3>2. req.seen.reminder[r].state # "sent"
      BY <1>2, <3>1 DEF Found, Underneath
    <3>3. reminder'[r] = req.db.reminder[r] /\ reminder[r] = req.seen.reminder[r]
      BY <1>6, <1>8, <3>1, <3>2
    <3> QED BY <3>1, <3>3 DEF Previous
  <2>2. CASE r \in DOMAIN req.fresh \ HandedOver(req)
    <3>1. Found(req, r) = req.fresh[r] /\ req.fresh[r].state = "draft" /\ req.seen.reminder[r].state = "none"
      BY <1>2, <2>2 DEF Found, Underneath, IsFresh
    <3>2. req.db.reminder[r].state = "draft"
      BY <1>2, <2>2, <3>1 DEF RowsWritten
    <3>3. reminder'[r] = req.db.reminder[r]
      BY <1>8, <3>1, <3>2
    <3> QED BY <2>2, <3>3 DEF Previous
  <2>3. CASE r \notin HandedOver(req) \cup DOMAIN req.fresh
    BY <1>12, <2>3
  <2> QED BY <2>1, <2>2, <2>3
<1>13. ASSUME NEW m \in Invoices
       PROVE  /\ About(req, m) = {} => invoice'[m] = invoice[m]
              /\ About(req, m) # {} => invoice'[m] = req.db.invoice[m] /\ invoice[m] = req.seen.invoice[m]
  <2>1. CASE About(req, m) = {}
    BY <1>2, <1>8, <2>1 DEF InvoicesWritten
  <2>2. CASE About(req, m) # {}
    <3> DEFINE n == Handed(req)
               A == About(req, m)
    <3>1. n \in Nat /\ A \subseteq 1..n
      BY <1>3, <1>4 DEF About
    <3> HIDE DEF n, A
    <3>2. IsFiniteSet(A) /\ Cardinality(A) \in Nat
      BY <3>1, PlaceAdded
    <3>3. Cardinality(A) # 0
      BY <2>2, <3>2, FS_EmptySet DEF A
    <3>4. req.db.invoice[m].count = req.seen.invoice[m].count + Cardinality(A) /\ req.seen.invoice[m].count \in Nat
      BY <1>2 DEF InvoicesWritten, Underneath, IsDatabase, IsInvoices, IsInvoice, A
    <3>5. req.db.invoice[m] # req.seen.invoice[m]
      BY <3>2, <3>3, <3>4
    <3> QED BY <1>6, <1>8, <2>2, <3>5
  <2> QED BY <2>1, <2>2
<1> QED BY <1>1, <1>4, <1>5, <1>9, <1>10, <1>11, <1>12, <1>13, <1>14 DEF req, w

\* Numbers: a non-empty set of them has a least one, and if bounded a greatest.
LEMMA LeastExists ==
    ASSUME NEW S \in SUBSET Nat, S # {}
    PROVE  \E n \in S : \A m \in S : n <= m
<1>1. PICK n \in S : \A m \in Nat : <<m, n>> \in OpToRel(<, Nat) => m \notin S
  BY WFMin, NatLessThanWellFounded
<1>2. \A m \in S : ~(m < n)
  BY <1>1 DEF OpToRel
<1> QED BY <1>2

LEMMA MaxIs ==
    ASSUME NEW n \in Nat, NEW S, S \subseteq 1..n, S # {}
    PROVE  Max(S) \in S /\ \A x \in S : x <= Max(S)
<1> DEFINE T == {m \in Nat : \A x \in S : x <= m}
<1>1. n \in T
  OBVIOUS
<1>2. PICK t \in T : \A m \in T : t <= m
  <2> HIDE DEF T
  <2>1. T \in SUBSET Nat /\ T # {}
    BY <1>1 DEF T
  <2> QED BY <2>1, LeastExists
<1>3. t \in S
  <2> SUFFICES ASSUME t \notin S PROVE FALSE
    OBVIOUS
  <2>0. \A x \in S : x \in Nat /\ x >= 1 /\ x <= t
    OBVIOUS
  <2>1. PICK x \in S : x \in Nat /\ x >= 1 /\ x <= t
    BY <2>0
  <2>2. t - 1 \in Nat
    BY <2>1
  <2>3. \A y \in S : y <= t - 1
    <3> SUFFICES ASSUME NEW y \in S PROVE y <= t - 1
      OBVIOUS
    <3>1. y <= t /\ y # t /\ y \in Nat /\ t \in Nat
      OBVIOUS
    <3> QED BY <3>1
  <2>4. t - 1 \in T
    BY <2>2, <2>3
  <2>5. t <= t - 1
    BY <1>2, <2>4
  <2> QED BY <2>2, <2>5
<1>4. t \in S /\ \A x \in S : t >= x
  BY <1>3
<1>5. Max(S) \in S /\ \A x \in S : Max(S) >= x
  BY <1>4 DEF Max
<1> QED BY <1>5

\* Places after the first n.
Shifted(n, k, A, B, C) ==
    n \in Nat /\ k \in Nat /\ A \subseteq 1..n /\ B \subseteq 1..k /\ C = {n + i : i \in B}

LEMMA ShiftedPlaces ==
    ASSUME NEW n, NEW k, NEW A, NEW B, NEW C, Shifted(n, k, A, B, C)
    PROVE  Cardinality(A \cup C) = Cardinality(A) + Cardinality(B)
<1>0. n \in Nat /\ k \in Nat /\ A \subseteq 1..n /\ B \subseteq 1..k /\ C = {n + i : i \in B}
  BY DEF Shifted
<1> DEFINE f == [i \in B |-> n + i]
<1>1. IsFiniteSet(A) /\ IsFiniteSet(B)
  <2>1. IsFiniteSet(1..n) /\ IsFiniteSet(1..k)
    BY <1>0, FS_Interval
  <2> QED BY <1>0, <2>1, FS_Subset
<1>2. f \in Bijection(B, C)
  <2>1. \A i, j \in B : n + i = n + j => i = j
    BY <1>0
  <2>2. f \in Injection(B, C)
    BY <1>0, <2>1 DEF Injection, IsInjective
  <2>3. f \in Surjection(B, C)
    BY <1>0 DEF Surjection
  <2> QED BY <2>2, <2>3 DEF Bijection
<1>3. A \cap C = {}
  BY <1>0
<1> HIDE DEF f
<1>4. ExistsBijection(B, C)
  BY <1>2 DEF ExistsBijection
<1>5. IsFiniteSet(C) /\ Cardinality(C) = Cardinality(B)
  BY <1>1, <1>4, FS_Bijection
<1>6. Cardinality(A \cap C) = 0
  BY <1>3, FS_EmptySet
<1> DEFINE a == Cardinality(A)
           b == Cardinality(B)
           c == Cardinality(A \cup C)
<1>7. a \in Nat /\ b \in Nat /\ c = a + b - 0
  BY <1>1, <1>5, <1>6, FS_Union, FS_CardinalityType
<1> HIDE DEF a, b, c
<1>8. c = a + b
  BY <1>7
<1> QED BY <1>8 DEF a, b, c

\* What was there stays: rows that exist, what is sent, and the order in which it was sent.
Stays ==
    /\ \A r \in Reminders : reminder[r].state # "none" =>
        /\ reminder'[r].state # "none"
        /\ reminder'[r].moves = reminder[r].moves /\ reminder'[r].level = reminder[r].level
        /\ reminder'[r].previous = reminder[r].previous
        /\ reminder[r].state = "sent" => reminder'[r].state = "sent"
    /\ \A i \in 1..Len(order) : i \in 1..Len(order') /\ order'[i] = order[i]

LEMMA BooksStay ==
    ASSUME Rows, Requests, Unborn, Ledger, [Next]_vars
    PROVE  Stays
<1>1. CASE \E u \in Users : Commit(u)
  <2>1. PICK u \in Users : Commit(u)
    BY <1>1
  <2> DEFINE req == request[u]
             w == Whole(req)
  <2>2. /\ Sound(req) /\ order' = order \o w
        /\ \A r \in Reminders :
            /\ r \in HandedOver(req) =>
                /\ reminder'[r].state = "sent" /\ reminder[r].state \in {"none", "draft"}
                /\ reminder'[r].moves = Found(req, r).moves /\ reminder'[r].level = Found(req, r).level
                /\ r \notin DOMAIN req.fresh => reminder[r] = Found(req, r)
            /\ r \notin HandedOver(req) \cup DOMAIN req.fresh => reminder'[r] = reminder[r]
            /\ r \notin DOMAIN req.fresh => reminder'[r].previous = reminder[r].previous
    BY <2>1, CommitIs
  <2>3. \A r \in DOMAIN req.fresh : reminder[r].state = "none"
    BY <2>2, WorkingSound DEF Unborn
  <2>4. w \in Seq(Reminders)
    BY <2>2, WholeIs DEF Sound, Underneath
  <2> HIDE DEF req, w
  <2>5. \A i \in 1..Len(order) : i \in 1..Len(order') /\ order'[i] = order[i]
    BY <2>2, <2>4 DEF Ledger
  <2> QED BY <2>2, <2>3, <2>5 DEF Stays
<1>2. CASE ~\E u \in Users : Commit(u)
  BY <1>2, BooksKept DEF SameBooks, Stays
<1> QED BY <1>1, <1>2

LEMMA LedgerStep ==
    ASSUME Rows, Requests, Unborn, Ledger, [Next]_vars
    PROVE  Ledger'
<1>1. ASSUME NEW u \in Users, Commit(u) PROVE Ledger'
  <2> DEFINE req == request[u]
             w == Whole(req)
  <2>1. /\ Sound(req) /\ order' = order \o w /\ Handed(req) = Len(w)
        /\ \A r \in Reminders :
            /\ r \in HandedOver(req) => reminder'[r].state = "sent" /\ reminder[r].state \in {"none", "draft"}
            /\ r \in DOMAIN req.fresh \ HandedOver(req) => reminder'[r].state = "draft"
            /\ r \notin HandedOver(req) \cup DOMAIN req.fresh => reminder'[r] = reminder[r]
    BY <1>1, CommitIs
  <2>2. \A r \in DOMAIN req.fresh : reminder[r].state = "none"
    BY <2>1, WorkingSound DEF Unborn
  <2>3. w \in Seq(Reminders) /\ Len(w) \in Nat /\ \A i, j \in 1..Len(w) : w[i] = w[j] => i = j
    BY <2>1, WholeIs DEF Sound, Underneath
  <2>4. HandedOver(req) = {w[i] : i \in 1..Len(w)}
    BY <2>1 DEF HandedOver
  <2> HIDE DEF req, w
  <2> DEFINE n == Len(order)
             k == Len(w)
  <2>5. n \in Nat /\ k \in Nat /\ order' \in Seq(Reminders) /\ Len(order') = n + k
    BY <2>1, <2>3 DEF Ledger
  <2>6. /\ \A i \in 1..n : order'[i] = order[i]
        /\ \A i \in 1..k : order'[n + i] = w[i]
    BY <2>1, <2>3 DEF Ledger
  <2>7. \A i \in 1..(n + k) : i \in 1..n \/ \E j \in 1..k : i = n + j
    <3> HIDE DEF n, k
    <3> SUFFICES ASSUME NEW i \in 1..(n + k), i \notin 1..n PROVE i - n \in 1..k /\ i = n + (i - n)
      OBVIOUS
    <3> QED BY <2>5
  <2>8. \A i \in 1..n : order[i] \in Reminders /\ reminder[order[i]].state = "sent"
    BY DEF Ledger
  <2>9. \A i \in 1..k : w[i] \in Reminders /\ reminder[w[i]].state # "sent" /\ reminder'[w[i]].state = "sent"
    BY <2>1, <2>3, <2>4
  <2>10. \A i, j \in 1..Len(order') : order'[i] = order'[j] => i = j
    <3>1. \A i, j \in 1..n : order[i] = order[j] => i = j
      BY DEF Ledger
    <3>2. \A i, j \in 1..k : w[i] = w[j] => i = j
      BY <2>3
    <3>3. \A i \in 1..n : \A j \in 1..k : order[i] # w[j]
      BY <2>8, <2>9
    <3> HIDE DEF n, k
    <3> SUFFICES ASSUME NEW i \in 1..(n + k), NEW j \in 1..(n + k), order'[i] = order'[j] PROVE i = j
      BY <2>5
    <3>4. CASE i \in 1..n /\ j \in 1..n
      BY <2>6, <3>1, <3>4
    <3>5. ASSUME NEW a \in 1..n, NEW b \in 1..k, order'[a] = order'[n + b] PROVE FALSE
      BY <2>6, <3>3, <3>5
    <3>6. ASSUME NEW a \in 1..k, NEW b \in 1..k, order'[n + a] = order'[n + b] PROVE a = b
      BY <2>6, <3>2, <3>6
    <3> QED BY <2>7, <3>4, <3>5, <3>6
  <2>11. ASSUME NEW r \in Reminders
         PROVE  reminder'[r].state = "sent" <=> \E i \in 1..Len(order') : order'[i] = r
    <3>1. CASE reminder[r].state = "sent"
      <4>1. PICK i \in 1..n : order[i] = r
        BY <3>1 DEF Ledger
      <4>2. i \in 1..Len(order') /\ order'[i] = r
        BY <2>5, <2>6, <4>1
      <4>3. r \notin HandedOver(req) /\ r \notin DOMAIN req.fresh
        BY <2>1, <2>2, <3>1
      <4> QED BY <2>1, <3>1, <4>2, <4>3
    <3>2. CASE r \in HandedOver(req)
      <4>1. PICK j \in 1..k : w[j] = r
        BY <2>4, <3>2
      <4>2. n + j \in 1..Len(order') /\ order'[n + j] = r
        BY <2>5, <2>6, <4>1
      <4> QED BY <2>1, <3>2, <4>2
    <3>3. CASE reminder[r].state # "sent" /\ r \notin HandedOver(req)
      <4>1. reminder'[r].state # "sent"
        BY <2>1, <3>3
      <4>2. \A i \in 1..n : order'[i] # r
        BY <2>6, <2>8, <3>3
      <4>3. \A j \in 1..k : order'[n + j] # r
        BY <2>4, <2>6, <3>3
      <4> HIDE DEF n, k
      <4>4. \A i \in 1..(n + k) : order'[i] # r
        BY <2>7, <4>2, <4>3
      <4> QED BY <2>5, <4>1, <4>4
    <3> QED BY <3>1, <3>2, <3>3
  <2> QED BY <2>5, <2>10, <2>11 DEF Ledger
<1>2. CASE ~\E u \in Users : Commit(u)
  BY <1>2, BooksKept DEF SameBooks, Ledger
<1> QED BY <1>1, <1>2

-----------------------------------------------------------------------------
(* What invoices say of their reminders                                      *)

\* The places of an invoice's reminders in the order they were sent.
Mine(m) == {i \in DOMAIN order : m \in reminder[order[i]].moves}

Tells(m) ==
    /\ invoice[m].count = Cardinality(Mine(m))
    /\ invoice[m].level = IF Mine(m) = {} THEN 0 ELSE reminder[order[Max(Mine(m))]].level

LEMMA TellsIs == InvoiceTellsReminders <=> \A m \in Invoices : Tells(m)
BY DEF InvoiceTellsReminders, Tells, Mine

LEMMA TellsStep ==
    ASSUME Rows, Requests, Unborn, Ledger, InvoiceTellsReminders, [Next]_vars
    PROVE  InvoiceTellsReminders'
<1> SUFFICES ASSUME NEW m \in Invoices PROVE Tells(m)'
  BY DEF InvoiceTellsReminders, Tells, Mine
<1> DEFINE n == Len(order)
           A == Mine(m)
<1>1. Tells(m)
  BY TellsIs
<1>2. n \in Nat /\ order \in Seq(Reminders) /\ DOMAIN order = 1..n
  BY DEF Ledger
<1>3. A = {i \in 1..n : m \in reminder[order[i]].moves} /\ A \subseteq 1..n
  BY <1>2 DEF Mine
<1>4. \A i \in 1..n : order[i] \in Reminders /\ reminder[order[i]].state = "sent"
  BY <1>2 DEF Ledger
<1>5. A # {} => Max(A) \in A
  <2> HIDE DEF A, n
  <2> QED BY <1>2, <1>3, MaxIs
<1>6. CASE ~\E u \in Users : Commit(u)
  <2>1. SameBooks
    BY <1>6, BooksKept
  <2>2. Mine(m)' = A
    BY <1>2, <1>3, <1>4, <2>1 DEF Mine, SameBooks
  <2>3. invoice'[m].count = invoice[m].count /\ invoice'[m].level = invoice[m].level /\ order' = order
    BY <2>1 DEF SameBooks
  <2>4. A # {} => reminder'[order[Max(A)]].level = reminder[order[Max(A)]].level
    BY <1>3, <1>4, <1>5, <2>1 DEF SameBooks
  <2> HIDE DEF A
  <2> QED BY <1>1, <2>2, <2>3, <2>4 DEF Tells, A
<1>7. ASSUME NEW u \in Users, Commit(u) PROVE Tells(m)'
  <2> DEFINE req == request[u]
             w == Whole(req)
             k == Len(w)
             B == About(req, m)
             C == {n + i : i \in B}
  <2>1. /\ Sound(req) /\ order' = order \o w /\ Handed(req) = k
        /\ \A r \in Reminders :
            /\ r \in HandedOver(req) =>
                /\ reminder'[r].moves = Found(req, r).moves /\ reminder'[r].level = Found(req, r).level
        /\ B = {} => invoice'[m] = invoice[m]
        /\ B # {} => invoice'[m] = req.db.invoice[m] /\ invoice[m] = req.seen.invoice[m]
    BY <1>7, CommitIs
  <2>2. w \in Seq(Reminders) /\ k \in Nat
    BY <2>1, WholeIs DEF Sound, Underneath
  <2>3. HandedOver(req) = {w[i] : i \in 1..k} /\ B = {i \in 1..k : m \in Found(req, w[i]).moves}
    BY <2>1 DEF HandedOver, About
  <2>4. /\ req.db.invoice[m].count = req.seen.invoice[m].count + Cardinality(B)
        /\ \A i \in B : (\A j \in B : j <= i) => req.db.invoice[m].level = Found(req, w[i]).level
    BY <2>1 DEF Sound, InvoicesWritten
  <2>5. Stays
    BY BooksStay
  <2> HIDE DEF req, w
  <2>6. DOMAIN order' = 1..(n + k) /\ \A i \in 1..k : order'[n + i] = w[i]
    BY <1>2, <2>1, <2>2
  <2>7. \A i \in 1..n : order'[i] = order[i] /\ reminder'[order[i]].moves = reminder[order[i]].moves
                         /\ reminder'[order[i]].level = reminder[order[i]].level
    BY <1>4, <2>5 DEF Stays
  <2>8. \A i \in 1..k : w[i] \in HandedOver(req) /\ w[i] \in Reminders
    BY <2>2, <2>3
  <2>9. \A i \in 1..k : /\ reminder'[order'[n + i]].moves = Found(req, w[i]).moves
                        /\ reminder'[order'[n + i]].level = Found(req, w[i]).level
    BY <2>1, <2>6, <2>8
  <2> HIDE DEF n, k
  <2>10. \A i \in 1..(n + k) : i \in 1..n \/ \E j \in 1..k : i = n + j
    <3> SUFFICES ASSUME NEW i \in 1..(n + k), i \notin 1..n PROVE i - n \in 1..k /\ i = n + (i - n)
      OBVIOUS
    <3> QED BY <1>2, <2>2
  <2>11. Mine(m)' = A \cup C
    <3>1. Mine(m)' = {i \in 1..(n + k) : m \in reminder'[order'[i]].moves}
      BY <2>6 DEF Mine
    <3>2. \A i \in 1..n : i \in 1..(n + k) /\ (m \in reminder'[order'[i]].moves <=> i \in A)
      BY <1>2, <1>3, <2>2, <2>7
    <3>3. \A j \in 1..k : n + j \in 1..(n + k) /\ (m \in reminder'[order'[n + j]].moves <=> j \in B)
      BY <1>2, <2>2, <2>3, <2>9
    <3>4. A \subseteq 1..n /\ B \subseteq 1..k
      BY <1>3, <2>3
    <3> HIDE DEF A, B
    <3> QED BY <2>10, <3>1, <3>2, <3>3, <3>4
  <2>12. B \subseteq 1..k
    BY <2>3
  <2>13. Cardinality(A \cup C) = Cardinality(A) + Cardinality(B)
    <3>1. n \in Nat /\ k \in Nat /\ A \subseteq 1..n /\ B \subseteq 1..k
      BY <1>2, <1>3, <2>2, <2>12
    <3> HIDE DEF A, B
    <3>2. C = {n + i : i \in B}
      OBVIOUS
    <3>3. Shifted(n, k, A, B, C)
      BY <3>1, <3>2 DEF Shifted
    <3> HIDE DEF C
    <3> QED BY <3>3, ShiftedPlaces
  <2>14. invoice[m].count = Cardinality(A) /\ invoice[m].level = IF A = {} THEN 0 ELSE reminder[order[Max(A)]].level
    BY <1>1 DEF Tells
  <2>15. CASE B = {}
    <3>1. C = {}
      BY <2>15
    <3>2. Mine(m)' = A
      BY <2>11, <3>1
    <3>3. A # {} => order'[Max(A)] = order[Max(A)] /\ reminder'[order[Max(A)]].level = reminder[order[Max(A)]].level
      BY <1>3, <1>5, <2>7
    <3>4. invoice'[m] = invoice[m]
      BY <2>1, <2>15
    <3> HIDE DEF A
    <3> QED BY <2>14, <3>2, <3>3, <3>4 DEF Tells
  <2>16. CASE B # {}
    <3> HIDE DEF B
    <3> DEFINE b == Max(B)
    <3>1. b \in B /\ \A j \in B : j <= b
      BY <2>2, <2>12, <2>16, MaxIs
    <3> HIDE DEF b
    <3>2. A \cup C # {} /\ A \cup C \subseteq 1..(n + k)
      <4>1. \A x \in 1..n : x \in 1..(n + k)
        BY <1>2, <2>2
      <4>2. \A i \in 1..k : n + i \in 1..(n + k)
        BY <1>2, <2>2
      <4>3. A \subseteq 1..n
        BY <1>3
      <4> HIDE DEF A
      <4> QED BY <2>12, <3>1, <4>1, <4>2, <4>3
    <3>3. Max(A \cup C) = n + b
      <4> HIDE DEF A, C
      <4> DEFINE S == A \cup C
      <4>1. Max(S) \in S /\ \A x \in S : x <= Max(S)
        <5> HIDE DEF S
        <5>1. n + k \in Nat /\ S # {} /\ S \subseteq 1..(n + k)
          BY <1>2, <2>2, <3>2 DEF S
        <5> DEFINE l == n + k
        <5>2. l \in Nat /\ S \subseteq 1..l
          BY <5>1
        <5> HIDE DEF l
        <5> QED BY <5>1, <5>2, MaxIs
      <4>2. n + b \in S
        BY <3>1 DEF C
      <4>3. \A x \in S : x \in Nat /\ x <= n + b
        <5>1. b \in Nat /\ b >= 1
          BY <2>12, <3>1
        <5>2. \A x \in A : x \in Nat /\ x <= n + b
          BY <1>2, <1>3, <5>1
        <5>3. \A i \in B : n + i \in Nat /\ n + i <= n + b
          BY <1>2, <2>12, <3>1, <5>1
        <5> QED BY <5>2, <5>3 DEF C
      <4>4. Max(S) \in Nat /\ n + b \in Nat /\ Max(S) <= n + b /\ n + b <= Max(S)
        BY <4>1, <4>2, <4>3
      <4> HIDE DEF S
      <4>5. Max(S) = n + b
        BY <4>4
      <4> QED BY <4>5 DEF S
    <3>4. invoice'[m].level = Found(req, w[b]).level
      BY <2>1, <2>4, <2>16, <3>1
    <3>5. reminder'[order'[n + b]].level = Found(req, w[b]).level
      BY <2>9, <2>12, <3>1
    <3>6. invoice'[m].count = Cardinality(A) + Cardinality(B)
      BY <2>1, <2>4, <2>14, <2>16
    <3> HIDE DEF A, C
    <3> QED BY <2>11, <2>13, <3>2, <3>3, <3>4, <3>5, <3>6 DEF Tells
  <2> QED BY <2>15, <2>16
<1> QED BY <1>6, <1>7

-----------------------------------------------------------------------------
(* Every request stays what it can be                                        *)

ListBegins(u) ==
    \E req : /\ request[u] = Idle /\ request' = [request EXCEPT ![u] = req]
             /\ Sound(req) /\ req.left = {} /\ DOMAIN req.fresh = {}

LEMMA BatchIs ==
    ASSUME NEW req, Going(req), req.kind = "invoices"
    PROVE  DOMAIN req = BatchFields /\ req.left = {}
<1>1. req # Idle
  BY DEF Idle
<1>2. ~Sound(req)
  BY DEF Sound
<1> QED BY <1>1, <1>2 DEF Going, NoReminders

LEMMA BatchEnds ==
    ASSUME Requests, NEW u \in Users, request[u].kind = "invoices",
           NEW req, request' = [request EXCEPT ![u] = req],
           \/ \E x : req = [request[u] EXCEPT !.stage = x]
           \/ \E x : req = [request[u] EXCEPT !.texts = x]
           \/ \E x : req = [request[u] EXCEPT !.post = x]
           \/ \E x : req = [request[u] EXCEPT !.stage = x, !.post = NoPost]
           \/ \E x : req = Failed(request[u], x)
    PROVE  Ends(u) /\ NoReminders(request[u])
<1>0. Going(request[u])
  BY DEF Requests
<1>1. DOMAIN request[u] = BatchFields /\ request[u].left = {}
  BY <1>0, BatchIs
<1>2. NoReminders(req)
  BY <1>1 DEF NoReminders, BatchFields, Failed
<1> QED BY <1>1, <1>2 DEF Ends, NoReminders

LEMMA BatchSteps ==
    ASSUME Requests, NEW u \in Users, SmsInvoice(u) \/ StartLetters(u) \/ EndLetters(u) \/ EndBatch(u)
    PROVE  Ends(u) /\ NoReminders(request[u])
<1>0. request[u].kind = "invoices"
  BY DEF SmsInvoice, StartLetters, EndLetters, EndBatch, Sending
<1>1. CASE SmsInvoice(u)
  <2>1. \/ request' = [request EXCEPT ![u] = [request[u] EXCEPT !.stage = "letters"]]
        \/ request' = [request EXCEPT ![u] = [request[u] EXCEPT !.texts = Tail(@)]]
        \/ request' = [request EXCEPT ![u] = Failed(request[u], "letters")]
    BY <1>1 DEF SmsInvoice, Requests
  <2> QED BY <1>0, <2>1, BatchEnds
<1>2. CASE StartLetters(u)
  <2>1. \/ request' = [request EXCEPT ![u] = [request[u] EXCEPT !.stage = "mail"]]
        \/ request' = [request EXCEPT ![u] =
                         [request[u] EXCEPT !.post = NewCampaign(Cardinality(request[u].letters))]]
    BY <1>2 DEF StartLetters
  <2> QED BY <1>0, <2>1, BatchEnds
<1>3. CASE EndLetters(u)
  <2>1. \/ request' = [request EXCEPT ![u] = [request[u] EXCEPT !.stage = "mail", !.post = NoPost]]
        \/ request' = [request EXCEPT ![u] = Failed(request[u], "mail")]
    BY <1>3 DEF EndLetters
  <2> QED BY <1>0, <2>1, BatchEnds
<1>4. CASE EndBatch(u)
  <2>1. NoReminders(request[u])
    BY <1>0 DEF Requests, Going, Sound
  <2> QED BY <1>4, <2>1 DEF EndBatch, Ends, NoReminders
<1> QED BY <1>1, <1>2, <1>3, <1>4

LEMMA CallSteps ==
    ASSUME Requests, NEW u \in Users, PostCall(u)
    PROVE  \/ Working(u) /\ GoesOn(u)
           \/ NoReminders(request[u]) /\ Ends(u)
<1>1. PICK answer \in Answers : request' = [request EXCEPT ![u].post = Answered(@, answer)]
  BY DEF PostCall
<1> DEFINE post == Answered(request[u].post, answer)
<1>2. request' = [request EXCEPT ![u].post = post]
  BY <1>1
<1>3. request' = [request EXCEPT ![u] = [request[u] EXCEPT !.post = post]]
  BY <1>1 DEF Requests
<1> HIDE DEF post
<1>4. CASE Working(u)
  <2>1. request[u].todo # <<>>
    BY <1>4, WorkingSound DEF PostCall, Posting, Sound
  <2> QED BY <1>2, <1>4, <2>1, PostGoesOn
<1>5. CASE request[u].kind = "invoices"
  BY <1>3, <1>5, BatchEnds
<1>6. request[u] # Idle
  BY DEF PostCall
<1> QED BY <1>4, <1>5, <1>6 DEF Requests, Going, NoReminders, Sound, Working

LEMMA SendSteps ==
    ASSUME Requests, NEW u \in Users,
           SendEmail(u) \/ SendManual(u) \/ SendSms(u) \/ StartLetter(u) \/ EndLetter(u)
    PROVE  Working(u) /\ (GoesOn(u) \/ Ends(u))
<1>1. CASE SendEmail(u)
  <2>1. Working(u) /\ request[u].todo # <<>>
    BY <1>1 DEF SendEmail, ToSend, Working
  <2>2. PICK left \in SUBSET {Head(request[u].todo)}, queued \in SUBSET {Head(request[u].todo)} :
            left \cap queued = {} /\ Deliver(u, left, queued)
    BY <1>1 DEF SendEmail
  <2> QED BY <2>1, <2>2, DeliverGoesOn
<1>2. CASE SendManual(u)
  <2>1. Working(u) /\ request[u].todo # <<>> /\ Deliver(u, {}, {Head(request[u].todo)})
    BY <1>2 DEF SendManual, ToSend, Working
  <2> QED BY <2>1, DeliverGoesOn
<1>3. CASE SendSms(u)
  <2>1. Working(u) /\ request[u].todo # <<>>
    BY <1>3 DEF SendSms, ToSend, Working
  <2>2. \/ Deliver(u, {Head(request[u].todo)}, {})
        \/ \E more : RollBack(u, more)
    BY <1>3 DEF SendSms
  <2> QED BY <2>1, <2>2, DeliverGoesOn, RollBackEnds
<1>4. CASE StartLetter(u)
  <2>1. Working(u) /\ request[u].todo # <<>> /\ request' = [request EXCEPT ![u].post = NewCampaign(1)]
    BY <1>4 DEF StartLetter, ToSend, Working
  <2> QED BY <2>1, PostGoesOn
<1>5. CASE EndLetter(u)
  <2>1. Working(u)
    BY <1>5 DEF EndLetter, Working
  <2>2. PICK letter \in SUBSET {Head(request[u].todo)} :
            Deliver(u, letter, {}) \/ RollBack(u, letter)
    BY <1>5 DEF EndLetter
  <2>3. request[u].todo # <<>>
    BY <1>5, <2>1, WorkingSound DEF EndLetter, Posting, Sound
  <2> QED BY <2>1, <2>2, <2>3, DeliverGoesOn, RollBackEnds
<1> QED BY <1>1, <1>2, <1>3, <1>4, <1>5

LEMMA InvoicesEnds ==
    ASSUME NEW u \in Users, SendInvoices(u)
    PROVE  Ends(u)
<1>1. PICK batch \in Batches : \E cron \in BOOLEAN : request' = [request EXCEPT ![u] =
        [kind |-> "invoices", cron |-> cron, stage |-> "sms", texts |-> SetToSeq(batch.texts),
         letters |-> batch.letters, failed |-> {}, left |-> {}, post |-> NoPost]]
  BY DEF SendInvoices
<1>2. PICK cron \in BOOLEAN : request' = [request EXCEPT ![u] =
        [kind |-> "invoices", cron |-> cron, stage |-> "sms", texts |-> SetToSeq(batch.texts),
         letters |-> batch.letters, failed |-> {}, left |-> {}, post |-> NoPost]]
  BY <1>1
<1> DEFINE req == [kind |-> "invoices", cron |-> cron, stage |-> "sms", texts |-> SetToSeq(batch.texts),
                   letters |-> batch.letters, failed |-> {}, left |-> {}, post |-> NoPost]
<1>3. NoReminders(req)
  BY DEF NoReminders, BatchFields
<1>4. request' = [request EXCEPT ![u] = req]
  BY <1>2
<1> HIDE DEF req
<1> QED BY <1>3, <1>4 DEF Ends

\* What a step may do with the requests.
RequestStep ==
    \/ UNCHANGED <<request, made, knew>>
    \/ /\ UNCHANGED <<made, knew>>
       /\ \E u \in Users : GoesOn(u) \/ Ends(u) \/ ListBegins(u)
    \/ \E u \in Users : \E fresh, ids : Begins(u, fresh, ids)

LEMMA RequestSteps ==
    ASSUME Rows, Wizards, Requests, Unborn, [Next]_vars
    PROVE  RequestStep
<1>1. ASSUME NEW u \in Users, Confirm(u) PROVE RequestStep
  <2>1. \E fresh, ids : Begins(u, fresh, ids)
    BY <1>1, ConfirmBegins
  <2> QED BY <2>1 DEF RequestStep
<1>2. ASSUME NEW u \in Users, SendPrepared(u) PROVE RequestStep
  <2>1. ListBegins(u)
    BY <1>2, ListStarts DEF ListBegins, SendPrepared
  <2> QED BY <1>2, <2>1 DEF RequestStep, SendPrepared, history
<1>3. ASSUME NEW u \in Users, SendEmail(u) \/ SendManual(u) \/ SendSms(u) \/ StartLetter(u) \/ EndLetter(u)
      PROVE  RequestStep
  <2>1. GoesOn(u) \/ Ends(u)
    BY <1>3, SendSteps
  <2>2. UNCHANGED <<made, knew>>
    BY <1>3 DEF SendEmail, SendManual, SendSms, StartLetter, EndLetter, history
  <2> QED BY <2>1, <2>2 DEF RequestStep
<1>4. ASSUME NEW u \in Users, PostCall(u) PROVE RequestStep
  <2>1. GoesOn(u) \/ Ends(u)
    BY <1>4, CallSteps
  <2>2. UNCHANGED <<made, knew>>
    BY <1>4 DEF PostCall, history
  <2> QED BY <2>1, <2>2 DEF RequestStep
<1>5. ASSUME NEW u \in Users, Rerun(u) PROVE RequestStep
  <2>1. GoesOn(u) \/ Ends(u)
    BY <1>5, RerunSteps
  <2>2. UNCHANGED <<made, knew>>
    BY <1>5 DEF Rerun
  <2> QED BY <2>1, <2>2 DEF RequestStep
<1>6. ASSUME NEW u \in Users, Commit(u) PROVE RequestStep
  <2>1. Ends(u) /\ UNCHANGED <<made, knew>>
    BY <1>6 DEF Commit, Ends, NoReminders
  <2> QED BY <2>1 DEF RequestStep
<1>7. ASSUME NEW u \in Users, SendInvoices(u) PROVE RequestStep
  <2>1. Ends(u)
    BY <1>7, InvoicesEnds
  <2>2. UNCHANGED <<made, knew>>
    BY <1>7 DEF SendInvoices, history
  <2> QED BY <2>1, <2>2 DEF RequestStep
<1>8. ASSUME NEW u \in Users, SmsInvoice(u) \/ StartLetters(u) \/ EndLetters(u) \/ EndBatch(u)
      PROVE  RequestStep
  <2>1. Ends(u)
    BY <1>8, BatchSteps
  <2>2. UNCHANGED <<made, knew>>
    BY <1>8 DEF SmsInvoice, StartLetters, EndLetters, EndBatch, history
  <2> QED BY <2>1, <2>2 DEF RequestStep
<1>9. CASE UNCHANGED <<request, made, knew>>
  BY <1>9 DEF RequestStep
<1>10. ASSUME NEW u \in Users, OpenWizard(u) PROVE UNCHANGED <<request, made, knew>>
  BY <1>10 DEF OpenWizard, history
<1>11. ASSUME (\E r \in Reminders : Cancel(r)) \/ (\E m \in Invoices : Pay(m)) \/ NextDay \/ UNCHANGED vars
       PROVE  UNCHANGED <<request, made, knew>>
  BY <1>11 DEF Cancel, Pay, NextDay, vars, history
<1> QED
  BY <1>1, <1>2, <1>3, <1>4, <1>5, <1>6, <1>7, <1>8, <1>9, <1>10, <1>11 DEF Next, ReminderNext

\* The request a wizard begins.
LEMMA BeginsSound ==
    ASSUME Rows, Unborn, NEW u \in Users, NEW fresh, NEW ids, Begins(u, fresh, ids)
    PROVE  /\ Sound(Started("wizard", fresh, ids))
           /\ Started("wizard", fresh, ids).fresh = fresh /\ Started("wizard", fresh, ids).left = {}
           /\ \A r \in DOMAIN fresh : r \in Reminders /\ r > made /\ r <= made' /\ reminder[r].state = "none"
           /\ \A r \in DOMAIN fresh :
                Previous(Started("wizard", fresh, ids), r) = PreviousFees(reminder, fresh[r].moves)
<1>1. made \in Nat /\ made' \in made..MaxReminders /\ DOMAIN fresh = (made + 1)..made' /\ IsFresh(fresh)
  BY DEF Begins, Rows
<1>2. \A r \in DOMAIN fresh : r \in Reminders /\ r > made /\ r <= made'
  BY <1>1 DEF IsFresh
<1>3. \A r \in DOMAIN fresh : reminder[r].state = "none"
  BY <1>2 DEF Unborn
<1>4. ids \subseteq Reminders
  BY <1>2 DEF Begins
<1> DEFINE req == Started("wizard", fresh, ids)
<1>5. /\ Sound(req) /\ req.fresh = fresh /\ req.left = {}
      /\ \A r \in DOMAIN fresh : req.db.reminder[r].previous = PreviousFees(reminder, fresh[r].moves)
  <2>1. IsInvoices(invoice) /\ IsRows(reminder) /\ IsFresh(fresh) /\ "wizard" \in {"wizard", "list"}
    BY <1>1 DEF Rows
  <2> QED BY <1>3, <1>4, <2>1, StartedSound
<1> HIDE DEF req
<1>6. \A r \in DOMAIN fresh : Previous(req, r) = PreviousFees(reminder, fresh[r].moves)
  BY <1>5 DEF Previous
<1> QED BY <1>2, <1>3, <1>5, <1>6 DEF req

LEMMA RequestsStep ==
    ASSUME Rows, Wizards, Requests, Unborn, [Next]_vars
    PROVE  Requests'
<1>0. RequestStep
  BY RequestSteps
<1>1. ASSUME NEW u \in Users, NEW req, Going(req), request' = [request EXCEPT ![u] = req] PROVE Requests'
  BY <1>1 DEF Requests
<1>2. CASE UNCHANGED request
  BY <1>2 DEF Requests
<1>3. ASSUME NEW u \in Users, GoesOn(u) \/ Ends(u) \/ ListBegins(u) PROVE Requests'
  BY <1>1, <1>3 DEF GoesOn, Ends, ListBegins, Going
<1>4. ASSUME NEW u \in Users, NEW fresh, NEW ids, Begins(u, fresh, ids) PROVE Requests'
  <2> DEFINE req == Started("wizard", fresh, ids)
  <2>1. Sound(req)
    BY <1>4, BeginsSound
  <2>2. request' = [request EXCEPT ![u] = req]
    BY <1>4 DEF Begins
  <2> HIDE DEF req
  <2> QED BY <1>1, <2>1, <2>2 DEF Going
<1> QED BY <1>0, <1>2, <1>3, <1>4 DEF RequestStep

\* What requests create after a step: what they created before it, nothing, or what a
\* wizard has them create.
LEMMA FreshIs ==
    ASSUME Rows, Requests, Unborn, RequestStep, NEW u \in Users, Working(u)'
    PROVE  \/ Working(u) /\ request'[u].fresh = request[u].fresh /\ Recounts(u, request'[u])
           \/ DOMAIN request'[u].fresh = {}
           \/ \E ids : Begins(u, request'[u].fresh, ids)
<1>0. DOMAIN request = Users /\ request'[u].kind \in {"wizard", "list"}
  BY DEF Requests, Working
<1>1. CASE UNCHANGED request
  BY <1>0, <1>1 DEF Working, Recounts
<1>2. ASSUME NEW v \in Users, GoesOn(v)
      PROVE  Working(u) /\ request'[u].fresh = request[u].fresh /\ Recounts(u, request'[u])
  <2>1. PICK req : /\ request' = [request EXCEPT ![v] = req] /\ req.kind = request[v].kind
                   /\ req.fresh = request[v].fresh /\ Recounts(v, req)
    BY <1>2 DEF GoesOn
  <2> QED BY <1>0, <2>1 DEF Working, Recounts
<1>3. ASSUME NEW v \in Users, Ends(v)
      PROVE  Working(u) /\ request'[u].fresh = request[u].fresh /\ Recounts(u, request'[u])
  <2>1. PICK req : request' = [request EXCEPT ![v] = req] /\ NoReminders(req)
    BY <1>3 DEF Ends
  <2>2. req.kind \notin {"wizard", "list"}
    BY <2>1 DEF NoReminders, Idle
  <2> QED BY <1>0, <2>1, <2>2 DEF Working, Recounts
<1>4. ASSUME NEW v \in Users, ListBegins(v)
      PROVE  DOMAIN request'[u].fresh = {} \/ (Working(u) /\ request'[u] = request[u])
  <2>1. PICK req : request' = [request EXCEPT ![v] = req] /\ DOMAIN req.fresh = {}
    BY <1>4 DEF ListBegins
  <2> QED BY <1>0, <2>1 DEF Working
<1>5. ASSUME NEW v \in Users, NEW fresh, NEW ids, Begins(v, fresh, ids)
      PROVE  Begins(u, request'[u].fresh, ids) \/ (Working(u) /\ request'[u] = request[u])
  <2>1. request' = [request EXCEPT ![v] = Started("wizard", fresh, ids)]
    BY <1>5 DEF Begins
  <2>2. Started("wizard", fresh, ids).fresh = fresh
    BY <1>5, BeginsSound
  <2>3. CASE u = v
    <3>1. request'[u].fresh = fresh
      BY <1>0, <2>1, <2>2, <2>3
    <3> QED BY <1>5, <2>3, <3>1
  <2>4. CASE u # v
    BY <1>0, <2>1, <2>4 DEF Working
  <2> QED BY <2>3, <2>4
<1>6. CASE Working(u) /\ request'[u] = request[u]
  BY <1>6 DEF Recounts
<1> QED BY <1>1, <1>2, <1>3, <1>4, <1>5, <1>6 DEF RequestStep

LEMMA UnbornStep ==
    ASSUME Rows, Wizards, Requests, Unborn, Ledger, [Next]_vars
    PROVE  Unborn'
<1>0. RequestStep
  BY RequestSteps
<1>1. made \in Nat /\ made' \in Nat /\ made <= made'
  BY <1>0, ReminderAssumption DEF RequestStep, Begins, Rows, ReminderAssumption
<1>2. ASSUME NEW u \in Users, Commit(u), NEW r \in Reminders, r \notin DOMAIN request[u].fresh,
             reminder[r].state = "none"
      PROVE  reminder'[r] = reminder[r]
  <2> DEFINE req == request[u]
  <2>1. /\ Sound(req)
        /\ (r \in HandedOver(req) /\ r \notin DOMAIN req.fresh) => reminder[r] = Found(req, r)
        /\ r \notin HandedOver(req) \cup DOMAIN req.fresh => reminder'[r] = reminder[r]
        /\ Handed(req) = Len(Whole(req))
    BY <1>2, CommitIs
  <2> HIDE DEF req
  <2>2. \A i \in 1..Len(Whole(req)) : Found(req, Whole(req)[i]).state = "draft"
    BY <2>1, WholeIs DEF Sound, Underneath
  <2>3. r \in HandedOver(req) => Found(req, r).state = "draft"
    BY <2>1, <2>2 DEF HandedOver
  <2> QED BY <1>2, <2>1, <2>3 DEF req
<1>3. ASSUME NEW r \in Reminders, reminder[r].state = "none",
             \A u \in Users : Commit(u) => r \notin DOMAIN request[u].fresh
      PROVE  reminder'[r].state = "none"
  <2>1. CASE \E u \in Users : Commit(u)
    BY <1>2, <1>3, <2>1
  <2>2. CASE ~\E u \in Users : Commit(u)
    BY <1>3, <2>2, BooksKept DEF SameBooks
  <2> QED BY <2>1, <2>2
<1>4. ASSUME NEW u \in Users, Commit(u) PROVE Working(u) /\ ~Working(u)' /\ UNCHANGED made
  <2>1. Working(u) /\ request' = [request EXCEPT ![u] = Idle] /\ UNCHANGED made
    BY <1>4 DEF Commit, Working
  <2> QED BY <2>1 DEF Working, Requests, Idle
<1>5. ASSUME NEW r \in Reminders, r > made' PROVE reminder'[r].state = "none"
  <2>1. r > made
    BY <1>1, <1>5 DEF Reminders
  <2>2. \A u \in Users : Working(u) => r \notin DOMAIN request[u].fresh
    BY <1>1, <2>1 DEF Unborn, Reminders
  <2>3. reminder[r].state = "none"
    BY <2>1 DEF Unborn
  <2> QED BY <1>3, <1>4, <2>2, <2>3
<1>6. ASSUME NEW u \in Users, Working(u)', NEW r \in DOMAIN request'[u].fresh
      PROVE  r <= made' /\ reminder'[r].state = "none"
  <2>1. CASE Working(u) /\ request'[u].fresh = request[u].fresh
    <3>0. Sound(request[u])
      BY <2>1, WorkingSound
    <3>1. r \in DOMAIN request[u].fresh /\ r <= made /\ reminder[r].state = "none" /\ r \in Reminders
      BY <1>6, <2>1, <3>0 DEF Unborn, Sound, Underneath, IsFresh
    <3>2. \A v \in Users : Commit(v) => r \notin DOMAIN request[v].fresh
      <4> SUFFICES ASSUME NEW v \in Users, Commit(v) PROVE r \notin DOMAIN request[v].fresh
        OBVIOUS
      <4>1. Working(v) /\ v # u
        BY <1>4, <1>6
      <4> QED BY <2>1, <3>1, <4>1 DEF Unborn
    <3>3. r <= made'
      BY <1>1, <3>1 DEF Reminders
    <3> QED BY <1>3, <3>1, <3>2, <3>3
  <2>2. ASSUME NEW ids, Begins(u, request'[u].fresh, ids) PROVE r <= made' /\ reminder'[r].state = "none"
    <3> DEFINE fresh == request'[u].fresh
    <3>1. r \in Reminders /\ r > made /\ r <= made' /\ reminder[r].state = "none"
      <4>1. Begins(u, fresh, ids) /\ r \in DOMAIN fresh
        BY <1>6, <2>2
      <4> HIDE DEF fresh
      <4> QED BY <4>1, BeginsSound
    <3>2. \A v \in Users : Commit(v) => r \notin DOMAIN request[v].fresh
      BY <1>1, <1>4, <3>1 DEF Unborn, Reminders
    <3> QED BY <1>3, <3>1, <3>2
  <2> QED BY <1>0, <1>6, <2>1, <2>2, FreshIs
<1>7. ASSUME NEW u \in Users, NEW v \in Users, u # v, Working(u)', Working(v)',
             NEW r \in DOMAIN request'[u].fresh, r \in DOMAIN request'[v].fresh
      PROVE  FALSE
  <2>1. ASSUME NEW x \in Users, Working(x)', NEW s \in DOMAIN request'[x].fresh
        PROVE  \/ Working(x) /\ s \in DOMAIN request[x].fresh /\ s <= made /\ s \in Reminders
               \/ s > made /\ s \in Reminders /\ request[x] = Idle /\ request' = [request EXCEPT ![x] = request'[x]]
    <3>1. CASE Working(x) /\ request'[x].fresh = request[x].fresh
      <4>1. Sound(request[x])
        BY <3>1, WorkingSound
      <4> QED BY <2>1, <3>1, <4>1 DEF Unborn, Sound, Underneath, IsFresh
    <3>2. ASSUME NEW ids, Begins(x, request'[x].fresh, ids)
          PROVE  s > made /\ s \in Reminders /\ request[x] = Idle /\ request' = [request EXCEPT ![x] = request'[x]]
      <4> DEFINE fresh == request'[x].fresh
      <4>0. Begins(x, fresh, ids) /\ s \in DOMAIN fresh
        BY <2>1, <3>2
      <4> HIDE DEF fresh
      <4>1. s \in Reminders /\ s > made
        BY <4>0, BeginsSound
      <4>2. request[x] = Idle /\ request' = [request EXCEPT ![x] = Started("wizard", fresh, ids)]
        BY <4>0 DEF Begins
      <4> QED BY <4>1, <4>2 DEF Requests
    <3> QED BY <1>0, <2>1, <3>1, <3>2, FreshIs
  <2>2. \/ Working(u) /\ r \in DOMAIN request[u].fresh /\ r <= made /\ r \in Reminders
        \/ r > made /\ r \in Reminders /\ request' = [request EXCEPT ![u] = request'[u]] /\ request[u] = Idle
    BY <1>7, <2>1
  <2>3. \/ Working(v) /\ r \in DOMAIN request[v].fresh /\ r <= made /\ r \in Reminders
        \/ r > made /\ r \in Reminders /\ request' = [request EXCEPT ![v] = request'[v]] /\ request[v] = Idle
    BY <1>7, <2>1
  <2>4. CASE r <= made /\ r \in Reminders
    <3>1. Working(u) /\ r \in DOMAIN request[u].fresh /\ Working(v) /\ r \in DOMAIN request[v].fresh
      BY <1>1, <2>2, <2>3, <2>4 DEF Reminders
    <3> QED BY <1>7, <3>1 DEF Unborn
  <2>5. CASE r > made /\ r \in Reminders
    <3>1. /\ request' = [request EXCEPT ![u] = request'[u]] /\ request[u] = Idle
          /\ request' = [request EXCEPT ![v] = request'[v]] /\ request[v] = Idle
      BY <1>1, <2>2, <2>3, <2>5 DEF Reminders
    <3>2. request'[u] = Idle
      BY <1>7, <3>1 DEF Requests
    <3> QED BY <1>7, <3>2 DEF Working, Idle
  <2> QED BY <2>2, <2>4, <2>5
<1> QED BY <1>5, <1>6, <1>7 DEF Unborn

LEMMA MinIs ==
    ASSUME NEW S, S \subseteq Nat, S # {}
    PROVE  Min(S) \in S
<1>1. \E n \in S : \A m \in S : n <= m
  BY LeastExists
<1> QED BY <1>1 DEF Min

\* What the wizard proposes (default_get): levels above that of each invoice, a line or more.
LEMMA ProposalIs ==
    ASSUME Rows
    PROVE  /\ IsFiniteSet(Proposal)
           /\ \A line \in Proposal :
                /\ line.moves \subseteq Invoices /\ line.level \in Nat /\ line.level \in Levels
                /\ \A m \in line.moves : invoice[m].level < line.level
<1> DEFINE next == [m \in Invoices |-> IF invoice[m].paid THEN 0 ELSE NextLevel(m, invoice[m])]
           due == {n \in Invoices : next[n] # 0}
           line(m) == [level |-> next[m],
                       moves |-> {n \in Invoices : Customer[n] = Customer[m] /\ next[n] = next[m]}]
<1>1. ASSUME NEW m \in Invoices PROVE next[m] \in Nat /\ (next[m] # 0 => next[m] \in Levels /\ invoice[m].level < next[m])
  <2> DEFINE reached == {l \in Levels : l > invoice[m].level /\ today - Due[m] >= LevelDays[l]}
  <2>1. next[m] # 0 => reached # {} /\ next[m] = Min(reached)
    BY DEF NextLevel
  <2>2. next[m] = 0 \/ next[m] # 0
    OBVIOUS
  <2>3. Levels \subseteq Nat
    BY ReminderAssumption DEF Levels, ReminderAssumption
  <2>4. \A l \in reached : l \in Nat /\ l \in Levels /\ invoice[m].level < l
    BY <2>3 DEF Rows, IsInvoices, IsInvoice
  <2> HIDE DEF next, reached
  <2>5. CASE next[m] # 0
    <3>1. Min(reached) \in reached
      BY <2>1, <2>4, <2>5, MinIs
    <3> QED BY <2>1, <2>4, <2>5, <3>1
  <2> QED BY <2>5
<1>2. Proposal = {line(m) : m \in due}
  BY DEF Proposal
<1>3. IsFiniteSet(Proposal)
  <2> DEFINE f == [m \in due |-> line(m)]
             T == {line(m) : m \in due}
  <2>1. IsFiniteSet(due)
    <3>1. due \subseteq Invoices
      OBVIOUS
    <3> HIDE DEF due
    <3> QED BY <3>1, ReminderAssumption, FS_Subset DEF ReminderAssumption
  <2> HIDE DEF due, line
  <2>2. f \in Surjection(due, T)
    BY DEF Surjection
  <2> HIDE DEF f, T
  <2>3. IsFiniteSet(T)
    BY <2>1, <2>2, FS_Surjection
  <2> QED BY <1>2, <2>3 DEF T
<1>4. ASSUME NEW m \in due
      PROVE  /\ line(m).moves \subseteq Invoices /\ line(m).level \in Nat /\ line(m).level \in Levels
             /\ \A n \in line(m).moves : invoice[n].level < line(m).level
  <2>1. line(m).level = next[m] /\ line(m).moves = {n \in Invoices : Customer[n] = Customer[m] /\ next[n] = next[m]}
    OBVIOUS
  <2>2. m \in Invoices /\ next[m] # 0
    OBVIOUS
  <2> HIDE DEF next, line
  <2> QED BY <1>1, <2>1, <2>2
<1> HIDE DEF line, due
<1> QED BY <1>2, <1>3, <1>4

LEMMA WizardsStep ==
    ASSUME Rows, Wizards, [Next]_vars
    PROVE  /\ Wizards'
           /\ \A u \in Users :
                \/ wizard'[u] = wizard[u]
                \/ wizard'[u].lines = {} /\ wizard'[u].knew = {}
                \/ /\ wizard'[u].lines = Proposal /\ wizard'[u].knew = Sent
                   /\ UNCHANGED <<reminder, order, knew>>
<1>1. ASSUME NEW u \in Users, NEW w, wizard' = [wizard EXCEPT ![u] = w],
             DOMAIN w = {"lines", "knew"}, IsFiniteSet(w.lines),
             \A line \in w.lines : line.moves \subseteq Invoices /\ line.level \in Nat
      PROVE  Wizards' /\ wizard'[u] = w /\ \A v \in Users \ {u} : wizard'[v] = wizard[v]
  BY <1>1 DEF Wizards
<1>2. ASSUME NEW u \in Users, OpenWizard(u)
      PROVE  /\ Wizards' /\ \A v \in Users \ {u} : wizard'[v] = wizard[v]
             /\ wizard'[u].lines = Proposal /\ wizard'[u].knew = Sent
             /\ UNCHANGED <<reminder, order, knew>>
  <2> DEFINE w == [lines |-> Proposal, knew |-> Sent]
  <2>1. wizard' = [wizard EXCEPT ![u] = w] /\ UNCHANGED <<reminder, order, knew>>
    BY <1>2 DEF OpenWizard, history
  <2>2. DOMAIN w = {"lines", "knew"} /\ w.lines = Proposal /\ w.knew = Sent
    OBVIOUS
  <2> HIDE DEF w
  <2>3. IsFiniteSet(w.lines) /\ \A line \in w.lines : line.moves \subseteq Invoices /\ line.level \in Nat
    BY <2>2, ProposalIs
  <2>4. Wizards' /\ wizard'[u] = w /\ \A v \in Users \ {u} : wizard'[v] = wizard[v]
    BY <1>1, <2>1, <2>2, <2>3
  <2> QED BY <2>1, <2>2, <2>4
<1>3. ASSUME NEW u \in Users, Commit(u), wizard' # wizard
      PROVE  /\ Wizards' /\ \A v \in Users \ {u} : wizard'[v] = wizard[v]
             /\ wizard'[u].lines = {} /\ wizard'[u].knew = {}
  <2> DEFINE w == [lines |-> {}, knew |-> {}]
  <2>1. wizard' = [wizard EXCEPT ![u] = w]
    BY <1>3 DEF Commit
  <2>2. DOMAIN w = {"lines", "knew"} /\ w.lines = {} /\ w.knew = {} /\ IsFiniteSet({})
    BY FS_EmptySet
  <2> HIDE DEF w
  <2>3. IsFiniteSet(w.lines) /\ \A line \in w.lines : line.moves \subseteq Invoices /\ line.level \in Nat
    BY <2>2
  <2>4. Wizards' /\ wizard'[u] = w /\ \A v \in Users \ {u} : wizard'[v] = wizard[v]
    BY <1>1, <2>1, <2>2, <2>3
  <2> QED BY <2>2, <2>4
<1>4. CASE wizard' = wizard
  BY <1>4 DEF Wizards
<1>5. ASSUME NEW u \in Users, ~OpenWizard(u), ~Commit(u),
             \/ Confirm(u) \/ SendPrepared(u) \/ SendEmail(u) \/ SendManual(u) \/ SendSms(u)
             \/ StartLetter(u) \/ PostCall(u) \/ EndLetter(u) \/ Rerun(u)
      PROVE  wizard' = wizard
  BY <1>5 DEF Confirm, SendPrepared, SendEmail, SendManual, SendSms, StartLetter, PostCall, EndLetter, Rerun
<1>6. ASSUME NEW u \in Users, SendInvoices(u) \/ SmsInvoice(u) \/ StartLetters(u) \/ EndLetters(u) \/ EndBatch(u)
      PROVE  wizard' = wizard
  BY <1>6 DEF SendInvoices, SmsInvoice, StartLetters, EndLetters, EndBatch
<1>7. ASSUME (\E r \in Reminders : Cancel(r)) \/ (\E m \in Invoices : Pay(m)) \/ NextDay \/ UNCHANGED vars
      PROVE  wizard' = wizard
  BY <1>7 DEF Cancel, Pay, NextDay, vars
<1>8. \/ \E u \in Users : OpenWizard(u)
      \/ \E u \in Users : Commit(u) /\ wizard' # wizard
      \/ wizard' = wizard
  BY <1>5, <1>6, <1>7 DEF Next, ReminderNext
<1> QED BY <1>2, <1>3, <1>4, <1>8

LEMMA RowsStep ==
    ASSUME Rows, Wizards, Requests, Unborn, [Next]_vars
    PROVE  Rows'
<1>0. RequestStep
  BY RequestSteps
<1>1. made' \in 0..MaxReminders /\ DOMAIN knew' = Reminders
  <2>1. made \in 0..MaxReminders /\ MaxReminders \in Nat
    BY ReminderAssumption DEF Rows, ReminderAssumption
  <2>2. made' = made \/ made' \in made..MaxReminders
    BY <1>0 DEF RequestStep, Begins
  <2>3. made' \in 0..MaxReminders
    BY <2>1, <2>2
  <2>4. DOMAIN knew' = Reminders
    BY <1>0 DEF RequestStep, Begins, Rows
  <2> QED BY <2>3, <2>4
<1>2. IsInvoices(invoice') /\ IsRows(reminder')
  <2>1. CASE \E u \in Users : Commit(u)
    BY <2>1, CommitIs
  <2>2. CASE ~\E u \in Users : Commit(u)
    BY <2>2, BooksKept DEF SameBooks
  <2> QED BY <2>1, <2>2
<1>3. ASSUME NEW ids, Leave(ids) PROVE copies' \in [Reminders -> Nat]
  BY <1>3 DEF Leave, Rows
<1>4. ASSUME NEW u, NEW more, RollBack(u, more) PROVE wasted' \in [Reminders -> Nat]
  BY <1>4 DEF RollBack, Rows
<1>5. ASSUME NEW u, Rerun(u) PROVE wasted' \in [Reminders -> Nat]
  BY <1>5 DEF Rerun, Rows
<1>6. \/ copies' = copies \/ \E ids : Leave(ids)
  BY Zenon DEF Next, ReminderNext, OpenWizard, Confirm, SendPrepared, SendEmail, SendManual, SendSms, StartLetter,
         PostCall, EndLetter, Commit, Rerun, Cancel, Pay, NextDay, SendInvoices, SmsInvoice, StartLetters,
         EndLetters, EndBatch, vars, history
<1>7. \/ wasted' = wasted \/ (\E u, more : RollBack(u, more)) \/ \E u : Rerun(u)
  BY Zenon DEF Next, ReminderNext, OpenWizard, Confirm, SendPrepared, SendEmail, SendManual, SendSms, StartLetter,
         PostCall, EndLetter, Commit, Cancel, Pay, NextDay, SendInvoices, SmsInvoice, StartLetters,
         EndLetters, EndBatch, vars, history
<1>8. copies' \in [Reminders -> Nat] /\ wasted' \in [Reminders -> Nat]
  BY <1>3, <1>4, <1>5, <1>6, <1>7 DEF Rows
<1> QED BY <1>1, <1>2, <1>8 DEF Rows

-----------------------------------------------------------------------------
(* Levels rise                                                               *)

\* Where a reminder that is sent has its place, now and later.
LEMMA PlaceIs ==
    ASSUME Ledger, NEW r \in Sent
    PROVE  Place(r) \in 1..Len(order) /\ order[Place(r)] = r
<1>1. \E i \in DOMAIN order : order[i] = r
  BY DEF Ledger, Sent
<1>2. Place(r) \in DOMAIN order /\ order[Place(r)] = r
  BY <1>1 DEF Place
<1> QED BY <1>2 DEF Ledger

LEMMA PlaceOnly ==
    ASSUME Ledger, NEW i \in 1..Len(order)
    PROVE  Place(order[i]) = i
<1>1. order[i] \in Sent
  BY DEF Ledger, Sent
<1>2. Place(order[i]) \in 1..Len(order) /\ order[Place(order[i])] = order[i]
  BY <1>1, PlaceIs
<1> QED BY <1>2 DEF Ledger

LEMMA PlaceStays ==
    ASSUME Ledger, Ledger', Stays, NEW r \in Sent
    PROVE  Place(r)' = Place(r)
<1>1. Place(r) \in 1..Len(order) /\ order[Place(r)] = r
  BY PlaceIs
<1> DEFINE i == Place(r)
<1>2. i \in 1..Len(order') /\ order'[i] = r
  BY <1>1 DEF Stays
<1> DEFINE j == Place(r)'
<1> HIDE DEF i
<1>3. DOMAIN order' = 1..Len(order')
  BY DEF Ledger
<1>4. j = CHOOSE k \in DOMAIN order' : order'[k] = r
  BY DEF Place
<1> HIDE DEF j
<1>5. j \in DOMAIN order' /\ order'[j] = r
  BY <1>2, <1>3, <1>4
<1>6. j = i
  BY <1>2, <1>3, <1>5 DEF Ledger
<1> QED BY <1>6 DEF i, j

\* What was known when a reminder was prepared does not change.
LEMMA KnewStays ==
    ASSUME Rows, Unborn, RequestStep
    PROVE  /\ \A r \in Reminders : r <= made => knew'[r] = knew[r]
           /\ \A r \in Sent : knew'[r] = knew[r]
<1>1. ASSUME NEW r \in Reminders, r <= made PROVE knew'[r] = knew[r]
  <2>1. CASE knew' = knew
    BY <2>1
  <2>2. ASSUME NEW u \in Users, NEW fresh, NEW ids, Begins(u, fresh, ids) PROVE knew'[r] = knew[r]
    <3>1. \A s \in DOMAIN fresh : s > made
      BY <2>2, BeginsSound
    <3>2. made \in Nat /\ r \in Nat
      BY DEF Rows, Reminders
    <3>3. r \notin DOMAIN fresh
      BY <1>1, <3>1, <3>2
    <3>4. knew' = [x \in Reminders |-> IF x \in DOMAIN fresh THEN wizard[u].knew ELSE knew[x]]
      BY <2>2 DEF Begins
    <3> QED BY <3>3, <3>4
  <2> QED BY <2>1, <2>2 DEF RequestStep
<1>2. \A r \in Sent : r \in Reminders /\ r <= made
  <2> SUFFICES ASSUME NEW r \in Sent PROVE r \in Reminders /\ r <= made
    OBVIOUS
  <2>1. r \in Reminders /\ ~(r > made)
    BY DEF Sent, Unborn
  <2>2. r \in Nat /\ made \in Nat
    BY <2>1 DEF Rows, Reminders
  <2> QED BY <2>1, <2>2
<1> QED BY <1>1, <1>2

\* Closed and Rises after the step, of what there was before it.
ClosedNext(known) == known \subseteq Sent' /\ \A t \in known : knew'[t] \subseteq known
RisesNext(moves, level, known) ==
    \A r \in known :
        (reminder'[r].moves \cap moves # {} /\ level <= reminder'[r].level) =>
            \E t \in known : /\ r \notin knew'[t]
                             /\ reminder'[t].moves \cap reminder'[r].moves # {}
                             /\ Place(r)' < Place(t)'

LEMMA SentStays ==
    ASSUME Stays
    PROVE  Sent \subseteq Sent'
BY DEF Stays, Sent

LEMMA ClosedStays ==
    ASSUME Rows, Unborn, RequestStep, Stays, NEW known, Closed(known)
    PROVE  ClosedNext(known)
<1>1. \A t \in known : t \in Sent /\ knew[t] \subseteq known
  BY DEF Closed
<1>2. \A t \in known : knew'[t] = knew[t]
  BY <1>1, KnewStays
<1> QED BY <1>1, <1>2, SentStays DEF ClosedNext

LEMMA RisesStays ==
    ASSUME Rows, Unborn, RequestStep, Stays, Ledger, Ledger',
           NEW known, Closed(known), NEW moves, NEW level, Rises(moves, level, known)
    PROVE  RisesNext(moves, level, known)
<1>1. \A t \in known : t \in Sent
  BY DEF Closed
<1>2. \A t \in known : knew'[t] = knew[t] /\ Place(t)' = Place(t)
  BY <1>1, KnewStays, PlaceStays
<1>3. \A t \in known : reminder'[t].moves = reminder[t].moves /\ reminder'[t].level = reminder[t].level
  BY <1>1 DEF Sent, Stays
<1> QED BY <1>2, <1>3 DEF Rises, RisesNext

LEMMA KnowingStep ==
    ASSUME Rows, Wizards, Requests, Unborn, Ledger, Knowing, [Next]_vars
    PROVE  Knowing'
<1>0. RequestStep /\ Stays
  BY RequestSteps, BooksStay
<1>1. ASSUME NEW u \in Users PROVE ClosedNext(wizard'[u].knew)
  <2>1. CASE wizard'[u] = wizard[u]
    BY <1>0, <2>1, ClosedStays DEF Knowing
  <2>2. CASE wizard'[u].knew = {}
    BY <2>2 DEF ClosedNext
  <2>3. CASE wizard'[u].knew = Sent
    <3>1. Closed(Sent)
      BY DEF Knowing, Closed, Sent
    <3> QED BY <1>0, <2>3, <3>1, ClosedStays
  <2> QED BY <2>1, <2>2, <2>3, WizardsStep
<1>2. ASSUME NEW r \in Reminders PROVE ClosedNext(knew'[r])
  <2>1. CASE knew' = knew
    BY <1>0, <2>1, ClosedStays DEF Knowing
  <2>2. ASSUME NEW u \in Users, NEW fresh, NEW ids, Begins(u, fresh, ids) PROVE ClosedNext(knew'[r])
    <3>1. knew' = [x \in Reminders |-> IF x \in DOMAIN fresh THEN wizard[u].knew ELSE knew[x]]
      BY <2>2 DEF Begins
    <3>2. knew'[r] = wizard[u].knew \/ knew'[r] = knew[r]
      BY <3>1
    <3> QED BY <1>0, <3>2, ClosedStays DEF Knowing
  <2> QED BY <1>0, <2>1, <2>2 DEF RequestStep
<1> QED BY <1>1, <1>2 DEF Knowing, Closed, ClosedNext

\* A level that is proposed is above that of the reminder sent last for each of its invoices.
LEMMA ProposalRises ==
    ASSUME Rows, Ledger, InvoiceTellsReminders, Knowing, Rising, NEW line \in Proposal
    PROVE  Rises(line.moves, line.level, Sent)
<1> SUFFICES ASSUME NEW r \in Sent, reminder[r].moves \cap line.moves # {}, line.level <= reminder[r].level
             PROVE  \E t \in Sent : /\ r \notin knew[t]
                                    /\ reminder[t].moves \cap reminder[r].moves # {}
                                    /\ Place(r) < Place(t)
  BY DEF Rises
<1>1. PICK m \in line.moves : m \in reminder[r].moves
  OBVIOUS
<1>2. m \in Invoices /\ invoice[m].level < line.level /\ line.level \in Nat
  BY <1>1, ProposalIs
<1>3. Tells(m)
  BY <1>2, TellsIs
<1>4. order \in Seq(Reminders) /\ Len(order) \in Nat /\ DOMAIN order = 1..Len(order)
  BY DEF Ledger
<1>5. Place(r) \in 1..Len(order) /\ order[Place(r)] = r
  BY PlaceIs
<1>6. Place(r) \in Mine(m) /\ Mine(m) \subseteq 1..Len(order)
  BY <1>1, <1>4, <1>5 DEF Mine
<1> DEFINE i == Max(Mine(m))
           t == order[i]
<1>7. i \in Mine(m) /\ Place(r) <= i
  <2> DEFINE n == Len(order)
             S == Mine(m)
  <2>1. n \in Nat /\ S \subseteq 1..n /\ S # {} /\ Place(r) \in S
    BY <1>4, <1>6
  <2> HIDE DEF n, S
  <2>2. Max(S) \in S /\ Place(r) <= Max(S)
    BY <2>1, MaxIs
  <2> QED BY <2>2 DEF S
<1>8. invoice[m].level = reminder[t].level
  BY <1>3, <1>6 DEF Tells
<1> HIDE DEF i
<1>9. i \in 1..Len(order) /\ m \in reminder[t].moves
  BY <1>6, <1>7 DEF Mine
<1>10. t \in Sent /\ t \in Reminders /\ Place(t) = i
  BY <1>4, <1>9, PlaceOnly DEF Ledger, Sent
<1> HIDE DEF t
<1>11. reminder[t].level \in Nat /\ reminder[r].level \in Nat
  BY <1>10 DEF Rows, IsRows, IsRow, Sent
<1>12. reminder[t].level < reminder[r].level
  BY <1>2, <1>8, <1>11
<1>13. Place(r) < Place(t)
  <2>1. t # r
    BY <1>11, <1>12
  <2>2. Place(r) # i
    BY <1>5, <2>1 DEF t
  <2>3. Place(r) \in Nat /\ i \in Nat
    BY <1>5, <1>9
  <2> QED BY <1>7, <1>10, <2>2, <2>3
<1>14. reminder[t].moves \cap reminder[r].moves # {}
  BY <1>1, <1>9
<1>15. CASE r \notin knew[t]
  BY <1>10, <1>13, <1>14, <1>15
<1>16. CASE r \in knew[t]
  <2>1. Rises(reminder[t].moves, reminder[t].level, knew[t])
    BY <1>10 DEF Rising, Sent
  <2>2. reminder[t].level <= reminder[r].level
    BY <1>11, <1>12
  <2>3. reminder[r].moves \cap reminder[t].moves # {}
    BY <1>14
  <2>4. PICK s \in knew[t] : /\ r \notin knew[s]
                             /\ reminder[s].moves \cap reminder[r].moves # {}
                             /\ Place(r) < Place(s)
    BY <1>16, <2>1, <2>2, <2>3 DEF Rises
  <2>5. s \in Sent
    BY <1>10, <2>4 DEF Knowing, Closed
  <2> QED BY <2>4, <2>5
<1> QED BY <1>15, <1>16

\* A reminder comes to be by the commit of the request that creates it.
LEMMA BornIs ==
    ASSUME Rows, Requests, Unborn, [Next]_vars,
           NEW r \in Reminders, reminder[r].state = "none", reminder'[r].state # "none"
    PROVE  \E u \in Users :
                /\ Working(u) /\ r \in DOMAIN request[u].fresh
                /\ reminder'[r].moves = request[u].fresh[r].moves
                /\ reminder'[r].level = request[u].fresh[r].level
                /\ reminder'[r].previous = Previous(request[u], r)
<1>1. PICK u \in Users : Commit(u)
  BY BooksKept DEF SameBooks
<1> DEFINE req == request[u]
<1>2. /\ Sound(req) /\ Handed(req) = Len(Whole(req))
      /\ r \in HandedOver(req) =>
            /\ reminder'[r].moves = Found(req, r).moves /\ reminder'[r].level = Found(req, r).level
            /\ r \notin DOMAIN req.fresh => reminder[r] = Found(req, r)
      /\ r \in DOMAIN req.fresh \ HandedOver(req) =>
            reminder'[r].moves = req.fresh[r].moves /\ reminder'[r].level = req.fresh[r].level
      /\ reminder'[r].previous = IF r \in DOMAIN req.fresh THEN Previous(req, r) ELSE reminder[r].previous
      /\ r \notin HandedOver(req) \cup DOMAIN req.fresh => reminder'[r] = reminder[r]
  BY <1>1, CommitIs
<1> HIDE DEF req
<1>3. \A i \in 1..Len(Whole(req)) : Found(req, Whole(req)[i]).state = "draft"
  BY <1>2, WholeIs DEF Sound, Underneath
<1>4. r \in HandedOver(req) => Found(req, r).state = "draft"
  BY <1>2, <1>3 DEF HandedOver
<1>5. r \in DOMAIN req.fresh
  BY <1>2, <1>4
<1>6. /\ reminder'[r].moves = req.fresh[r].moves /\ reminder'[r].level = req.fresh[r].level
      /\ reminder'[r].previous = Previous(req, r)
  BY <1>2, <1>5 DEF Found
<1>7. Working(u)
  BY <1>1 DEF Commit, Working
<1> QED BY <1>5, <1>6, <1>7 DEF req

LEMMA RisingStep ==
    ASSUME Rows, Wizards, Requests, Ledger, Unborn, InvoiceTellsReminders, Knowing, Rising, [Next]_vars
    PROVE  Rising'
<1>0. RequestStep /\ Stays /\ Ledger'
  BY RequestSteps, BooksStay, LedgerStep
<1>1. ASSUME NEW u \in Users, NEW line \in wizard'[u].lines
      PROVE  RisesNext(line.moves, line.level, wizard'[u].knew)
  <2>1. CASE wizard'[u] = wizard[u]
    <3>1. Closed(wizard[u].knew) /\ Rises(line.moves, line.level, wizard[u].knew)
      BY <1>1, <2>1 DEF Knowing, Rising
    <3> QED BY <1>0, <2>1, <3>1, RisesStays
  <2>2. CASE wizard'[u].lines = {}
    BY <1>1, <2>2
  <2>3. CASE wizard'[u].lines = Proposal /\ wizard'[u].knew = Sent
    <3>1. Rises(line.moves, line.level, Sent)
      BY <1>1, <2>3, ProposalRises
    <3>2. Closed(Sent)
      BY DEF Knowing, Closed, Sent
    <3> QED BY <1>0, <2>3, <3>1, <3>2, RisesStays
  <2> QED BY <2>1, <2>2, <2>3, WizardsStep
<1>2. ASSUME NEW u \in Users, Working(u), NEW r \in DOMAIN request[u].fresh
      PROVE  /\ RisesNext(request[u].fresh[r].moves, request[u].fresh[r].level, knew[r])
             /\ knew'[r] = knew[r]
  <2>1. r \in Reminders /\ r <= made
    BY <1>2, WorkingSound DEF Unborn, Sound, Underneath, IsFresh
  <2>2. Closed(knew[r]) /\ Rises(request[u].fresh[r].moves, request[u].fresh[r].level, knew[r])
    BY <1>2, <2>1 DEF Knowing, Rising
  <2> QED BY <1>0, <2>1, <2>2, KnewStays, RisesStays
<1>3. ASSUME NEW r \in Reminders, reminder'[r].state # "none"
      PROVE  RisesNext(reminder'[r].moves, reminder'[r].level, knew'[r])
  <2>1. CASE reminder[r].state # "none"
    <3>1. reminder'[r].moves = reminder[r].moves /\ reminder'[r].level = reminder[r].level
      BY <1>0, <2>1 DEF Stays
    <3>2. knew'[r] = knew[r]
      <4>1. ~(r > made)
        BY <2>1 DEF Unborn
      <4>2. r \in Nat /\ made \in Nat
        BY DEF Reminders, Rows
      <4> QED BY <1>0, <4>1, <4>2, KnewStays
    <3>3. Closed(knew[r]) /\ Rises(reminder[r].moves, reminder[r].level, knew[r])
      BY <2>1 DEF Knowing, Rising
    <3> QED BY <1>0, <3>1, <3>2, <3>3, RisesStays
  <2>2. CASE reminder[r].state = "none"
    <3>1. PICK u \in Users :
            /\ Working(u) /\ r \in DOMAIN request[u].fresh
            /\ reminder'[r].moves = request[u].fresh[r].moves
            /\ reminder'[r].level = request[u].fresh[r].level
      BY <1>3, <2>2, BornIs
    <3> QED BY <1>2, <3>1
  <2> QED BY <2>1, <2>2
<1>4. ASSUME NEW u \in Users, Working(u)', NEW r \in DOMAIN request'[u].fresh
      PROVE  RisesNext(request'[u].fresh[r].moves, request'[u].fresh[r].level, knew'[r])
  <2>1. CASE Working(u) /\ request'[u].fresh = request[u].fresh
    BY <1>2, <1>4, <2>1
  <2>2. ASSUME NEW ids, Begins(u, request'[u].fresh, ids)
        PROVE  RisesNext(request'[u].fresh[r].moves, request'[u].fresh[r].level, knew'[r])
    <3> DEFINE fresh == request'[u].fresh
    <3>1. Begins(u, fresh, ids) /\ r \in DOMAIN fresh
      BY <1>4, <2>2
    <3> HIDE DEF fresh
    <3>2. PICK line \in wizard[u].lines : fresh[r].moves = line.moves /\ fresh[r].level = line.level
      BY <3>1 DEF Begins
    <3>3. knew'[r] = wizard[u].knew
      BY <3>1 DEF Begins, IsFresh
    <3>4. Closed(wizard[u].knew) /\ Rises(line.moves, line.level, wizard[u].knew)
      BY DEF Knowing, Rising
    <3>5. RisesNext(line.moves, line.level, wizard[u].knew)
      BY <1>0, <3>4, RisesStays
    <3> QED BY <3>2, <3>3, <3>5 DEF fresh
  <2> QED BY <1>0, <1>4, <2>1, <2>2, FreshIs
<1> QED BY <1>1, <1>3, <1>4 DEF Rising, Rises, RisesNext

-----------------------------------------------------------------------------
(* Fees                                                                      *)

First(s) == CHOOSE x \in s : TRUE

\* f sums what fee says, over the subsets of S.
Sums(f, fee, S) ==
    f = [s \in SUBSET S |-> IF s = {} THEN 0 ELSE fee[First(s)] + f[s \ {First(s)}]]

LEMMA SumExists ==
    ASSUME NEW S, IsFiniteSet(S), NEW fee
    PROVE  \E f : Sums(f, fee, S)
<1> DEFINE Small(k) == {s \in SUBSET S : Cardinality(s) <= k}
           P(k) == \E f : f = [s \in Small(k) |-> IF s = {} THEN 0 ELSE fee[First(s)] + f[s \ {First(s)}]]
           Bad == {k \in Nat : ~P(k)}
<1>0. ASSUME NEW s \in SUBSET S PROVE IsFiniteSet(s) /\ Cardinality(s) \in Nat /\ (Cardinality(s) = 0 <=> s = {})
  BY FS_Subset, FS_CardinalityType, FS_EmptySet
<1>1. P(0)
  <2> DEFINE f == [s \in Small(0) |-> 0]
  <2>1. \A s \in Small(0) : s = {}
    BY <1>0
  <2>2. f = [s \in Small(0) |-> IF s = {} THEN 0 ELSE fee[First(s)] + f[s \ {First(s)}]]
    BY <2>1
  <2> QED BY <2>2
<1>2. ASSUME NEW k \in Nat, P(k) PROVE P(k + 1)
  <2>1. PICK f : f = [s \in Small(k) |-> IF s = {} THEN 0 ELSE fee[First(s)] + f[s \ {First(s)}]]
    BY <1>2
  <2> DEFINE g == [s \in Small(k + 1) |-> IF s = {} THEN 0 ELSE fee[First(s)] + f[s \ {First(s)}]]
  <2>2. ASSUME NEW s \in Small(k + 1), s # {} PROVE s \ {First(s)} \in Small(k)
    <3>1. First(s) \in s
      BY <2>2 DEF First
    <3> DEFINE n == Cardinality(s)
               m == Cardinality(s \ {First(s)})
    <3>2. n \in Nat /\ m = n - 1 /\ n <= k + 1
      BY <1>0, <3>1, FS_RemoveElement
    <3> HIDE DEF n, m
    <3>3. m <= k
      BY <3>2
    <3> QED BY <3>3 DEF m
  <2>3. ASSUME NEW s \in Small(k) PROVE s \in Small(k + 1) /\ g[s] = f[s]
    <3>1. s \in Small(k + 1)
      <4> DEFINE n == Cardinality(s)
      <4>1. n \in Nat /\ n <= k
        BY <1>0
      <4> HIDE DEF n
      <4>2. n <= k + 1
        BY <4>1
      <4> QED BY <4>2 DEF n
    <3> HIDE DEF Small
    <3>2. g[s] = IF s = {} THEN 0 ELSE fee[First(s)] + f[s \ {First(s)}]
      BY <3>1
    <3>3. f[s] = IF s = {} THEN 0 ELSE fee[First(s)] + f[s \ {First(s)}]
      BY <2>1
    <3> QED BY <3>1, <3>2, <3>3
  <2>4. g = [s \in Small(k + 1) |-> IF s = {} THEN 0 ELSE fee[First(s)] + g[s \ {First(s)}]]
    <3>1. \A s \in Small(k + 1) : s # {} => g[s \ {First(s)}] = f[s \ {First(s)}]
      BY <2>2, <2>3
    <3> HIDE DEF Small
    <3> QED BY <3>1
  <2> HIDE DEF g, Small
  <2> QED BY <2>4
<1>3. Bad = {}
  <2> SUFFICES ASSUME Bad # {} PROVE FALSE
    OBVIOUS
  <2> HIDE DEF P
  <2>1. PICK n \in Bad : \A m \in Bad : n <= m
    <3> HIDE DEF Bad
    <3>1. Bad \in SUBSET Nat
      BY DEF Bad
    <3> QED BY <3>1, LeastExists
  <2>2. n # 0 /\ n \in Nat
    BY <1>1
  <2>3. n - 1 \in Nat /\ n - 1 \notin Bad
    BY <2>1, <2>2
  <2>4. P((n - 1) + 1)
    BY <1>2, <2>3
  <2> QED BY <2>1, <2>2, <2>4
<1>4. Small(Cardinality(S)) = SUBSET S
  BY FS_Subset
<1>5. P(Cardinality(S))
  <2> HIDE DEF P
  <2> QED BY <1>0, <1>3
<1>6. PICK f : f = [s \in Small(Cardinality(S)) |-> IF s = {} THEN 0 ELSE fee[First(s)] + f[s \ {First(s)}]]
  BY <1>5
<1> QED BY <1>4, <1>6 DEF Sums

\* Of sets in B, one that has no other in it.
LEMMA SmallestSet ==
    ASSUME NEW S, IsFiniteSet(S), NEW B \in SUBSET SUBSET S, B # {}
    PROVE  \E s \in B : \A t \in B : t \subseteq s => t = s
<1> DEFINE K == {Cardinality(s) : s \in B}
<1>1. \A s \in B : IsFiniteSet(s) /\ Cardinality(s) \in Nat
  BY FS_Subset, FS_CardinalityType
<1>2. K \in SUBSET Nat /\ K # {}
  BY <1>1
<1>3. PICK k \in K : \A m \in K : k <= m
  <2> HIDE DEF K
  <2> QED BY <1>2, LeastExists
<1>4. PICK s \in B : Cardinality(s) = k
  BY <1>3
<1>5. ASSUME NEW t \in B, t \subseteq s PROVE t = s
  <2>1. Cardinality(s) <= Cardinality(t)
    BY <1>3, <1>4
  <2>2. Cardinality(t) <= Cardinality(s) /\ (Cardinality(t) = Cardinality(s) => t = s)
    BY <1>1, <1>5, FS_Subset
  <2> DEFINE m == Cardinality(s)
             n == Cardinality(t)
  <2>3. m \in Nat /\ n \in Nat /\ m <= n /\ n <= m
    BY <1>1, <2>1, <2>2
  <2> HIDE DEF m, n
  <2>4. m = n
    BY <2>3
  <2> QED BY <2>2, <2>4 DEF m, n
<1> QED BY <1>5

LEMMA SumsAgree ==
    ASSUME NEW U, IsFiniteSet(U), NEW S, S \subseteq U, NEW fee, NEW other, \A x \in S : other[x] = fee[x],
           NEW F, Sums(F, fee, U), NEW f, Sums(f, other, S)
    PROVE  f[S] = F[S]
<1> DEFINE B == {s \in SUBSET S : f[s] # F[s]}
<1>1. B = {}
  <2> SUFFICES ASSUME B # {} PROVE FALSE
    OBVIOUS
  <2>0. IsFiniteSet(S)
    BY FS_Subset
  <2>1. PICK s \in B : \A t \in B : t \subseteq s => t = s
    <3>1. B \in SUBSET SUBSET S
      OBVIOUS
    <3> HIDE DEF B
    <3> QED BY <2>0, <3>1, SmallestSet
  <2> DEFINE t == s \ {First(s)}
  <2>2. s \in SUBSET S /\ s \in SUBSET U
    OBVIOUS
  <2>3. /\ f[s] = IF s = {} THEN 0 ELSE other[First(s)] + f[t]
        /\ F[s] = IF s = {} THEN 0 ELSE fee[First(s)] + F[t]
    BY <2>2 DEF Sums
  <2>4. s # {}
    BY <2>3
  <2>5. First(s) \in s
    BY <2>4 DEF First
  <2>6. t \notin B /\ t \in SUBSET S
    BY <2>1, <2>2, <2>5
  <2>7. f[t] = F[t]
    BY <2>6
  <2> QED BY <2>2, <2>3, <2>5, <2>7
<1> QED BY <1>1

\* What a sum is.
LEMMA SumIs ==
    ASSUME NEW U, IsFiniteSet(U), NEW fee, NEW F, Sums(F, fee, U), \A x \in U : fee[x] \in Nat
    PROVE  /\ F[{}] = 0
           /\ \A s \in SUBSET U : F[s] \in Nat
           /\ \A s \in SUBSET U : \A x \in s : F[s] = fee[x] + F[s \ {x}]
           /\ \A t \in SUBSET U : \A s \in SUBSET t : F[s] <= F[t]
<1>1. F[{}] = 0 /\ \A s \in SUBSET U : s # {} => First(s) \in s /\ F[s] = fee[First(s)] + F[s \ {First(s)}]
  BY DEF Sums, First
<1>2. \A s \in SUBSET U : F[s] \in Nat
  <2> DEFINE B == {s \in SUBSET U : F[s] \notin Nat}
  <2>1. B = {}
    <3> SUFFICES ASSUME B # {} PROVE FALSE
      OBVIOUS
    <3>1. PICK s \in B : \A t \in B : t \subseteq s => t = s
      <4>1. B \in SUBSET SUBSET U
        OBVIOUS
      <4> HIDE DEF B
      <4> QED BY <4>1, SmallestSet
    <3>0. s \in SUBSET U /\ F[s] \notin Nat
      OBVIOUS
    <3>2. s # {} /\ First(s) \in s
      BY <1>1, <3>0
    <3>3. s \ {First(s)} \notin B /\ s \ {First(s)} \in SUBSET U
      BY <3>1, <3>2
    <3>4. F[s \ {First(s)}] \in Nat /\ fee[First(s)] \in Nat
      BY <3>2, <3>3
    <3>5. F[s] = fee[First(s)] + F[s \ {First(s)}]
      BY <1>1, <3>2
    <3> QED BY <3>4, <3>5
  <2> QED BY <2>1
<1>3. \A s \in SUBSET U : \A x \in s : F[s] = fee[x] + F[s \ {x}]
  <2> DEFINE B == {s \in SUBSET U : \E x \in s : F[s] # fee[x] + F[s \ {x}]}
  <2>1. B = {}
    <3> SUFFICES ASSUME B # {} PROVE FALSE
      OBVIOUS
    <3>1. PICK s \in B : \A t \in B : t \subseteq s => t = s
      <4>1. B \in SUBSET SUBSET U
        OBVIOUS
      <4> HIDE DEF B
      <4> QED BY <4>1, SmallestSet
    <3>2. PICK x \in s : F[s] # fee[x] + F[s \ {x}]
      OBVIOUS
    <3> DEFINE c == First(s)
               a == s \ {c}
               b == s \ {x}
               d == s \ {c, x}
    <3>3. s \in SUBSET U /\ c \in s /\ F[s] = fee[c] + F[a]
      BY <1>1, <3>2
    <3>4. x # c
      BY <3>2, <3>3
    <3> HIDE DEF c
    <3>5. a \notin B /\ a \in SUBSET U /\ b \notin B /\ b \in SUBSET U /\ d \in SUBSET U
      BY <3>1, <3>3
    <3>6. x \in a /\ c \in b /\ a \ {x} = d /\ b \ {c} = d
      BY <3>3, <3>4
    <3>7. F[a] = fee[x] + F[a \ {x}] /\ F[b] = fee[c] + F[b \ {c}]
      <4> HIDE DEF a, b
      <4> QED BY <3>5, <3>6
    <3>8. F[s] # fee[x] + F[b] /\ F[d] \in Nat /\ fee[x] \in Nat /\ fee[c] \in Nat
      BY <1>2, <3>2, <3>3, <3>5
    <3>9. F[a] = fee[x] + F[d] /\ F[b] = fee[c] + F[d]
      BY <3>6, <3>7
    <3> HIDE DEF a, b, d
    <3> QED BY <3>3, <3>8, <3>9
  <2> QED BY <2>1
<1>4. \A t \in SUBSET U : \A s \in SUBSET t : F[s] <= F[t]
  <2> DEFINE B == {t \in SUBSET U : \E s \in SUBSET t : ~(F[s] <= F[t])}
  <2>1. B = {}
    <3> SUFFICES ASSUME B # {} PROVE FALSE
      OBVIOUS
    <3>1. PICK t \in B : \A u \in B : u \subseteq t => u = t
      <4>1. B \in SUBSET SUBSET U
        OBVIOUS
      <4> HIDE DEF B
      <4> QED BY <4>1, SmallestSet
    <3>2. PICK s \in SUBSET t : ~(F[s] <= F[t])
      OBVIOUS
    <3>3. t \in SUBSET U /\ s \in SUBSET U /\ F[t] \in Nat /\ F[s] \in Nat
      BY <1>2
    <3>4. s # t
      BY <3>2, <3>3
    <3>5. PICK x \in t : x \notin s
      BY <3>4
    <3> DEFINE u == t \ {x}
    <3>6. u \in SUBSET U /\ u \notin B /\ s \in SUBSET u
      BY <3>1, <3>3, <3>5
    <3>7. F[s] <= F[u]
      BY <3>6
    <3>8. F[t] = fee[x] + F[u] /\ F[u] \in Nat /\ fee[x] \in Nat
      BY <1>2, <1>3, <3>3, <3>6
    <3> HIDE DEF u
    <3> QED BY <3>2, <3>3, <3>7, <3>8
  <2> QED BY <2>1
<1> QED BY <1>1, <1>2, <1>3, <1>4

LEMMA FeesIs ==
    ASSUME NEW rows, NEW U, IsFiniteSet(U), NEW S, S \subseteq U,
           NEW fee, \A x \in S : fee[x] = LevelFee[rows[x].level], NEW F, Sums(F, fee, U)
    PROVE  FeesOf(rows, S) = F[S]
<1> DEFINE Raw(f) == f = [s \in SUBSET S |-> IF s = {} THEN 0 ELSE LevelFee[rows[First(s)].level] + f[s \ {First(s)}]]
           other == [x \in S |-> LevelFee[rows[x].level]]
<1>1. \A s \in SUBSET S : s # {} => First(s) \in s /\ First(s) \in S
  BY DEF First
<1>2. ASSUME NEW f PROVE Raw(f) <=> Sums(f, other, S)
  <2>1. [s \in SUBSET S |-> IF s = {} THEN 0 ELSE LevelFee[rows[First(s)].level] + f[s \ {First(s)}]]
        = [s \in SUBSET S |-> IF s = {} THEN 0 ELSE other[First(s)] + f[s \ {First(s)}]]
    BY <1>1
  <2> QED BY <2>1 DEF Sums
<1>3. \E f : Raw(f)
  <2>1. IsFiniteSet(S)
    BY FS_Subset
  <2> HIDE DEF Raw, other
  <2> QED BY <1>2, <2>1, SumExists
<1> DEFINE g == CHOOSE f : Raw(f)
<1>4. Raw(g)
  <2> HIDE DEF Raw
  <2> QED BY <1>3
<1>5. FeesOf(rows, S) = g[S]
  BY DEF FeesOf, MapThenSumSet, MapThenFoldSet, First
<1>6. Sums(g, other, S)
  <2> HIDE DEF Raw, other, g
  <2> QED BY <1>2, <1>4
<1>7. \A x \in S : other[x] = fee[x]
  OBVIOUS
<1> HIDE DEF g, other
<1>8. g[S] = F[S]
  BY <1>6, <1>7, SumsAgree
<1> QED BY <1>5, <1>8

LEMMA FeesMonotone ==
    ASSUME NEW rows, NEW B, IsFiniteSet(B), \A x \in B : rows[x].level \in DOMAIN LevelFee,
           NEW A, A \subseteq B
    PROVE  FeesOf(rows, A) <= FeesOf(rows, B)
<1> DEFINE fee == [x \in B |-> LevelFee[rows[x].level]]
<1>1. \A x \in B : fee[x] = LevelFee[rows[x].level] /\ fee[x] \in Nat
  <2>1. LevelFee \in Seq(Nat)
    BY ReminderAssumption DEF ReminderAssumption
  <2>2. \A l \in DOMAIN LevelFee : LevelFee[l] \in Nat
    BY <2>1
  <2> QED BY <2>2
<1> HIDE DEF fee
<1>2. PICK F : Sums(F, fee, B)
  BY SumExists
<1>3. FeesOf(rows, A) = F[A] /\ FeesOf(rows, B) = F[B]
  BY <1>1, <1>2, FeesIs
<1>4. F[A] <= F[B]
  BY <1>1, <1>2, SumIs
<1> QED BY <1>3, <1>4

LEMMA FeesSame ==
    ASSUME NEW rows, NEW others, NEW A, IsFiniteSet(A), \A x \in A : others[x].level = rows[x].level
    PROVE  FeesOf(others, A) = FeesOf(rows, A)
<1> DEFINE fee == [x \in A |-> LevelFee[rows[x].level]]
<1>1. \A x \in A : fee[x] = LevelFee[rows[x].level] /\ fee[x] = LevelFee[others[x].level]
  OBVIOUS
<1> HIDE DEF fee
<1>2. PICK F : Sums(F, fee, A)
  BY SumExists
<1>3. FeesOf(rows, A) = F[A] /\ FeesOf(others, A) = F[A]
  BY <1>1, <1>2, FeesIs
<1> QED BY <1>3

\* The fees found in the database (_previous_fee_amount_for) are such fees.
LEMMA FoundAsks ==
    ASSUME NEW moves, NEW known, Closed(known)
    PROVE  \E A : Asks(PreviousFees(reminder, moves), moves, known, A)
<1> DEFINE A == {r \in Reminders : reminder[r].state = "sent" /\ reminder[r].moves \cap moves # {}}
<1>1. PreviousFees(reminder, moves) = FeesOf(reminder, A)
  BY DEF PreviousFees, FeesOf
<1>2. A \subseteq Sent /\ \A t \in A : reminder[t].moves \cap moves # {}
  BY DEF Sent
<1>3. \A t \in known : reminder[t].moves \cap moves # {} => t \in A
  BY DEF Closed, Sent
<1> HIDE DEF A
<1> QED BY <1>1, <1>2, <1>3 DEF Asks

\* Asks after the step.
AsksNext(previous, moves, known, A) ==
    /\ A \subseteq Sent' /\ \A t \in A : reminder'[t].moves \cap moves # {}
    /\ \A t \in known : reminder'[t].moves \cap moves # {} => t \in A
    /\ previous = FeesOf(reminder', A)

LEMMA AsksStays ==
    ASSUME Stays, NEW known, Closed(known), NEW previous, NEW moves, NEW A, Asks(previous, moves, known, A)
    PROVE  AsksNext(previous, moves, known, A)
<1>1. A \subseteq Sent /\ known \subseteq Sent
  BY DEF Asks, Closed
<1>2. \A t \in Sent : reminder'[t].moves = reminder[t].moves /\ reminder'[t].level = reminder[t].level
  BY DEF Sent, Stays
<1>3. IsFiniteSet(A)
  <2>1. IsFiniteSet(Reminders)
    BY FS_Interval, ReminderAssumption DEF ReminderAssumption, Reminders
  <2>2. A \subseteq Reminders
    BY <1>1 DEF Sent
  <2> QED BY <2>1, <2>2, FS_Subset
<1>4. FeesOf(reminder', A) = FeesOf(reminder, A)
  <2>1. \A t \in A : reminder'[t].level = reminder[t].level
    BY <1>1, <1>2
  <2> DEFINE rows == reminder
             others == reminder'
  <2>2. \A t \in A : others[t].level = rows[t].level
    BY <2>1
  <2> HIDE DEF rows, others
  <2>3. FeesOf(others, A) = FeesOf(rows, A)
    BY <1>3, <2>2, FeesSame
  <2> QED BY <2>3 DEF rows, others
<1>5. A \subseteq Sent'
  BY <1>1, SentStays
<1> QED BY <1>1, <1>2, <1>4, <1>5 DEF Asks, AsksNext

\* What is sent in a step comes after all that was sent before it.
LEMMA PlaceIsNew ==
    ASSUME Ledger, Ledger', Stays, NEW r \in Reminders, r \notin Sent, r \in Sent', NEW t \in Sent
    PROVE  Place(t)' < Place(r)'
<1>1. Place(t) \in 1..Len(order) /\ Place(t)' = Place(t)
  BY PlaceIs, PlaceStays
<1> DEFINE j == Place(r)'
<1>2. j \in 1..Len(order') /\ order'[j] = r
  <2>1. \E i \in DOMAIN order' : order'[i] = r
    BY DEF Ledger, Sent
  <2>2. j = CHOOSE i \in DOMAIN order' : order'[i] = r
    BY DEF Place
  <2> HIDE DEF j
  <2> QED BY <2>1, <2>2 DEF Ledger
<1> HIDE DEF j
<1>3. j \notin 1..Len(order)
  <2> SUFFICES ASSUME j \in 1..Len(order) PROVE FALSE
    OBVIOUS
  <2>1. order[j] = r
    BY <1>2 DEF Stays
  <2> QED BY <2>1 DEF Ledger, Sent
<1>4. Len(order) \in Nat /\ Len(order') \in Nat
  BY DEF Ledger
<1>5. Place(t) < j
  BY <1>1, <1>2, <1>3, <1>4
<1> QED BY <1>1, <1>5 DEF j

LEMMA GradedStep ==
    ASSUME Rows, Wizards, Requests, Ledger, Unborn, Graded, [Next]_vars
    PROVE  Graded'
<1>0. RequestStep /\ Stays
  BY RequestSteps, BooksStay
<1>1. ASSUME NEW u \in Users, NEW line \in wizard'[u].lines PROVE line.level \in Levels
  <2>1. CASE wizard'[u] = wizard[u]
    BY <1>1, <2>1 DEF Graded
  <2>2. CASE wizard'[u].lines = {}
    BY <1>1, <2>2
  <2>3. CASE wizard'[u].lines = Proposal
    BY <1>1, <2>3, ProposalIs
  <2> QED BY <2>1, <2>2, <2>3, WizardsStep
<1>2. ASSUME NEW r \in Reminders, reminder'[r].state # "none" PROVE reminder'[r].level \in Levels
  <2>1. CASE reminder[r].state # "none"
    BY <1>0, <2>1 DEF Graded, Stays
  <2>2. CASE reminder[r].state = "none"
    <3>1. PICK u \in Users :
            Working(u) /\ r \in DOMAIN request[u].fresh /\ reminder'[r].level = request[u].fresh[r].level
      BY <1>2, <2>2, BornIs
    <3> QED BY <3>1 DEF Graded
  <2> QED BY <2>1, <2>2
<1>3. ASSUME NEW u \in Users, Working(u)', NEW r \in DOMAIN request'[u].fresh
      PROVE  request'[u].fresh[r].level \in Levels
  <2>1. CASE Working(u) /\ request'[u].fresh = request[u].fresh
    BY <1>3, <2>1 DEF Graded
  <2>2. ASSUME NEW ids, Begins(u, request'[u].fresh, ids) PROVE request'[u].fresh[r].level \in Levels
    <3> DEFINE fresh == request'[u].fresh
    <3>1. Begins(u, fresh, ids) /\ r \in DOMAIN fresh
      BY <1>3, <2>2
    <3> HIDE DEF fresh
    <3>2. fresh[r].level \in Levels
      BY <3>1 DEF Begins, Graded
    <3> QED BY <3>2 DEF fresh
  <2> QED BY <1>0, <1>3, <2>1, <2>2, FreshIs
<1> QED BY <1>1, <1>2, <1>3 DEF Graded, Levels

LEMMA AskedStep ==
    ASSUME Rows, Wizards, Requests, Ledger, Unborn, Knowing, Asked, [Next]_vars
    PROVE  Asked'
<1>0. RequestStep /\ Stays /\ Ledger'
  BY RequestSteps, BooksStay, LedgerStep
<1>1. ASSUME NEW u \in Users, Working(u), NEW r \in DOMAIN request[u].fresh
      PROVE  r \in Reminders /\ knew'[r] = knew[r] /\ Closed(knew[r])
  <2>1. r \in Reminders /\ r <= made
    BY <1>1, WorkingSound DEF Unborn, Sound, Underneath, IsFresh
  <2> QED BY <1>0, <2>1, KnewStays DEF Knowing
<1>2. ASSUME NEW r \in Reminders, reminder'[r].state # "none"
      PROVE  \E A : /\ AsksNext(reminder'[r].previous, reminder'[r].moves, knew'[r], A)
                    /\ r \in Sent' => \A t \in A : Place(t)' < Place(r)'
  <2>1. CASE reminder[r].state # "none"
    <3>1. PICK A : /\ Asks(reminder[r].previous, reminder[r].moves, knew[r], A)
                   /\ r \in Sent => \A t \in A : Place(t) < Place(r)
      BY <2>1 DEF Asked
    <3>2. reminder'[r].moves = reminder[r].moves /\ reminder'[r].previous = reminder[r].previous
      BY <1>0, <2>1 DEF Stays
    <3>3. knew'[r] = knew[r]
      <4>1. ~(r > made)
        BY <2>1 DEF Unborn
      <4>2. r \in Nat /\ made \in Nat
        BY DEF Reminders, Rows
      <4> QED BY <1>0, <4>1, <4>2, KnewStays
    <3>4. AsksNext(reminder[r].previous, reminder[r].moves, knew[r], A)
      BY <1>0, <3>1, AsksStays DEF Knowing
    <3>5. ASSUME r \in Sent', NEW t \in A PROVE Place(t)' < Place(r)'
      <4>1. t \in Sent
        BY <3>1 DEF Asks
      <4>2. CASE r \in Sent
        <5>1. Place(t)' = Place(t) /\ Place(r)' = Place(r)
          BY <1>0, <4>1, <4>2, PlaceStays
        <5> QED BY <3>1, <4>2, <5>1
      <4>3. CASE r \notin Sent
        BY <1>0, <3>5, <4>1, <4>3, PlaceIsNew
      <4> QED BY <4>2, <4>3
    <3> QED BY <3>2, <3>3, <3>4, <3>5
  <2>2. CASE reminder[r].state = "none"
    <3>1. PICK u \in Users :
            /\ Working(u) /\ r \in DOMAIN request[u].fresh
            /\ reminder'[r].moves = request[u].fresh[r].moves
            /\ reminder'[r].previous = Previous(request[u], r)
      BY <1>2, <2>2, BornIs
    <3>2. PICK A : Asks(Previous(request[u], r), request[u].fresh[r].moves, knew[r], A)
      BY <3>1 DEF Asked
    <3>3. knew'[r] = knew[r] /\ Closed(knew[r])
      BY <1>1, <3>1
    <3>4. AsksNext(Previous(request[u], r), request[u].fresh[r].moves, knew[r], A)
      BY <1>0, <3>2, <3>3, AsksStays
    <3>5. ASSUME r \in Sent', NEW t \in A PROVE Place(t)' < Place(r)'
      <4>1. t \in Sent /\ r \notin Sent
        BY <2>2, <3>2 DEF Asks, Sent
      <4> QED BY <1>0, <3>5, <4>1, PlaceIsNew
    <3> QED BY <3>1, <3>3, <3>4, <3>5
  <2> QED BY <2>1, <2>2
<1>3. ASSUME NEW u \in Users, Working(u)', NEW r \in DOMAIN request'[u].fresh
      PROVE  \E A : AsksNext(Previous(request'[u], r), request'[u].fresh[r].moves, knew'[r], A)
  <2> DEFINE moves == request'[u].fresh[r].moves
             previous == Previous(request'[u], r)
  <2>1. CASE Working(u) /\ request'[u].fresh = request[u].fresh /\ Recounts(u, request'[u])
    <3>1. r \in DOMAIN request[u].fresh /\ moves = request[u].fresh[r].moves
      BY <1>3, <2>1
    <3>2. knew'[r] = knew[r] /\ Closed(knew[r])
      BY <1>1, <2>1, <3>1
    <3>3. previous \in {Previous(request[u], r), PreviousFees(reminder, moves)}
      BY <1>3, <2>1 DEF Recounts
    <3>4. \E A : Asks(Previous(request[u], r), moves, knew[r], A)
      BY <2>1, <3>1 DEF Asked
    <3> HIDE DEF moves, previous
    <3>5. \E A : Asks(previous, moves, knew[r], A)
      BY <3>2, <3>3, <3>4, FoundAsks
    <3>6. \E A : AsksNext(previous, moves, knew[r], A)
      BY <1>0, <3>2, <3>5, AsksStays
    <3> QED BY <3>2, <3>6 DEF moves, previous
  <2>2. ASSUME NEW ids, Begins(u, request'[u].fresh, ids)
        PROVE  \E A : AsksNext(previous, moves, knew'[r], A)
    <3> DEFINE fresh == request'[u].fresh
    <3>1. Begins(u, fresh, ids) /\ r \in DOMAIN fresh /\ moves = fresh[r].moves
      BY <1>3, <2>2
    <3> HIDE DEF fresh
    <3>2. request'[u] = Started("wizard", fresh, ids)
      BY <3>1 DEF Begins, Requests
    <3>3. previous = PreviousFees(reminder, moves)
      <4>1. Previous(Started("wizard", fresh, ids), r) = PreviousFees(reminder, fresh[r].moves)
        BY <3>1, BeginsSound
      <4> QED BY <3>1, <3>2, <4>1
    <3>4. knew'[r] = wizard[u].knew
      BY <3>1 DEF Begins, IsFresh
    <3>5. Closed(wizard[u].knew)
      BY DEF Knowing
    <3> HIDE DEF moves, previous
    <3>6. \E A : Asks(previous, moves, wizard[u].knew, A)
      BY <3>3, <3>5, FoundAsks
    <3> QED BY <1>0, <3>4, <3>5, <3>6, AsksStays
  <2> QED BY <1>0, <1>3, <2>1, <2>2, FreshIs
<1> QED BY <1>2, <1>3 DEF Asked, Asks, AsksNext

-----------------------------------------------------------------------------
(* What has left is accounted for                                            *)

Bit(b) == IF b THEN 1 ELSE 0

\* What has left in a request that is running.
Gone(req) == IF req = Idle THEN {} ELSE req.left
Holders(r) == {u \in Users : r \in Gone(request[u])}
IsSent(r) == reminder[r].state = "sent"

\* What leaves (out) or is rolled back (back) in a step is what the request has more or less
\* on its account, or what becomes sent.
Balanced(u, req, out, back) ==
    /\ request' = [request EXCEPT ![u] = req]
    /\ \A r \in Reminders :
        /\ copies'[r] = copies[r] + Bit(r \in out)
        /\ wasted'[r] = wasted[r] + Bit(r \in back)
        /\ Bit(r \in out) + Bit(r \in Gone(request[u])) + Bit(IsSent(r))
            <= Bit(r \in back) + Bit(r \in Gone(req)) + Bit(IsSent(r)')

LEMMA LeavesIs ==
    LeavesOnce <=> \A r \in Reminders : copies[r] <= wasted[r] + Cardinality(Holders(r)) + Bit(IsSent(r))
<1>1. \A r \in Reminders : Holders(r) = {u \in Users : request[u] # Idle /\ r \in request[u].left}
  BY DEF Holders, Gone
<1> QED BY <1>1 DEF LeavesOnce, Bit, IsSent

LEMMA HoldersStep ==
    ASSUME DOMAIN request = Users, NEW u \in Users, NEW req, request' = [request EXCEPT ![u] = req], NEW r
    PROVE  /\ Cardinality(Holders(r)) \in Nat /\ Cardinality(Holders(r)') \in Nat
           /\ Cardinality(Holders(r)') + Bit(r \in Gone(request[u])) = Cardinality(Holders(r)) + Bit(r \in Gone(req))
<1> DEFINE H == Holders(r)
           K == Holders(r)'
           h == Cardinality(H)
           k == Cardinality(K)
<1>1. IsFiniteSet(H)
  <2>1. H \subseteq Users
    BY DEF Holders
  <2> HIDE DEF H
  <2> QED BY <2>1, ReminderAssumption, FS_Subset DEF ReminderAssumption
<1>2. u \in H <=> r \in Gone(request[u])
  BY DEF Holders
<1>3. K = IF r \in Gone(req) THEN H \cup {u} ELSE H \ {u}
  <2>1. \A v \in Users : request'[v] = IF v = u THEN req ELSE request[v]
    OBVIOUS
  <2>2. K = {v \in Users : r \in Gone(request'[v])}
    BY DEF Holders, Gone
  <2> QED BY <2>1, <2>2 DEF Holders
<1> HIDE DEF H, K
<1>4. /\ Cardinality(H \cup {u}) = IF u \in H THEN h ELSE h + 1
      /\ Cardinality(H \ {u}) = IF u \in H THEN h - 1 ELSE h
      /\ h \in Nat /\ Cardinality(H \cup {u}) \in Nat /\ Cardinality(H \ {u}) \in Nat
  BY <1>1, FS_AddElement, FS_RemoveElement, FS_CardinalityType
<1>5. h \in Nat /\ k \in Nat /\ k + Bit(u \in H) = h + Bit(r \in Gone(req))
  <2>1. CASE r \in Gone(req)
    BY <1>3, <1>4, <2>1 DEF Bit
  <2>2. CASE r \notin Gone(req)
    BY <1>3, <1>4, <2>2 DEF Bit
  <2> QED BY <2>1, <2>2
<1> HIDE DEF h, k
<1>6. k + Bit(r \in Gone(request[u])) = h + Bit(r \in Gone(req))
  BY <1>2, <1>5 DEF Bit
<1> QED BY <1>5, <1>6 DEF H, K, h, k

LEMMA BalancedStep ==
    ASSUME Rows, Requests, LeavesOnce, NEW u \in Users, NEW req, NEW out, NEW back, Balanced(u, req, out, back)
    PROVE  LeavesOnce'
<1> SUFFICES ASSUME NEW r \in Reminders
             PROVE  copies'[r] <= wasted'[r] + Cardinality(Holders(r)') + Bit(IsSent(r)')
  <2>1. \A r \in Reminders : Holders(r)' = {v \in Users : request'[v] # Idle /\ r \in request'[v].left}
    BY DEF Holders, Gone
  <2> QED BY <2>1 DEF LeavesOnce, Bit, IsSent
<1> DEFINE c == copies[r]
           w == wasted[r]
           h == Cardinality(Holders(r))
           k == Cardinality(Holders(r)')
           o == Bit(r \in out)
           b == Bit(r \in back)
           x == Bit(r \in Gone(request[u]))
           y == Bit(r \in Gone(req))
           s == Bit(IsSent(r))
           t == Bit(IsSent(r)')
<1>1. c \in Nat /\ w \in Nat
  BY DEF Rows
<1>2. c <= w + h + s
  BY LeavesIs
<1>3. o \in 0..1 /\ b \in 0..1 /\ x \in 0..1 /\ y \in 0..1 /\ s \in 0..1 /\ t \in 0..1
  BY DEF Bit
<1>4. copies'[r] = c + o /\ wasted'[r] = w + b /\ o + x + s <= b + y + t
  BY DEF Balanced
<1>5. h \in Nat /\ k \in Nat /\ k + x = h + y
  BY HoldersStep DEF Balanced, Requests
<1> HIDE DEF c, w, h, k, o, b, x, y, s, t
<1>6. c + o <= w + b + k + t
  BY <1>1, <1>2, <1>3, <1>4, <1>5
<1>7. copies'[r] <= wasted'[r] + k + t
  BY <1>4, <1>6
<1> QED BY <1>7 DEF k, t

\* Nothing leaves, and the request has nothing more or less on its account.
LEMMA NothingLeaves ==
    ASSUME Rows, Requests, Stays, LeavesOnce, NEW u \in Users, NEW req,
           request' = [request EXCEPT ![u] = req], Gone(req) = Gone(request[u]),
           UNCHANGED <<copies, wasted>>
    PROVE  LeavesOnce'
<1>1. \A r \in Reminders : Bit(IsSent(r)) <= Bit(IsSent(r)')
  BY DEF Bit, IsSent, Stays
<1>2. \A r \in Reminders : copies[r] \in Nat /\ wasted[r] \in Nat
  BY DEF Rows
<1>3. Balanced(u, req, {}, {})
  <2> SUFFICES ASSUME NEW r \in Reminders
               PROVE  /\ copies'[r] = copies[r] + Bit(r \in {}) /\ wasted'[r] = wasted[r] + Bit(r \in {})
                      /\ Bit(r \in {}) + Bit(r \in Gone(request[u])) + Bit(IsSent(r))
                           <= Bit(r \in {}) + Bit(r \in Gone(req)) + Bit(IsSent(r)')
    BY DEF Balanced
  <2> DEFINE x == Bit(r \in Gone(req))
             s == Bit(IsSent(r))
             t == Bit(IsSent(r)')
  <2>1. x \in Nat /\ s \in Nat /\ t \in Nat /\ s <= t
    BY <1>1 DEF Bit
  <2>2. Bit(r \in {}) = 0
    BY DEF Bit
  <2> HIDE DEF x, s, t
  <2>3. 0 + x + s <= 0 + x + t
    BY <2>1
  <2> QED BY <1>2, <2>2, <2>3 DEF x, s, t
<1> QED BY <1>3, BalancedStep

\* The next reminder is handed over, and may leave (Deliver).
LEMMA DeliverBalanced ==
    ASSUME Rows, Requests, Stays, LeavesOnce, NEW u \in Users, Working(u), request[u].todo # <<>>,
           NEW left, NEW queued, left \cup queued \subseteq {Head(request[u].todo)}, left \cap queued = {},
           Deliver(u, left, queued), Leave(left), UNCHANGED wasted
    PROVE  LeavesOnce'
<1> DEFINE old == request[u]
           new == Handing(old, left, queued)
<1>1. Sound(old) /\ request' = [request EXCEPT ![u] = new] /\ new.left = old.left \cup left
  BY DeliverGoesOn, WorkingSound
<1>2. new # Idle /\ old # Idle
  <2>1. new.kind = old.kind /\ old.kind \in {"wizard", "list"}
    BY <1>1, HandingIs DEF Sound
  <2> HIDE DEF new, old
  <2> QED BY <2>1 DEF Idle
<1>3. left \cap old.left = {}
  BY <1>1, NextToSend DEF Sound, Underneath
<1> HIDE DEF new, old
<1>4. Gone(new) = old.left \cup left /\ Gone(old) = old.left
  BY <1>1, <1>2 DEF Gone
<1>5. ASSUME NEW r \in Reminders
      PROVE  /\ copies'[r] = copies[r] + Bit(r \in left) /\ wasted'[r] = wasted[r] + Bit(r \in {})
             /\ Bit(r \in left) + Bit(r \in Gone(old)) + Bit(IsSent(r))
                  <= Bit(r \in {}) + Bit(r \in Gone(new)) + Bit(IsSent(r)')
  <2>1. copies'[r] = copies[r] + Bit(r \in left)
    BY DEF Leave, Bit
  <2>2. wasted'[r] = wasted[r] + Bit(r \in {})
    BY DEF Rows, Bit
  <2>3. IsSent(r) => IsSent(r)'
    BY DEF Stays, IsSent
  <2>4. Bit(r \in left) + Bit(r \in Gone(old)) = Bit(r \in Gone(new))
    BY <1>3, <1>4 DEF Bit
  <2> DEFINE a == Bit(r \in left)
             b == Bit(r \in Gone(old))
             c == Bit(r \in Gone(new))
             s == Bit(IsSent(r))
             t == Bit(IsSent(r)')
  <2>5. a \in Nat /\ b \in Nat /\ c \in Nat /\ s \in Nat /\ t \in Nat /\ s <= t /\ a + b = c /\ Bit(r \in {}) = 0
    BY <2>3, <2>4 DEF Bit
  <2> HIDE DEF a, b, c, s, t
  <2>6. a + b + s <= 0 + c + t
    BY <2>5
  <2> QED BY <2>1, <2>2, <2>5, <2>6 DEF a, b, c, s, t
<1>6. Balanced(u, new, left, {})
  BY <1>1, <1>5 DEF Balanced, old
<1> QED BY <1>6, BalancedStep

\* A request is rolled back: what had left, and what leaves now, is lost (RollBack, Rerun).
LEMMA BackBalanced ==
    ASSUME Rows, Requests, Stays, LeavesOnce, NEW u \in Users, Working(u), NEW req,
           request' = [request EXCEPT ![u] = req], Gone(req) = {},
           NEW more, more \cap request[u].left = {},
           \A r \in Reminders : copies'[r] = copies[r] + Bit(r \in more),
           \A r \in Reminders : wasted'[r] = wasted[r] + Bit(r \in request[u].left \cup more)
    PROVE  LeavesOnce'
<1> DEFINE old == request[u]
           back == request[u].left \cup more
<1>1. Gone(old) = old.left
  BY DEF Gone, Working, Idle
<1>2. ASSUME NEW r \in Reminders
      PROVE  Bit(r \in more) + Bit(r \in Gone(old)) + Bit(IsSent(r))
                  <= Bit(r \in back) + Bit(r \in Gone(req)) + Bit(IsSent(r)')
  <2>1. IsSent(r) => IsSent(r)'
    BY DEF Stays, IsSent
  <2>2. Bit(r \in more) + Bit(r \in Gone(old)) = Bit(r \in back)
    BY <1>1 DEF Bit
  <2> DEFINE a == Bit(r \in more)
             b == Bit(r \in Gone(old))
             c == Bit(r \in back)
             s == Bit(IsSent(r))
             t == Bit(IsSent(r)')
  <2> HIDE DEF back
  <2>3. a \in Nat /\ b \in Nat /\ c \in Nat /\ s \in Nat /\ t \in Nat /\ s <= t /\ Bit(r \in Gone(req)) = 0
    BY <2>1 DEF Bit
  <2>4. a + b = c
    BY <2>2
  <2> HIDE DEF a, b, c, s, t
  <2>5. a + b + s <= c + 0 + t
    BY <2>3, <2>4
  <2> QED BY <2>3, <2>5 DEF a, b, c, s, t
<1>3. Balanced(u, req, more, back)
  BY <1>2 DEF Balanced
<1> HIDE DEF back
<1> QED BY <1>3, BalancedStep

LEMMA RollBackBalanced ==
    ASSUME Rows, Requests, Stays, LeavesOnce, NEW u \in Users, Working(u), request[u].todo # <<>>,
           NEW more \in SUBSET {Head(request[u].todo)}, RollBack(u, more), Leave(more)
    PROVE  LeavesOnce'
<1>1. Sound(request[u])
  BY WorkingSound
<1>2. more \cap request[u].left = {}
  BY <1>1, NextToSend DEF Sound, Underneath
<1>3. request' = [request EXCEPT ![u] = Idle] /\ Gone(Idle) = {}
  BY DEF RollBack, Gone
<1>4. /\ \A r \in Reminders : copies'[r] = copies[r] + Bit(r \in more)
      /\ \A r \in Reminders : wasted'[r] = wasted[r] + Bit(r \in request[u].left \cup more)
  BY DEF Leave, RollBack, Bit
<1> QED BY <1>2, <1>3, <1>4, BackBalanced

LEMMA CommitBalanced ==
    ASSUME Rows, Requests, Unborn, LeavesOnce, NEW u \in Users, Commit(u)
    PROVE  LeavesOnce'
<1> DEFINE old == request[u]
<1>1. /\ Sound(old)
      /\ \A r \in Reminders :
            /\ r \in HandedOver(old) => reminder'[r].state = "sent" /\ reminder[r].state \in {"none", "draft"}
            /\ r \notin HandedOver(old) \cup DOMAIN old.fresh => reminder'[r] = reminder[r]
  BY CommitIs
<1>2. \A r \in DOMAIN old.fresh : reminder[r].state = "none"
  BY <1>1, WorkingSound DEF Unborn
<1>3. old.left \cup old.queued \subseteq HandedOver(old) /\ old.left \cap old.queued = {}
  BY <1>1 DEF Sound, Underneath
<1>4. old # Idle /\ request' = [request EXCEPT ![u] = Idle] /\ Leave(old.queued) /\ UNCHANGED wasted
  BY DEF Commit, Idle
<1> HIDE DEF old
<1>5. Gone(old) = old.left /\ Gone(Idle) = {}
  BY <1>4 DEF Gone
<1>6. ASSUME NEW r \in Reminders
      PROVE  /\ copies'[r] = copies[r] + Bit(r \in old.queued) /\ wasted'[r] = wasted[r] + Bit(r \in {})
             /\ Bit(r \in old.queued) + Bit(r \in Gone(old)) + Bit(IsSent(r))
                  <= Bit(r \in {}) + Bit(r \in Gone(Idle)) + Bit(IsSent(r)')
  <2>1. copies'[r] = copies[r] + Bit(r \in old.queued) /\ wasted'[r] = wasted[r] + Bit(r \in {})
    BY <1>4 DEF Leave, Bit, Rows
  <2>2. Bit(r \in {}) = 0 /\ Bit(r \in Gone(Idle)) = 0
    BY <1>5 DEF Bit
  <2>3. Bit(r \in old.queued) + Bit(r \in Gone(old)) + Bit(IsSent(r)) <= Bit(IsSent(r)')
    <3>1. CASE r \in HandedOver(old)
      <4>1. IsSent(r)' /\ ~IsSent(r)
        BY <1>1, <3>1 DEF IsSent
      <4>2. ~(r \in old.queued /\ r \in Gone(old))
        BY <1>3, <1>5
      <4> QED BY <4>1, <4>2 DEF Bit
    <3>2. CASE r \notin HandedOver(old)
      <4>1. r \notin old.queued /\ r \notin Gone(old)
        BY <1>3, <1>5, <3>2
      <4>2. IsSent(r) => IsSent(r)'
        BY <1>1, <1>2, <3>2 DEF IsSent
      <4> QED BY <4>1, <4>2 DEF Bit
    <3> QED BY <3>1, <3>2
  <2> DEFINE a == Bit(r \in old.queued) + Bit(r \in Gone(old)) + Bit(IsSent(r))
             t == Bit(IsSent(r)')
  <2>4. a <= t /\ t \in Nat
    BY <2>3 DEF Bit
  <2> HIDE DEF a, t
  <2>5. a <= 0 + 0 + t
    BY <2>4
  <2> QED BY <2>1, <2>2, <2>5 DEF a, t
<1>7. Balanced(u, Idle, old.queued, {})
  BY <1>4, <1>6 DEF Balanced, old
<1> QED BY <1>7, BalancedStep

LEMMA LeavesStep ==
    ASSUME Rows, Wizards, Requests, Unborn, Ledger, LeavesOnce, [Next]_vars
    PROVE  LeavesOnce'
<1>0. Stays
  BY BooksStay
<1>1. ASSUME UNCHANGED <<request, copies, wasted>> PROVE LeavesOnce'
  <2>1. \A r \in Reminders : copies[r] <= wasted[r] + Cardinality(Holders(r)) + Bit(IsSent(r))
    BY LeavesIs
  <2>2. ASSUME NEW r \in Reminders PROVE copies'[r] <= wasted'[r] + Cardinality(Holders(r)') + Bit(IsSent(r)')
    <3> DEFINE c == copies[r]
               w == wasted[r]
               h == Cardinality(Holders(r))
               s == Bit(IsSent(r))
               t == Bit(IsSent(r)')
    <3>1. Holders(r)' = Holders(r)
      BY <1>1 DEF Holders, Gone
    <3>2. s \in Nat /\ t \in Nat /\ s <= t
      BY <1>0 DEF Bit, IsSent, Stays
    <3>3. c \in Nat /\ w \in Nat /\ c <= w + h + s
      BY <2>1 DEF Rows
    <3>4. h \in Nat
      <4> DEFINE H == Holders(r)
      <4>1. H \subseteq Users
        BY DEF Holders
      <4> HIDE DEF H
      <4>2. Cardinality(H) \in Nat
        BY <4>1, ReminderAssumption, FS_Subset, FS_CardinalityType DEF ReminderAssumption
      <4> QED BY <4>2 DEF H
    <3> HIDE DEF c, w, h, s, t
    <3>5. c <= w + h + t
      BY <3>2, <3>3, <3>4
    <3> QED BY <1>1, <3>1, <3>5 DEF c, w, h, t
  <2>3. \A r \in Reminders : Holders(r)' = {v \in Users : request'[v] # Idle /\ r \in request'[v].left}
    BY DEF Holders, Gone
  <2> QED BY <2>2, <2>3 DEF LeavesOnce, Bit, IsSent
<1>2. ASSUME NEW u \in Users, Confirm(u) PROVE LeavesOnce'
  <2>1. PICK fresh, ids : Begins(u, fresh, ids)
    BY <1>2, ConfirmBegins
  <2> DEFINE req == Started("wizard", fresh, ids)
  <2>2. request' = [request EXCEPT ![u] = req] /\ request[u] = Idle
    BY <2>1 DEF Begins
  <2>3. req.left = {}
    BY <2>1, BeginsSound
  <2> HIDE DEF req
  <2>4. Gone(req) = Gone(request[u])
    BY <2>2, <2>3 DEF Gone
  <2>5. UNCHANGED <<copies, wasted>>
    BY <1>2 DEF Confirm
  <2> QED BY <1>0, <2>2, <2>4, <2>5, NothingLeaves
<1>3. ASSUME NEW u \in Users, SendPrepared(u) PROVE LeavesOnce'
  <2>1. PICK req : request' = [request EXCEPT ![u] = req] /\ req.left = {}
    BY <1>3, ListStarts
  <2>2. request[u] = Idle /\ UNCHANGED <<copies, wasted>>
    BY <1>3 DEF SendPrepared, history
  <2>3. Gone(req) = Gone(request[u])
    BY <2>1, <2>2 DEF Gone
  <2> QED BY <1>0, <2>1, <2>2, <2>3, NothingLeaves
<1>4. ASSUME NEW u \in Users, SendEmail(u) PROVE LeavesOnce'
  <2> DEFINE h == Head(request[u].todo)
  <2>1. Working(u) /\ request[u].todo # <<>> /\ UNCHANGED wasted
    BY <1>4 DEF SendEmail, ToSend, Working
  <2>2. \/ Deliver(u, {h}, {}) /\ Leave({h})
        \/ \E queued \in SUBSET {h} : Deliver(u, {}, queued) /\ UNCHANGED copies
    BY <1>4 DEF SendEmail
  <2>3. CASE Deliver(u, {h}, {}) /\ Leave({h})
    BY <1>0, <2>1, <2>3, DeliverBalanced
  <2>4. ASSUME NEW queued \in SUBSET {h}, Deliver(u, {}, queued), UNCHANGED copies PROVE LeavesOnce'
    <3>1. Leave({})
      BY <2>4 DEF Leave, Rows
    <3> QED BY <1>0, <2>1, <2>4, <3>1, DeliverBalanced
  <2> QED BY <2>2, <2>3, <2>4
<1>5. ASSUME NEW u \in Users, SendManual(u) PROVE LeavesOnce'
  <2>1. Working(u) /\ request[u].todo # <<>> /\ UNCHANGED <<copies, wasted>>
    BY <1>5 DEF SendManual, ToSend, Working, history
  <2>2. Leave({})
    BY <2>1 DEF Leave, Rows
  <2>3. Deliver(u, {}, {Head(request[u].todo)})
    BY <1>5 DEF SendManual
  <2> QED BY <1>0, <2>1, <2>2, <2>3, DeliverBalanced
<1>6. ASSUME NEW u \in Users, SendSms(u) PROVE LeavesOnce'
  <2> DEFINE h == Head(request[u].todo)
  <2>1. Working(u) /\ request[u].todo # <<>>
    BY <1>6 DEF SendSms, ToSend, Working
  <2>2. \/ Deliver(u, {h}, {}) /\ Leave({h}) /\ UNCHANGED wasted
        \/ RollBack(u, {}) /\ UNCHANGED copies
        \/ RollBack(u, {h}) /\ Leave({h})
    BY <1>6 DEF SendSms
  <2>3. CASE Deliver(u, {h}, {}) /\ Leave({h}) /\ UNCHANGED wasted
    BY <1>0, <2>1, <2>3, DeliverBalanced
  <2>4. CASE RollBack(u, {}) /\ UNCHANGED copies
    <3>1. Leave({})
      BY <2>4 DEF Leave, Rows
    <3> QED BY <1>0, <2>1, <2>4, <3>1, RollBackBalanced
  <2>5. CASE RollBack(u, {h}) /\ Leave({h})
    BY <1>0, <2>1, <2>5, RollBackBalanced
  <2> QED BY <2>2, <2>3, <2>4, <2>5
<1>7. ASSUME NEW u \in Users, NEW post, Working(u), request[u].todo # <<>>,
             request' = [request EXCEPT ![u].post = post], UNCHANGED <<copies, wasted>>
      PROVE  LeavesOnce'
  <2> DEFINE req == [request[u] EXCEPT !.post = post]
  <2>1. request' = [request EXCEPT ![u] = req] /\ req.left = request[u].left
    BY <1>7, PostGoesOn
  <2>2. req.kind = request[u].kind /\ request[u].kind \in {"wizard", "list"}
    BY <1>7, WorkingSound, PostSound DEF Working
  <2> HIDE DEF req
  <2>3. Gone(req) = Gone(request[u])
    BY <2>1, <2>2 DEF Gone, Idle
  <2> QED BY <1>0, <1>7, <2>1, <2>3, NothingLeaves
<1>8. ASSUME NEW u \in Users, StartLetter(u) PROVE LeavesOnce'
  <2>1. /\ Working(u) /\ request[u].todo # <<>> /\ UNCHANGED <<copies, wasted>>
        /\ request' = [request EXCEPT ![u].post = NewCampaign(1)]
    BY <1>8 DEF StartLetter, ToSend, Working, history
  <2> QED BY <1>7, <2>1
<1>9. ASSUME NEW u \in Users, Ends(u), NoReminders(request[u]), UNCHANGED <<copies, wasted>> PROVE LeavesOnce'
  <2>1. PICK req : request' = [request EXCEPT ![u] = req] /\ NoReminders(req)
    BY <1>9 DEF Ends
  <2>2. Gone(req) = {} /\ Gone(request[u]) = {}
    BY <1>9, <2>1 DEF Gone, NoReminders
  <2> QED BY <1>0, <1>9, <2>1, <2>2, NothingLeaves
<1>10. ASSUME NEW u \in Users, PostCall(u) PROVE LeavesOnce'
  <2>1. UNCHANGED <<copies, wasted>>
    BY <1>10 DEF PostCall, history
  <2>2. CASE Working(u)
    <3>1. \E post : request' = [request EXCEPT ![u].post = post]
      BY <1>10 DEF PostCall
    <3>2. request[u].todo # <<>>
      BY <1>10, <2>2, WorkingSound DEF PostCall, Posting, Sound
    <3> QED BY <1>7, <2>1, <2>2, <3>1, <3>2
  <2>3. CASE ~Working(u)
    BY <1>9, <1>10, <2>1, <2>3, CallSteps
  <2> QED BY <2>2, <2>3
<1>11. ASSUME NEW u \in Users, EndLetter(u) PROVE LeavesOnce'
  <2> DEFINE h == Head(request[u].todo)
  <2>1. Working(u)
    BY <1>11 DEF EndLetter, Working
  <2>2. request[u].todo # <<>>
    BY <1>11, <2>1, WorkingSound DEF EndLetter, Posting, Sound
  <2>3. PICK letter \in SUBSET {h} :
            /\ Leave(letter)
            /\ (Deliver(u, letter, {}) /\ UNCHANGED wasted) \/ RollBack(u, letter)
    BY <1>11 DEF EndLetter
  <2> HIDE DEF h
  <2>4. CASE Deliver(u, letter, {}) /\ UNCHANGED wasted
    <3>1. letter \cup {} \subseteq {Head(request[u].todo)} /\ letter \cap {} = {}
      BY DEF h
    <3> QED BY <1>0, <2>1, <2>2, <2>3, <2>4, <3>1, DeliverBalanced
  <2>5. CASE RollBack(u, letter)
    <3>1. letter \in SUBSET {Head(request[u].todo)}
      BY DEF h
    <3> QED BY <1>0, <2>1, <2>2, <2>3, <2>5, <3>1, RollBackBalanced
  <2> QED BY <2>3, <2>4, <2>5
<1>12. ASSUME NEW u \in Users, Rerun(u) PROVE LeavesOnce'
  <2>1. PICK req : request' = [request EXCEPT ![u] = req] /\ (req = Idle \/ req.left = {})
    BY <1>12, RerunSteps
  <2>2. Working(u) /\ Gone(req) = {}
    BY <1>12, <2>1 DEF Rerun, Working, Gone
  <2>3. /\ \A r \in Reminders : copies'[r] = copies[r] + Bit(r \in {})
        /\ \A r \in Reminders : wasted'[r] = wasted[r] + Bit(r \in request[u].left \cup {})
    BY <1>12 DEF Rerun, Bit, Rows
  <2> QED BY <1>0, <2>1, <2>2, <2>3, BackBalanced
<1>13. ASSUME NEW u \in Users, SendInvoices(u) PROVE LeavesOnce'
  <2>1. request[u] = Idle /\ UNCHANGED <<copies, wasted>>
    BY <1>13 DEF SendInvoices, history
  <2>2. NoReminders(request[u])
    BY <2>1 DEF NoReminders
  <2> QED BY <1>9, <1>13, <2>1, <2>2, InvoicesEnds
<1>14. ASSUME NEW u \in Users, SmsInvoice(u) \/ StartLetters(u) \/ EndLetters(u) \/ EndBatch(u)
       PROVE  LeavesOnce'
  <2>1. UNCHANGED <<copies, wasted>>
    BY <1>14 DEF SmsInvoice, StartLetters, EndLetters, EndBatch, history
  <2> QED BY <1>9, <1>14, <2>1, BatchSteps
<1>15. ASSUME \/ \E u \in Users : OpenWizard(u)
              \/ \E r \in Reminders : Cancel(r)
              \/ \E m \in Invoices : Pay(m)
              \/ NextDay \/ UNCHANGED vars
       PROVE  UNCHANGED <<request, copies, wasted>>
  BY <1>15 DEF OpenWizard, Cancel, Pay, NextDay, vars, history
<1> QED
  BY <1>1, <1>2, <1>3, <1>4, <1>5, <1>6, <1>8, <1>10, <1>11, <1>12, <1>13, <1>14, <1>15, CommitBalanced
     DEF Next, ReminderNext

-----------------------------------------------------------------------------
(* The theorems                                                              *)

LEMMA RemindersInit == Init => RemindersInv
<1> SUFFICES ASSUME Init PROVE RemindersInv
  OBVIOUS
<1>1. Rows
  <2>1. MaxReminders \in Nat
    BY ReminderAssumption DEF ReminderAssumption
  <2>2. IsInvoices(invoice)
    BY DEF Init, IsInvoices, IsInvoice
  <2>3. IsRows(reminder)
    BY DEF Init, IsRows, IsRow, NoRow, RowFields
  <2> QED BY <2>1, <2>2, <2>3 DEF Init, Rows
<1>2. Wizards
  BY FS_EmptySet DEF Init, Wizards
<1>3. Requests /\ \A u \in Users : ~Working(u)
  BY DEF Init, Requests, Going, NoReminders, Working, Idle
<1>4. \A r \in Reminders : reminder[r].state = "none"
  BY DEF Init, NoRow
<1>5. Sent = {}
  BY <1>4 DEF Sent
<1>6. Ledger
  BY <1>4 DEF Init, Ledger
<1>7. Unborn
  BY <1>3, <1>4 DEF Unborn
<1>8. InvoiceTellsReminders
  <2>1. \A m \in Invoices : Mine(m) = {}
    BY DEF Init, Mine
  <2>2. \A m \in Invoices : invoice[m].count = 0 /\ invoice[m].level = 0
    BY DEF Init
  <2> QED BY <2>1, <2>2, TellsIs, FS_EmptySet DEF Tells
<1>9. LeavesOnce
  <2>1. \A r \in Reminders : Holders(r) = {}
    BY DEF Init, Holders, Gone
  <2>2. \A r \in Reminders : copies[r] = 0 /\ wasted[r] = 0
    BY DEF Init
  <2>3. Cardinality({}) = 0
    BY FS_EmptySet
  <2> QED BY <2>1, <2>2, <2>3, LeavesIs DEF Bit
<1>10. Knowing
  BY DEF Init, Knowing, Closed
<1>11. Rising
  BY <1>3, <1>4 DEF Init, Rising
<1>12. Graded /\ Asked
  BY <1>3, <1>4 DEF Init, Graded, Asked
<1> QED BY <1>1, <1>2, <1>3, <1>6, <1>7, <1>8, <1>9, <1>10, <1>11, <1>12 DEF RemindersInv

LEMMA RemindersStep == RemindersInv /\ [Next]_vars => RemindersInv'
<1> SUFFICES ASSUME RemindersInv, [Next]_vars PROVE RemindersInv'
  OBVIOUS
<1>1. /\ Rows /\ Wizards /\ Requests /\ Ledger /\ Unborn /\ InvoiceTellsReminders /\ LeavesOnce
      /\ Knowing /\ Rising /\ Graded /\ Asked
  BY DEF RemindersInv
<1>2. Rows' /\ Wizards' /\ Requests' /\ Ledger' /\ Unborn'
  BY <1>1, RowsStep, WizardsStep, RequestsStep, LedgerStep, UnbornStep
<1>3. InvoiceTellsReminders' /\ LeavesOnce'
  BY <1>1, TellsStep, LeavesStep
<1>4. Knowing' /\ Rising'
  BY <1>1, KnowingStep, RisingStep
<1>5. Graded' /\ Asked'
  BY <1>1, GradedStep, AskedStep
<1> QED BY <1>2, <1>3, <1>4, <1>5 DEF RemindersInv

\* InvoiceTellsReminders: the count and the level on an invoice are those of the reminders
\* sent for it, whatever requests run at the same time (_mark_sent).
THEOREM InvoiceTellsRemindersAlways == Spec => []InvoiceTellsReminders
<1>1. RemindersInv => InvoiceTellsReminders
  BY DEF RemindersInv
<1> QED BY <1>1, RemindersInit, RemindersStep, PTL DEF Spec

\* LeavesOnce: all that has left for a reminder was rolled back, is in a request that runs,
\* or is what marked it as sent (action_send, and its being run again).
THEOREM LeavesOnceAlways == Spec => []LeavesOnce
<1>1. RemindersInv => LeavesOnce
  BY DEF RemindersInv
<1> QED BY <1>1, RemindersInit, RemindersStep, PTL DEF Spec

\* LevelsRise: a level comes again for an invoice only when a reminder prepared before
\* the last one had been sent is sent after it (_next_level, default_get).
THEOREM LevelsRiseAlways == Spec => []LevelsRise
<1>1. RemindersInv => LevelsRise
  <2> SUFFICES ASSUME RemindersInv PROVE LevelsRise
    OBVIOUS
  <2>1. \A s \in Sent : Rises(reminder[s].moves, reminder[s].level, knew[s])
    BY DEF RemindersInv, Rising, Sent
  <2> QED BY <2>1 DEF LevelsRise, Rises
<1> QED BY <1>1, RemindersInit, RemindersStep, PTL DEF Spec

\* FeesAskedFor: the fees asked for with a reminder are of reminders sent before it, and of all
\* of them when none was sent since its wizard was opened (_previous_fee_amount_for).
THEOREM FeesAskedForAlways == Spec => []FeesAskedFor
<1>1. RemindersInv => FeesAskedFor
  <2> SUFFICES ASSUME RemindersInv, NEW s \in Sent
               PROVE  LET before == {r \in Sent : /\ Place(r) < Place(s)
                                                  /\ reminder[r].moves \cap reminder[s].moves # {}}
                      IN  /\ reminder[s].previous <= FeesOf(reminder, before)
                          /\ before \subseteq knew[s] => reminder[s].previous = FeesOf(reminder, before)
    BY DEF FeesAskedFor, FeesOf
  <2> DEFINE before == {r \in Sent : /\ Place(r) < Place(s)
                                     /\ reminder[r].moves \cap reminder[s].moves # {}}
  <2>1. Asked /\ Graded /\ s \in Reminders /\ reminder[s].state # "none"
    BY DEF RemindersInv, Sent
  <2>2. PICK A : /\ Asks(reminder[s].previous, reminder[s].moves, knew[s], A)
                 /\ \A t \in A : Place(t) < Place(s)
    BY <2>1 DEF Asked
  <2>3. A \subseteq before
    BY <2>2 DEF Asks
  <2>4. before \subseteq knew[s] => A = before
    BY <2>2, <2>3 DEF Asks
  <2>5. IsFiniteSet(before)
    <3>1. IsFiniteSet(Reminders)
      BY FS_Interval, ReminderAssumption DEF ReminderAssumption, Reminders
    <3>2. before \subseteq Reminders
      BY DEF Sent
    <3> HIDE DEF before
    <3> QED BY <3>1, <3>2, FS_Subset
  <2>6. \A x \in before : reminder[x].level \in DOMAIN LevelFee
    <3>1. Levels = DOMAIN LevelFee
      BY ReminderAssumption DEF ReminderAssumption, Levels
    <3> QED BY <2>1, <3>1 DEF Graded, Sent
  <2> HIDE DEF before
  <2>7. FeesOf(reminder, A) <= FeesOf(reminder, before)
    BY <2>3, <2>5, <2>6, FeesMonotone
  <2>8. reminder[s].previous = FeesOf(reminder, A)
    BY <2>2 DEF Asks
  <2> QED BY <2>4, <2>7, <2>8 DEF before
<1> QED BY <1>1, RemindersInit, RemindersStep, PTL DEF Spec
=============================================================================
