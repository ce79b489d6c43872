------------------------------ MODULE Reminder ------------------------------
(***************************************************************************)
(* Payment reminders (account_invoice_reminder) and the ways they are      *)
(* delivered: e-mail, by hand, SMS (46elks) and letter (Ekopost).          *)
(*                                                                         *)
(* A user opens the wizard, which proposes a level per customer, and later *)
(* confirms it, or sends reminders that were only prepared.  Every such    *)
(* request is one transaction that reads the database as of its first      *)
(* query, but what it delivers leaves at once: a request that fails, or    *)
(* that collides with another one and is run again, cannot take it back.   *)
(***************************************************************************)
EXTENDS Integers, FiniteSets, FiniteSetsExt, Sequences, SequencesExt, EkopostCampaign

CONSTANTS
    Invoices,      \* posted customer invoices (account.move)
    Customer,      \* the partner of each
    Due,           \* the day each is due
    LevelDays,     \* days overdue at which each level is reached, in order of sequence
    LevelFee,      \* the fee of each level
    Channels,      \* the ways of delivery a user chooses from at each level
    NoAddress,     \* partners without an e-mail address
    NoNumber,      \* partners without a telephone number
    Users,
    MaxReminders,  \* bound: reminders ever created
    LastDay,       \* bound: the days
    MaxFaults,     \* bound: deliveries that go wrong
    MaxOther       \* bound: invoices paid and reminders cancelled

ASSUME ReminderAssumption ==
    /\ IsFiniteSet(Invoices) /\ IsFiniteSet(Users)
    /\ LevelDays \in Seq(Nat) /\ LevelFee \in Seq(Nat) /\ Len(LevelDays) = Len(LevelFee)
    /\ Channels \in [DOMAIN LevelDays -> SUBSET {"email", "manual", "sms", "ekopost"}]
    /\ MaxReminders \in Nat /\ LastDay \in Nat /\ MaxFaults \in Nat /\ MaxOther \in Nat

VARIABLES
    today,
    invoice,   \* [paid, level, count]: reminder_level_id (0: none) and reminder_count
    reminder,  \* the account.reminder records, by id
    made,      \* ids used so far
    wizard,    \* by user: the open wizard's lines
    request,   \* by user: the request being run, or Idle
    faults,    \* how often a delivery went wrong (bound)
    copies,    \* by reminder: how often it left for the customer (history)
    wasted,    \* by reminder: how often it left in a run that was rolled back (history)
    knew,      \* by reminder: those sent when its wizard was opened (history)
    order      \* the reminders in the order they were sent (history)

history == <<copies, wasted, knew, order>>
vars == <<today, invoice, reminder, made, wizard, request, faults, history>>

Levels == DOMAIN LevelDays
Reminders == 1..MaxReminders

\* A row that is not there: the states are draft, sent and cancel, the channels email,
\* manual, sms and ekopost.
NoRow == [state |-> "none", moves |-> {}, level |-> 0, channel |-> "none", previous |-> 0]

Database == [invoice |-> invoice, reminder |-> reminder]
Idle == [kind |-> "idle"]
NoPost == [call |-> "none"]
Posting(u) == request[u].post # NoPost

Init ==
    /\ today = 0
    /\ invoice = [m \in Invoices |-> [paid |-> FALSE, level |-> 0, count |-> 0]]
    /\ reminder = [r \in Reminders |-> NoRow]
    /\ made = 0
    /\ wizard = [u \in Users |-> [lines |-> {}, knew |-> {}]]
    /\ request = [u \in Users |-> Idle]
    /\ faults = 0
    /\ copies = [r \in Reminders |-> 0]
    /\ wasted = [r \in Reminders |-> 0]
    /\ knew = [r \in Reminders |-> {}]
    /\ order = <<>>

-----------------------------------------------------------------------------
(* The wizard *)

\* Mutant: the levels after the invoice's own one are not told from those before.
NextLevelAgain(m, row) ==
    LET reached == {l \in Levels : l >= row.level /\ today - Due[m] >= LevelDays[l]}
    IN  IF today <= Due[m] \/ reached = {} THEN 0 ELSE Min(reached)

\* _next_level: the first level after the invoice's last one whose days are
\* reached, 0 if there is none.
NextLevel(m, row) ==
    LET reached == {l \in Levels : l > row.level /\ today - Due[m] >= LevelDays[l]}
    IN  IF today <= Due[m] \/ reached = {} THEN 0 ELSE Min(reached)

\* default_get: the invoices with a next level, by customer and level.
Proposal ==
    LET next == [m \in Invoices |-> IF invoice[m].paid THEN 0 ELSE NextLevel(m, invoice[m])]
    IN  {[level |-> next[m],
          moves |-> {n \in Invoices : Customer[n] = Customer[m] /\ next[n] = next[m]}] :
            m \in {n \in Invoices : next[n] # 0}}

Sent == {r \in Reminders : reminder[r].state = "sent"}

OpenWizard(u) ==
    /\ request[u] = Idle
    /\ Proposal # {}
    /\ wizard' = [wizard EXCEPT ![u] = [lines |-> Proposal, knew |-> Sent]]
    /\ UNCHANGED <<today, invoice, reminder, made, request, faults, history>>

-----------------------------------------------------------------------------
(* Requests *)

\* Mutant: the reminders that are only prepared count as well.
FeesOfAll(rows, moves) ==
    LET before == {r \in Reminders : rows[r].state \in {"draft", "sent"} /\ rows[r].moves \cap moves # {}}
    IN  MapThenSumSet(LAMBDA r : LevelFee[rows[r].level], before)

\* _previous_fee_amount_for: the fees of the reminders sent for these invoices.
PreviousFees(rows, moves) ==
    LET before == {r \in Reminders : rows[r].state = "sent" /\ rows[r].moves \cap moves # {}}
    IN  MapThenSumSet(LAMBDA r : LevelFee[rows[r].level], before)

\* create_for, on the database as the request reads it; fresh are the rows by id.
Created(seen, fresh) ==
    [seen EXCEPT !.reminder =
        [r \in Reminders |->
            IF r \in DOMAIN fresh
            THEN [fresh[r] EXCEPT !.previous = PreviousFees(seen.reminder, fresh[r].moves)]
            ELSE seen.reminder[r]]]

CustomerOf(row) == Customer[CHOOSE m \in row.moves : TRUE]

\* _check_send.  The SMS and letter modules add no check of their own.
Passes(row) == row.channel = "email" => CustomerOf(row) \notin NoAddress

\* Mutant: action_send takes the reminders as they come.
NotFiltered(db, ids) == SetToSeq(ids)

\* action_send: those that are still drafts.
Drafts(db, ids) == SetToSeq({r \in ids : db.reminder[r].state = "draft"})

\* A request on the database it reads: the reminders to send, which all passed the
\* check.  left: those that have left; queued: mails held back in the queue.
Started(kind, fresh, ids) ==
    LET db == Created(Database, fresh)
    IN  [kind |-> kind, fresh |-> fresh, ids |-> ids, seen |-> Database, db |-> db,
         todo |-> Drafts(db, ids), left |-> {}, queued |-> {}, post |-> NoPost]

Checked(req) == \A r \in Range(req.todo) : Passes(req.db.reminder[r])

\* The wizard's action_send: a reminder per chosen line, sent or only prepared.
Confirm(u) ==
    /\ request[u] = Idle
    /\ \E lines \in (SUBSET wizard[u].lines) \ {{}} :
       \E channel \in [lines -> UNION Range(Channels)], send \in BOOLEAN :
        LET seq == SetToSeq(lines)
            fresh == [r \in made + 1..made + Len(seq) |->
                [NoRow EXCEPT !.state = "draft", !.moves = seq[r - made].moves,
                    !.level = seq[r - made].level, !.channel = channel[seq[r - made]]]]
            req == Started("wizard", fresh, IF send THEN DOMAIN fresh ELSE {})
        IN  /\ \A line \in lines : channel[line] \in Channels[line.level]
            /\ made + Len(seq) <= MaxReminders
            /\ Checked(req)
            /\ made' = made + Len(seq)
            /\ request' = [request EXCEPT ![u] = req]
            /\ knew' = [r \in Reminders |-> IF r \in DOMAIN fresh THEN wizard[u].knew ELSE knew[r]]
    /\ UNCHANGED <<today, invoice, reminder, wizard, faults, copies, wasted, order>>

\* action_send on reminders that were prepared.
SendPrepared(u) ==
    /\ request[u] = Idle
    /\ \E ids \in (SUBSET {r \in Reminders : reminder[r].state = "draft"}) \ {{}} :
        LET req == Started("list", <<>>, ids)
        IN  Checked(req) /\ request' = [request EXCEPT ![u] = req]
    /\ UNCHANGED <<today, invoice, reminder, made, wizard, faults, history>>

\* Mutant: the invoice is counted once per run.
Overwritten(row, level) == [row EXCEPT !.level = level, !.count = 1]

\* _mark_sent, on an invoice.
Reminded(row, level) == [row EXCEPT !.level = level, !.count = @ + 1]

\* _mark_sent, on the database of the request.
Marked(db, r) ==
    [invoice |-> [m \in Invoices |->
        IF m \in db.reminder[r].moves THEN Reminded(db.invoice[m], db.reminder[r].level) ELSE db.invoice[m]],
     reminder |-> [db.reminder EXCEPT ![r].state = "sent"]]

\* The first reminder has been handed over; it is marked in the same breath.
Deliver(u, left, queued) ==
    LET req == request[u]
    IN  request' = [request EXCEPT ![u] =
            [req EXCEPT !.todo = Tail(@), !.db = Marked(@, Head(req.todo)), !.left = @ \cup left,
                        !.queued = @ \cup queued, !.post = NoPost]]

\* The whole request is rolled back, but not what left (left, and more).
RollBack(u, more) ==
    /\ request' = [request EXCEPT ![u] = Idle]
    /\ wasted' = [r \in Reminders |->
            wasted[r] + IF r \in request[u].left \cup more THEN 1 ELSE 0]

Leave(ids) == copies' = [r \in Reminders |-> copies[r] + IF r \in ids THEN 1 ELSE 0]

ToSend(u, channel) ==
    /\ request[u].kind \in {"wizard", "list"}
    /\ request[u].todo # <<>>
    /\ ~Posting(u)
    /\ request[u].db.reminder[Head(request[u].todo)].channel = channel

MayFail == faults < MaxFaults /\ faults' = faults + 1

\* _send_email: the mail leaves at once, is held back by the rate limit until the
\* queue runs, or fails at the mail server, which the reminder does not notice.
SendEmail(u) ==
    /\ ToSend(u, "email")
    /\ LET r == Head(request[u].todo)
       IN  \/ Deliver(u, {r}, {}) /\ Leave({r}) /\ UNCHANGED faults
           \/ Deliver(u, {}, {r}) /\ UNCHANGED <<copies, faults>>
           \/ Deliver(u, {}, {}) /\ MayFail /\ UNCHANGED copies
    /\ UNCHANGED <<today, invoice, reminder, made, wizard, wasted, knew, order>>

\* _send_manual: the user takes the papers once the request is done.
SendManual(u) ==
    /\ ToSend(u, "manual")
    /\ Deliver(u, {}, {Head(request[u].todo)})
    /\ UNCHANGED <<today, invoice, reminder, made, wizard, faults, history>>

\* _send_sms
SendSms(u) ==
    /\ ToSend(u, "sms")
    /\ LET r == Head(request[u].todo)
           number == CustomerOf(request[u].db.reminder[r]) \notin NoNumber
       IN  \/ number /\ Deliver(u, {r}, {}) /\ Leave({r}) /\ UNCHANGED <<wasted, faults>>
           \/ RollBack(u, {}) /\ UNCHANGED copies
              /\ IF number THEN MayFail ELSE UNCHANGED faults
           \/ number /\ RollBack(u, {r}) /\ Leave({r}) /\ MayFail
    /\ UNCHANGED <<today, invoice, reminder, made, wizard, knew, order>>

\* _send_ekopost: a campaign of one letter.
StartLetter(u) ==
    /\ ToSend(u, "ekopost")
    /\ request' = [request EXCEPT ![u].post = NewCampaign(1)]
    /\ UNCHANGED <<today, invoice, reminder, made, wizard, faults, history>>

Fault(answer) == IF answer = "ok" THEN UNCHANGED faults ELSE MayFail

PostCall(u) ==
    /\ request[u] # Idle
    /\ Posting(u) /\ Underway(request[u].post)
    /\ \E answer \in Answers :
        /\ Fault(answer)
        /\ request' = [request EXCEPT ![u].post = Answered(@, answer)]
    /\ UNCHANGED <<today, invoice, reminder, made, wizard, history>>

EndLetter(u) ==
    /\ request[u].kind \in {"wizard", "list"}
    /\ Posting(u) /\ ~Underway(request[u].post)
    /\ LET r == Head(request[u].todo)
           letter == IF Printed(request[u].post) THEN {r} ELSE {}
       IN  /\ Leave(letter)
           /\ IF request[u].post.call = "posted"
              THEN Deliver(u, letter, {}) /\ UNCHANGED wasted
              ELSE RollBack(u, letter)
    /\ UNCHANGED <<today, invoice, reminder, made, wizard, faults, knew, order>>

\* Rows the request has written that another transaction changed since it began.
Collision(u) ==
    LET req == request[u]
    IN  \/ \E m \in Invoices : req.db.invoice[m] # req.seen.invoice[m]
                                 /\ invoice[m] # req.seen.invoice[m]
        \/ \E r \in Reminders : req.db.reminder[r] # req.seen.reminder[r]
                                 /\ reminder[r] # req.seen.reminder[r]

Written(mine, seen, theirs) ==
    [x \in DOMAIN mine |-> IF mine[x] # seen[x] THEN mine[x] ELSE theirs[x]]

Commit(u) ==
    /\ request[u].kind \in {"wizard", "list"}
    /\ request[u].todo = <<>>
    /\ ~Collision(u)
    /\ LET req == request[u]
       IN  /\ invoice' = Written(req.db.invoice, req.seen.invoice, invoice)
           /\ reminder' = Written(req.db.reminder, req.seen.reminder, reminder)
           /\ Leave(req.queued)
           /\ wizard' = IF req.kind = "wizard" THEN [wizard EXCEPT ![u] = [lines |-> {}, knew |-> {}]]
                        ELSE wizard
           /\ order' = order \o Drafts(Created(req.seen, req.fresh), req.ids)
    /\ request' = [request EXCEPT ![u] = Idle]
    /\ UNCHANGED <<today, made, faults, wasted, knew>>

\* The database refuses the write and Odoo runs the request again from the start.
Rerun(u) ==
    /\ request[u].kind \in {"wizard", "list"}
    /\ ~Posting(u)
    /\ Collision(u)
    /\ LET again == Started(request[u].kind, request[u].fresh, request[u].ids)
       IN  /\ request' = [request EXCEPT ![u] = IF Checked(again) THEN again ELSE Idle]
           /\ wasted' = [r \in Reminders |-> wasted[r] + IF r \in request[u].left THEN 1 ELSE 0]
    /\ UNCHANGED <<today, invoice, reminder, made, wizard, faults, copies, knew, order>>

-----------------------------------------------------------------------------
OthersSoFar ==
    Cardinality({m \in Invoices : invoice[m].paid})
    + Cardinality({r \in Reminders : reminder[r].state = "cancel"})

\* action_cancel
Cancel(r) ==
    /\ OthersSoFar < MaxOther
    /\ reminder[r].state = "draft"
    /\ reminder' = [reminder EXCEPT ![r].state = "cancel"]
    /\ UNCHANGED <<today, invoice, made, wizard, request, faults, history>>

\* The customer pays, external.
Pay(m) ==
    /\ OthersSoFar < MaxOther
    /\ ~invoice[m].paid
    /\ invoice' = [invoice EXCEPT ![m].paid = TRUE]
    /\ UNCHANGED <<today, reminder, made, wizard, request, faults, history>>

NextDay ==
    /\ today < LastDay
    /\ today' = today + 1
    /\ UNCHANGED <<invoice, reminder, made, wizard, request, faults, history>>

ReminderNext ==
    \/ \E u \in Users :
        \/ OpenWizard(u)
        \/ Confirm(u)
        \/ SendPrepared(u)
        \/ SendEmail(u)
        \/ SendManual(u)
        \/ SendSms(u)
        \/ StartLetter(u)
        \/ PostCall(u)
        \/ EndLetter(u)
        \/ Commit(u)
        \/ Rerun(u)
    \/ \E r \in Reminders : Cancel(r)
    \/ \E m \in Invoices : Pay(m)
    \/ NextDay
=============================================================================
