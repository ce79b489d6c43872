----------------------------- MODULE InvoiceSend ----------------------------
(***************************************************************************)
(* Invoices sent by SMS, letter and e-mail in one go (_hook_if_success of  *)
(* account_invoice_send_sms_46elks and account_invoice_send_ekopost before *)
(* that of Odoo, which sends the mails), beside the reminders, which use   *)
(* the same services: from the dialog, where an error is raised, or from   *)
(* the batch job, where it is logged.                                      *)
(***************************************************************************)
EXTENDS Reminder

CONSTANT Batches   \* the batches sent: [texts, letters], sets of invoices

ASSUME BatchesAssumption == Batches \subseteq [texts : SUBSET Invoices, letters : SUBSET Invoices]

\* A batch: the invoices by way of sending, what has failed, and whose mails left.
SendInvoices(u) ==
    /\ request[u] = Idle
    /\ \E batch \in Batches, cron \in BOOLEAN :
        request' = [request EXCEPT ![u] =
            [kind |-> "invoices", cron |-> cron, stage |-> "sms", texts |-> SetToSeq(batch.texts),
             letters |-> batch.letters, failed |-> {}, left |-> {}, post |-> NoPost]]
    /\ UNCHANGED <<today, invoice, reminder, made, wizard, faults, history>>

Sending(u, stage) ==
    /\ request[u].kind = "invoices"
    /\ request[u].stage = stage
    /\ ~Posting(u)

\* A UserError: logged in the batch job, raised in the dialog.
Failed(req, next) ==
    IF req.cron THEN [req EXCEPT !.stage = next, !.failed = @ \cup {req.stage}, !.post = NoPost]
    ELSE Idle

\* _sms_send_invoice, for one invoice after the other; the first error ends it.
SmsInvoice(u) ==
    /\ Sending(u, "sms")
    /\ LET req == request[u]
       IN  IF req.texts = <<>>
           THEN request' = [request EXCEPT ![u].stage = "letters"] /\ UNCHANGED faults
           ELSE \/ /\ Customer[Head(req.texts)] \notin NoNumber
                   /\ request' = [request EXCEPT ![u].texts = Tail(@)]
                   /\ UNCHANGED faults
                \/ /\ IF Customer[Head(req.texts)] \in NoNumber THEN UNCHANGED faults ELSE MayFail
                   /\ request' = [request EXCEPT ![u] = Failed(req, "letters")]
    /\ UNCHANGED <<today, invoice, reminder, made, wizard, history>>

\* _ekopost_send_invoices: all letters of the batch in one campaign.
StartLetters(u) ==
    /\ Sending(u, "letters")
    /\ LET n == Cardinality(request[u].letters)
       IN  request' = [request EXCEPT ![u] =
            IF n = 0 THEN [@ EXCEPT !.stage = "mail"] ELSE [@ EXCEPT !.post = NewCampaign(n)]]
    /\ UNCHANGED <<today, invoice, reminder, made, wizard, faults, history>>

EndLetters(u) ==
    /\ request[u].kind = "invoices"
    /\ Posting(u) /\ ~Underway(request[u].post)
    /\ LET req == request[u]
       IN  request' = [request EXCEPT ![u] =
            IF req.post.call = "posted" THEN [req EXCEPT !.stage = "mail", !.post = NoPost]
            ELSE Failed(req, "mail")]
    /\ UNCHANGED <<today, invoice, reminder, made, wizard, faults, history>>

\* Odoo sends the mails and commits, external.
EndBatch(u) ==
    /\ Sending(u, "mail")
    /\ request' = [request EXCEPT ![u] = Idle]
    /\ UNCHANGED <<today, invoice, reminder, made, wizard, faults, history>>

Next ==
    \/ ReminderNext
    \/ \E u \in Users :
        \/ SendInvoices(u)
        \/ SmsInvoice(u)
        \/ StartLetters(u)
        \/ EndLetters(u)
        \/ EndBatch(u)

Spec == Init /\ [][Next]_vars

-----------------------------------------------------------------------------
\* The letters of a campaign are printed together and whole, or not at all: no
\* error in _ekopost_post_pdfs closes a campaign with a letter missing or half
\* put in, and a batch whose mails leave has not lost its letters, save from the
\* batch job, which only logs (_hook_if_success: "Brevet före e-posten").
LettersWhole ==
    \A u \in Users : request[u] # Idle =>
        /\ Posting(u) /\ Printed(request[u].post) =>
            request[u].post.sealed = request[u].post.letters /\ ~request[u].post.loose
        /\ Sending(u, "mail") /\ request[u].failed # {} => request[u].cron

\* What an invoice says of its reminders is what was sent: the count is not lost
\* or doubled by requests at the same time, and the level is that of the reminder
\* sent last (_mark_sent).
InvoiceTellsReminders ==
    \A m \in Invoices :
        LET mine == {i \in DOMAIN order : m \in reminder[order[i]].moves}
        IN  /\ invoice[m].count = Cardinality(mine)
            /\ invoice[m].level = IF mine = {} THEN 0 ELSE reminder[order[Max(mine)]].level

\* What has left for a reminder is accounted for: by runs that were rolled back,
\* by those still running, and by the one that marked it sent.  A reminder that is
\* sent does not leave again (action_send takes drafts only, also when run again).
LeavesOnce ==
    \A r \in Reminders :
        copies[r] <= wasted[r]
                     + Cardinality({u \in Users : request[u] # Idle /\ r \in request[u].left})
                     + (IF reminder[r].state = "sent" THEN 1 ELSE 0)

Place(r) == CHOOSE i \in DOMAIN order : order[i] = r

\* An invoice rises from level to level.  A level comes again only when a
\* reminder prepared before the last one had been sent is sent after it
\* (_next_level, default_get).
LevelsRise ==
    \A r, s \in Sent :
        (/\ r \in knew[s]
         /\ reminder[r].moves \cap reminder[s].moves # {}
         /\ reminder[s].level <= reminder[r].level) =>
            \E t \in knew[s] : /\ r \notin knew[t]
                               /\ reminder[t].moves \cap reminder[r].moves # {}
                               /\ Place(r) < Place(t)

\* Once a second reminder is sent, the fees asked for with it are those of all
\* reminders sent for its invoices up to then, unless it was created before one of
\* them was sent (create_for, _previous_fee_amount_for).
FeesAskedFor ==
    \A s \in Sent :
        LET before == {r \in Sent : /\ Place(r) < Place(s)
                                    /\ reminder[r].moves \cap reminder[s].moves # {}}
        IN  /\ reminder[s].previous <= MapThenSumSet(LAMBDA r : LevelFee[reminder[r].level], before)
            /\ before \subseteq knew[s] =>
                reminder[s].previous = MapThenSumSet(LAMBDA r : LevelFee[reminder[r].level], before)
=============================================================================
