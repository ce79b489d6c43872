---------------------------- MODULE MCInvoiceSend ----------------------------
(* Small instance of InvoiceSend: two invoices of one customer, two levels.  *)
EXTENDS InvoiceSend

CONSTANTS m1, m2, c1, u1, u2, ShortDays, ShortReminders

MCInvoices == {m1, m2}
MCCustomer == [m \in {m1, m2} |-> c1]
MCBatches == {[texts |-> {m1, m2}, letters |-> {m1, m2}]}
MCDue == (m1 :> 0) @@ (m2 :> 2)
MCLevelDays == <<1, 2>>
MCLevelFee == <<1, 2>>
MCChannels == <<{"sms", "email", "manual"}, {"ekopost", "manual"}>>

Running == {u \in Users : request[u] # Idle}

\* The reminders prepared, those of a request in progress included.
Rows ==
    {row \in Range(reminder) : row # NoRow}
    \cup UNION {Range(request[u].fresh) : u \in {v \in Running : request[v].kind = "wizard"}}

\* A batch of invoices is followed while nothing else runs; it shares no row with the
\* reminders.
BatchAlone ==
    (\E u \in Running : request[u].kind = "invoices") =>
        Cardinality(Running) = 1 /\ made = 0 /\ today = 0

\* Bound: a few reminders by every channel, of requests that run at the same time, and
\* with a delivery that goes wrong, a payment or a cancellation ...
Short ==
    /\ made <= ShortReminders /\ today <= ShortDays
    /\ \A row \in Rows : ~(row.level = 1 /\ row.channel = "manual")
    /\ BatchAlone

\* ... and as many as there are, handed over by hand on the later days, when both are due:
\* prepared side by side and sent in any order, but from one dialog at a time.
LongByHand ==
    /\ today <= ShortDays => \A u \in Users : wizard[u].lines = {}
    /\ Cardinality(Running \cup {u \in Users : wizard[u].lines # {}}) <= 1
    /\ \A row \in Rows : row.channel = "manual"
    /\ \A u \in Running : request[u].kind # "invoices"
    /\ OthersSoFar = 0

ShortOrByHand == Short \/ LongByHand

UserSymmetry == Permutations(Users)
=============================================================================
