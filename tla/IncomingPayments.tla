-------------------------- MODULE IncomingPayments --------------------------
(* Payments from the bank to the invoices they are for. A Swedbank export    *)
(* or an online feed brings them into the journal; an export also settles    *)
(* the invoices of Swish payments. A Bankgiro deposit is one line for many   *)
(* payers: the deposit file tells who they are and which invoices they pay,  *)
(* and the wizard finds the line, proposes the invoices and, when all is     *)
(* told, settles them.                                                       *)
EXTENDS SwedbankCsv, BankgirotMatch

CONSTANTS
    Companies,
    Kinds,          \* [Companies -> payments its bank may book: [amount, text, txs]]
    BareTexts,      \* texts of rows the bank prints no balance for
    SwishTexts,     \* texts with a Swish number
    LabelOf,        \* [texts "Bankgiro inbetalning" -> the company whose number they hold]
    CsvCompanies,   \* the companies whose bank is Swedbank
    FeedCompanies,  \* the companies with an online feed
    ValueDated,     \* the companies whose feed has the value day, DaysOff after the booking
    DaysOff,
    Registered,     \* the companies whose Bankgiro number is registered on them
    Automatic,      \* the companies whose journal settles by itself
    Receiver,       \* [Companies -> whose number its deposit files name as the receiver, or NoReceiver]
    NoReceiver,
    NoDeposit,      \* a line without a note of a deposit
    MaxDays,        \* bound: days
    MaxPayments,    \* bound: payments booked, of all companies
    MaxEvents       \* bound: payments booked, invoices credited, deposits imported

\* A deposit file names the company whose account the deposit is on, or nobody; the value day
\* is as near the booking as the import counts on.
ASSUME PaymentsAssumption ==
    /\ CsvCompanies \cup FeedCompanies \subseteq Companies
    /\ \A c \in Companies : Receiver[c] \in {c, NoReceiver}
    /\ NoReceiver \notin Registered
    /\ DaysOff \in 0..4
    /\ \A i \in Invoices : Invoice[i].amount \in Int
    /\ \A c \in Companies : \A kind \in Kinds[c] :
          /\ kind.amount \in Int
          /\ kind.txs \in Seq(Range(kind.txs))
          /\ \A k \in DOMAIN kind.txs : kind.txs[k].refs \in Seq(Range(kind.txs[k].refs))

VARIABLES
    today,
    book,       \* [Companies -> what its bank has booked, oldest first]
    lines,      \* bank statement lines
    residual,   \* [Invoices -> what is left to pay]
    partials,   \* account.partial.reconcile: [line, invoice, amount]
    events,     \* how many of those so far
    wizard,     \* the run of the deposit wizard, one transaction
    seen,       \* [Companies -> the payments some imported export had a row of]
    misread     \* [Companies -> the days of rows that share an id in a file read the wrong way round
                \* because nothing told its order]

vars == <<today, book, lines, residual, partials, events, wizard, seen, misread>>

IsDeposit(p) == p.txs # <<>>
Key(l) == <<l.company, l.channel, l.id>>
Total(settled) == SumFunction([p \in settled |-> p.amount])
Event == events < MaxEvents /\ events' = events + 1
NoRun == [open |-> FALSE, selected |-> {}, index |-> <<>>]

Init ==
    /\ today = 1
    /\ book = [c \in Companies |-> <<>>]
    /\ lines = {}
    /\ residual = [i \in Invoices |-> IF IsSie(i) THEN 0 ELSE Invoice[i].amount]
    /\ partials = {}
    /\ events = 0
    /\ wizard = NoRun
    /\ seen = [c \in Companies |-> {}]
    /\ misread = [c \in Companies |-> {}]

-----------------------------------------------------------------------------
(* The bank, and who pays by other ways                                      *)

Balance(c) == FoldLeft(LAMBDA sum, p : sum + p.amount, 0, book[c])

Book(c, kind) ==
    /\ ~wizard.open
    /\ MapThenSumSet(LAMBDA x : Len(book[x]), Companies) < MaxPayments
    /\ Event
    /\ book' = [book EXCEPT ![c] = Append(@,
         [n |-> Len(@) + 1, day |-> today, amount |-> kind.amount, text |-> kind.text, txs |-> kind.txs,
          saldo |-> IF kind.text \in BareTexts THEN NoSaldo ELSE Balance(c) + kind.amount])]
    /\ UNCHANGED <<today, lines, residual, partials, wizard, seen, misread>>

NextDay ==
    /\ ~wizard.open
    /\ today < MaxDays
    /\ today' = today + 1
    /\ UNCHANGED <<book, lines, residual, partials, events, wizard, seen, misread>>

\* An invoice is credited, or paid in a way that leaves no line here.
Credit(i) ==
    /\ ~wizard.open
    /\ Event
    /\ residual[i] > 0
    /\ residual' = [residual EXCEPT ![i] = 0]
    /\ UNCHANGED <<today, book, lines, partials, wizard, seen, misread>>

-----------------------------------------------------------------------------
(* Settling invoices with a line: account_reconcile_oca                      *)

Books == [lines |-> lines, residual |-> residual, partials |-> partials]

\* What each of the invoices, added to the line in this order, gets of its money.
Share(db, l, invoices, k) ==
    LET before == SumFunctionOnSet([j \in DOMAIN invoices |-> db.residual[invoices[j]]], 1..(k - 1))
    IN  Max({0, Min({db.residual[invoices[k]], l.amount - before})})

Settle(db, l, invoices) ==
    [lines    |-> (db.lines \ {l}) \cup {[l EXCEPT !.reconciled = TRUE, !.proposal = {}]},
     residual |-> [i \in Invoices |->
         db.residual[i] - SumFunctionOnSet([k \in DOMAIN invoices |-> Share(db, l, invoices, k)],
                                           {k \in DOMAIN invoices : invoices[k] = i})],
     partials |-> db.partials \cup
         {[line |-> Key(l), invoice |-> invoices[k], amount |-> Share(db, l, invoices, k)] :
             k \in {k \in DOMAIN invoices : Share(db, l, invoices, k) > 0}}]

\* The only open invoice of the payer with just this amount left.
SwishInvoices(db, l) ==
    {i \in OfCompany(l.company) :
        ~IsSie(i) /\ Invoice[i].customer = l.partner /\ db.residual[i] = l.amount}

SwishReconciled(db, l) ==
    IF /\ l.amount > 0 /\ l.partner # Nobody
       /\ l.text \in SwishTexts /\ l.company \in Automatic
       /\ Cardinality(SwishInvoices(db, l)) = 1
    THEN Settle(db, l, <<CHOOSE i \in SwishInvoices(db, l) : TRUE>>)
    ELSE db

\* The new lines of those read, in turn.
SwishSettled(db, new, read) ==
    FoldLeft(LAMBDA books, l : IF l \in new THEN SwishReconciled(books, l) ELSE books, db, read)

-----------------------------------------------------------------------------
(* Payments into the journal                                                 *)

NewLine(c, channel, n, day, id, told, partner) ==
    [company |-> c, channel |-> channel, n |-> n, day |-> day, amount |-> book[c][n].amount,
     text |-> book[c][n].text, id |-> id, told |-> told, partner |-> partner,
     note |-> NoDeposit, match |-> <<>>, proposal |-> {}, reconciled |-> FALSE]

\* Mutant: the feed is taken to have the booking day.
SameDay(c) == 0

\* How many days off a line of the feed can be.
LookAlikeDays(c) == IF c \in ValueDated THEN 4 ELSE 0

\* Another channel has brought in a payment of this day and amount.
LooksAlike(c, channel, day, amount) ==
    \E l \in lines :
        /\ l.company = c /\ l.channel = channel
        /\ l.day \in (day - LookAlikeDays(c))..(day + LookAlikeDays(c))
        /\ l.amount = amount

\* The day the feed gives a payment.
FeedDay(c, n) == book[c][n].day + (IF c \in ValueDated THEN DaysOff ELSE 0)

\* Mutant: the pull does not look for lines of a file.
UntoldLine(c, n) == NewLine(c, "feed", n, FeedDay(c, n), <<n>>, FALSE, SwishOwner(book[c][n].text))

FeedLine(c, n) ==
    NewLine(c, "feed", n, FeedDay(c, n), <<n>>, LooksAlike(c, "csv", FeedDay(c, n), book[c][n].amount),
            SwishOwner(book[c][n].text))

\* The online feed brings in what the bank has booked since, under ids of its own, and tells
\* of lines like those of a file. Of the new lines, Swish payments settle their invoices.
Feed(c) ==
    LET brought == {l.n : l \in {l \in lines : l.company = c /\ l.channel = "feed"}}
        new     == DOMAIN book[c] \ brought
    IN  /\ ~wizard.open
        /\ \E order \in SetToSeqs(new) :
              LET read == Once([k \in DOMAIN order |-> FeedLine(c, order[k])])
                  db   == SwishSettled([Books EXCEPT !.lines = @ \cup Range(read)], Range(read), read)
              IN  lines' = db.lines /\ residual' = db.residual /\ partials' = db.partials
        /\ UNCHANGED <<today, book, events, wizard, seen, misread>>

\* The files that can be imported, as the payments of their rows: exports from a day on, made
\* when the bank had booked so many payments, sorted the way the internet bank was set.
Files(c) ==
    LET from(day) == Cardinality({n \in DOMAIN book[c] : book[c][n].day < day}) + 1
        exports   == {[k \in 1..(made - f + 1) |-> k + f - 1] :
                         f \in {from(day) : day \in 1..today}, made \in DOMAIN book[c]} \ {<<>>}
    IN  exports \cup {Reverse(export) : export \in exports}

\* The days of rows that share an id.
SharedDays(rows) ==
    {rows[j].day : j \in {j \in DOMAIN rows :
        \E k \in DOMAIN rows \ {j} : UniqueId(rows[j]) = UniqueId(rows[k])}}

\* A file is imported: the rows not imported before become lines, and Swish payments settle
\* their invoices.
ImportCsv(c, file) ==
    LET rows   == Once([k \in DOMAIN file |-> book[c][file[k]]])
        mine   == {l \in lines : l.company = c /\ l.channel = "csv"}
        stored == {l.id : l \in mine}
    IN  /\ ~wizard.open
        /\ \E parsed \in {Parsed(rows, mine)} :
              LET read == Once([k \in DOMAIN parsed |->
                              NewLine(c, "csv", parsed[k].row.n, parsed[k].row.day, parsed[k].id,
                                      LooksAlike(c, "feed", parsed[k].row.day, parsed[k].row.amount),
                                      Payer(parsed[k].row.text))])
                  new  == {l \in Range(read) : l.id \notin stored}
                  db   == SwishSettled([Books EXCEPT !.lines = @ \cup new], new, read)
              IN  /\ lines' = db.lines /\ residual' = db.residual /\ partials' = db.partials
                  /\ misread' = [misread EXCEPT ![c] = @ \cup
                       IF /\ OrderUntold(rows, mine)
                          /\ \E k \in 2..Len(parsed) : parsed[k].row.n < parsed[k - 1].row.n
                       THEN SharedDays(rows) ELSE {}]
        /\ seen' = [seen EXCEPT ![c] = @ \cup Range(file)]
        /\ UNCHANGED <<today, book, events, wizard>>

-----------------------------------------------------------------------------
(* The deposit wizard                                                        *)

\* The first deposit of a run opens it, with the companies selected in the company switcher.
Run(selected) == IF wizard.open THEN wizard ELSE [open |-> TRUE, selected |-> selected, index |-> <<>>]

EndRun ==
    /\ wizard.open
    /\ wizard' = NoRun
    /\ UNCHANGED <<today, book, lines, residual, partials, events, seen, misread>>

Labelled(l) == l.text \in DOMAIN LabelOf

\* The companies whose lines are looked at: the receiver's, if it is known and selected.
Searched(run, receiver) == run.selected \cap (IF receiver \in Registered THEN {receiver} ELSE Companies)

\* The bank lines the deposit may be: any labelled line, else one not reconciled yet;
\* of several, those that hold the receiver's number.
StatementLines(run, p, receiver) ==
    LET equal    == {l \in lines : l.company \in Searched(run, receiver) /\ l.day = p.day /\ l.amount = p.amount}
        labelled == {l \in equal : Labelled(l)}
        found    == IF labelled # {} THEN labelled ELSE {l \in equal : ~l.reconciled}
        numbered == {l \in found : Labelled(l) /\ LabelOf[l.text] = receiver}
    IN  IF Cardinality(found) > 1 /\ numbered # {} THEN numbered ELSE found

\* The open invoices and SIE entries of a company, looked up once in a run.
Index(run, company) ==
    IF company \in DOMAIN run.index THEN run.index[company]
    ELSE {i \in Scope(company) : IsSie(i) \/ residual[i] > 0}

\* Mutant: a line that is reconciled is reconciled anew.
AnyLine(l) == TRUE

Proposable(l) == ~l.reconciled

\* Distinct open invoices, in the order of the details.
Proposed(match) ==
    LET first(k) == match[k] # NoInvoice /\ residual[match[k]] > 0 /\ \A j \in 1..(k - 1) : match[j] # match[k]
    IN  [k \in 1..Cardinality({j \in DOMAIN match : first(j)}) |->
            match[CHOOSE j \in DOMAIN match : first(j) /\ Cardinality({h \in 1..j : first(h)}) = k]]

\* Whether the added invoices take all of the line's money: they may when they are more than it.
Balances(l, invoices) ==
    LET sum == MapThenSumSet(LAMBDA k : residual[invoices[k]], DOMAIN invoices)
    IN  IF sum > l.amount THEN BOOLEAN ELSE {sum = l.amount}

\* The line is annotated with the payers, the invoices are proposed on it, and
\* settled at once when each detail has one of its own and they balance.
Enrich(l, deposit, details, match) ==
    LET c        == l.company
        payers   == {PayerOf(c, details[k], match[k], residual) : k \in DOMAIN details} \ {NoPayer}
        noted    == [l EXCEPT !.partner = IF Cardinality(payers) = 1 THEN CHOOSE p \in payers : TRUE ELSE @,
                              !.note = deposit, !.match = match]
        invoices == Proposed(match)
        proposed == IF invoices = <<>> \/ ~Proposable(l) THEN noted
                    ELSE [noted EXCEPT !.proposal = Range(invoices)]
        db       == [Books EXCEPT !.lines = (@ \ {l}) \cup {proposed}]
    IN  \E balanced \in Balances(l, invoices) :
            LET after == IF /\ Proposable(l) /\ c \in Automatic /\ invoices # <<>>
                            /\ balanced /\ Len(invoices) = Len(details)
                         THEN Settle(db, proposed, invoices) ELSE db
            IN  lines' = after.lines /\ residual' = after.residual /\ partials' = after.partials

ImportDeposit(c, n, selected) ==
    LET p       == book[c][n]
        run     == Run(selected)
        details == Details(p.txs)
    IN  /\ Event
        /\ IsDeposit(p)
        /\ \E l \in StatementLines(run, p, Receiver[c]) :
              LET index == Index(run, l.company)
              IN  /\ wizard' = [run EXCEPT !.index = [x \in DOMAIN @ \cup {l.company} |-> Index(run, x)]]
                  /\ \E match \in [DOMAIN details -> Invoices \cup {NoInvoice}] :
                        /\ \A k \in DOMAIN details :
                              match[k] \in FindInvoice(l.company, details[k], index, residual)
                        /\ Enrich(l, [company |-> c, n |-> n], details, match)
        /\ UNCHANGED <<today, book, seen, misread>>

-----------------------------------------------------------------------------
Next ==
    \/ \E c \in Companies : \E kind \in Kinds[c] : Book(c, kind)
    \/ NextDay
    \/ \E i \in Invoices : Credit(i)
    \/ \E c \in FeedCompanies : Feed(c)
    \/ \E c \in CsvCompanies : \E file \in Files(c) : ImportCsv(c, file)
    \/ \E c \in Companies, selected \in (SUBSET Companies) \ {{}} : \E n \in DOMAIN book[c] :
          /\ wizard.open => selected = wizard.selected
          /\ ImportDeposit(c, n, selected)
    \/ EndRun

Spec == Init /\ [][Next]_vars

-----------------------------------------------------------------------------
(* Properties                                                                *)

\* Every payment an imported export had a row of is in the journal once, however the exports
\* overlap, whatever came first and whichever way they are sorted: save on days whose rows share
\* an id and were once read the wrong way round because neither the balances nor the lines of an
\* earlier import told the order (_parse_swedbank_csv).
OncePerPayment ==
    \A c \in CsvCompanies : \A n \in seen[c] :
        LET Alike(r) == r.day = book[c][n].day /\ r.amount = book[c][n].amount /\ r.text = book[c][n].text
        IN  book[c][n].day \notin misread[c] =>
                Cardinality({l \in lines : l.company = c /\ l.channel = "csv" /\ Alike(l)})
                = Cardinality({m \in seen[c] : Alike(book[c][m])})

\* A payment that one channel brought in before is told of when the other brings it in again,
\* whichever came first, also when the feed dates it by its value day (_swedbank_look_alikes,
\* _enable_banking_file_look_alikes).
DoublesTold ==
    [][\A l \in lines' \ lines :
        /\ ~\E k \in lines : Key(k) = Key(l)
        /\ \E f \in lines : f.channel # l.channel /\ f.company = l.company /\ f.n = l.n
        => l.told]_vars

\* A deposit to a registered Bankgiro number only touches a line of its own company, and whatever is
\* matched or proposed on a line is an invoice of that company, though each company has one of the
\* same number and OCR number.
OwnCompany ==
    \A l \in lines :
        /\ (l.note # NoDeposit /\ Receiver[l.note.company] \in Registered) => l.company = l.note.company
        /\ \A i \in (Range(l.match) \ {NoInvoice}) \cup l.proposal : Invoice[i].company = l.company

\* A number that names one of the company's invoices exactly ends on that invoice or on none, when
\* no other is written out beside it: when it is no longer open, no other invoice is guessed.
NamedOrNothing ==
    \A l \in lines : l.note # NoDeposit =>
        LET details == Details(book[l.note.company][l.note.n].txs)
            named(k) == Exact(details[k], OfCompany(l.company))
        IN  \A k \in DOMAIN details :
                (named(k) # {} /\ Printed(details[k], OfCompany(l.company)) \subseteq named(k)) =>
                    l.match[k] \in named(k) \cup {NoInvoice}

\* The money of a line settles invoices once: a deposit that comes again, or an equal one of the
\* same day that ends on the same line, settles nothing more with it.
MoneyOnce ==
    \A l \in lines : Total({p \in partials : p.line = Key(l)}) <= l.amount \/ l.amount < 0
=============================================================================
