--------------------------- MODULE BankgirotMatch ---------------------------
(* Which invoice a payment to the Bankgiro number is for, as                 *)
(* account_statement_import_bankgirot_xlsx decides it from what the payer    *)
(* typed, and the OCR numbers l10n_se_ocr gives the invoices.                *)
(*                                                                           *)
(* An invoice is numbered <prefix>/<year>/<seq>, seq in four digits; an      *)
(* entry of a SIE import has the number of its invoice in ref. What a payer  *)
(* typed is a detail [numbers, printed, names, bg, amount]: the long numbers *)
(* in the text, the invoice numbers written out, the customers named, and    *)
(* the customer whose Bankgiro it came from.                                 *)
EXTENDS Integers, Sequences, FiniteSets, SequencesExt, FiniteSetsExt

CONSTANTS
    Invoices,   \* customer invoices and, with ref # 0, sales entries of a SIE import
    Invoice,    \* [Invoices -> [company, year, seq, ref, customer, amount]]
    BankOf,     \* [customers -> the companies that see the customer's bank account]
    NoInvoice,
    NoPayer

IsSie(i) == Invoice[i].ref # 0
OfCompany(company) == {i \in Invoices : Invoice[i].company = company}

-----------------------------------------------------------------------------
(* Numbers and check digits                                                  *)

Width(n) == CHOOSE w \in 1..9 : 10^(w - 1) <= n /\ n < 10^w

\* The sum of modulus 10, the last digit counted once.
Mod10Sum(n) ==
    LET Weighed(k) == LET d == ((n \div 10^k) % 10) * (IF k % 2 = 1 THEN 2 ELSE 1)
                      IN  IF d > 9 THEN d - 9 ELSE d
    IN  MapThenSumSet(Weighed, 0..8)

Mod10Ok(n) == Mod10Sum(n) % 10 = 0

\* The digits of an invoice's number, and its OCR number: the digits and a check digit.
Digits == [i \in Invoices |-> Invoice[i].year * 10000 + Invoice[i].seq]
Ocr == [i \in Invoices |-> Digits[i] * 10 + ((10 - (Mod10Sum(Digits[i] * 10) % 10)) % 10)]

-----------------------------------------------------------------------------
(* What a deposit file says                                                  *)

\* A payment of a camt.054 entry: one detail for each reference when each has
\* its own amount and they add up to the payment, otherwise one with them all.
Split(tx) ==
    LET Paid(k) == tx.refs[k].amount
        Told(numbers, amount) == [numbers |-> numbers, amount |-> amount,
                                  printed |-> tx.printed, names |-> tx.names, bg |-> tx.bg]
    IN  IF /\ Len(tx.refs) > 1
           /\ \A k \in DOMAIN tx.refs : Paid(k) # 0
           /\ MapThenSumSet(Paid, DOMAIN tx.refs) = tx.amount
        THEN [k \in DOMAIN tx.refs |-> Told(<<tx.refs[k].number>>, Paid(k))]
        ELSE <<Told([k \in DOMAIN tx.refs |-> tx.refs[k].number], tx.amount)>>

Details(txs) == FlattenSeq([k \in DOMAIN txs |-> Split(txs[k])])

-----------------------------------------------------------------------------
(* The invoice of a detail                                                   *)

\* Mutant: every company's invoices.
AnyCompany(company) == Invoices

\* The invoices a payment to this company may be for.
Scope(company) == OfCompany(company)

\* The invoices whose OCR number or digits the detail has, and with those written out.
Exact(d, index) ==
    {i \in index : \E k \in DOMAIN d.numbers :
        d.numbers[k] = Digits[i] \/ (~IsSie(i) /\ d.numbers[k] = Ocr[i])}
Printed(d, index) == {i \in index : <<Invoice[i].year, Invoice[i].seq>> \in d.printed}

\* Mutant: an invoice that is no longer open is not looked for.
SettledUnseen(company, d, residual) == {}

\* The invoices the reference names, when none of them is open any more.
SettledNamed(company, d, residual) ==
    LET named == {i \in Exact(d, Scope(company)) \cup Printed(d, Scope(company)) : ~IsSie(i)}
    IN  IF \E i \in named : residual[i] > 0 THEN {} ELSE named

\* The numbers to try for a reference of one number, with the year they are bound to.
Candidates(d) ==
    LET n     == d.numbers[1]
        tail  == 10^(Width(n) - 4)
        short == Mod10Ok(n)
        year  == n \div tail
        seq   == IF short THEN (n % tail) \div 10 ELSE n % tail
        \* whether seq, its zeros included, is as long as the printed number or can be padded to it
        long  == (Width(n) - 4 - (IF short THEN 1 ELSE 0)) \in {3, 4} \/ seq >= 100
    IN  IF Len(d.numbers) # 1 THEN <<>>
        ELSE [k \in 1..3 |-> [number |-> n \div 10^(k - 1), year |-> 0, whole |-> FALSE]]
             \o (IF Width(n) > 5 /\ year \in 2000..2099
                 THEN <<[number |-> seq, year |-> year, whole |-> long]>> ELSE <<>>)

\* Those a candidate fits: by the end of the invoice's number, else by the number a SIE entry gives.
Fitting(c, index) ==
    LET inYear(i) == c.year \in {0, Invoice[i].year, Invoice[i].seq}
        byName == {i \in index : inYear(i) /\ Invoice[i].seq = c.number /\ (c.whole \/ c.number >= 100)}
        byRef  == {i \in index : IsSie(i) /\ c.year = 0 /\ Invoice[i].ref = c.number}
    IN  IF byName # {} THEN byName ELSE byRef

\* What the first of these that has something has.
FirstHit(found) ==
    LET hits == {k \in DOMAIN found : found[k] # {}}
    IN  IF hits = {} THEN {} ELSE found[Min(hits)]

ByCandidates(d, index) ==
    FirstHit([k \in DOMAIN Candidates(d) |-> Fitting(Candidates(d)[k], index)])

ByName(d, index, residual) ==
    LET hits == {i \in index : Invoice[i].customer \in d.names}
        same == {i \in hits : residual[i] = d.amount}
    IN  IF Cardinality(hits) = 1 THEN hits ELSE IF Cardinality(same) = 1 THEN same ELSE {}

ByAmount(d, index, residual) ==
    LET same == {i \in index : residual[i] = d.amount}
    IN  IF Cardinality(same) = 1 THEN same ELSE {}

\* The invoices the wizard may take for the detail: any one of the first rule that has some.
FindInvoice(company, d, index, residual) ==
    LET found == FirstHit(<<ByName(d, index, residual), Printed(d, index),
                            ByCandidates(d, index), ByAmount(d, index, residual)>>)
    IN  IF Exact(d, index) # {} THEN Exact(d, index)
        ELSE IF SettledNamed(company, d, residual) # {} \/ found = {} THEN {NoInvoice}
        ELSE found

\* The payer of a detail: of its invoice, open or not (of several the newest is taken, any one
\* here), else by the Bankgiro number it came from.
PayerOf(company, d, match, residual) ==
    LET known == IF match # NoInvoice THEN {match} ELSE SettledNamed(company, d, residual)
    IN  IF known # {} THEN Invoice[CHOOSE i \in known : TRUE].customer
        ELSE IF d.bg # NoPayer /\ company \in BankOf[d.bg] THEN d.bg
        ELSE NoPayer
=============================================================================
