------------------------- MODULE MCIncomingPayments -------------------------
(* Two companies that number their invoices alike: one whose bank is         *)
(* Swedbank and has a feed by value day, one with a feed only.               *)
EXTENDS IncomingPayments

CONSTANTS swedbank, other, c1, c2, c3, i1, i2, j1, s1, swish, fee, deposit, credit

MCCompanies == {swedbank, other}
MCInvoices == {i1, i2, j1, s1}
MCInvoice ==
    LET Sale(company, year, seq, ref, customer, amount) ==
            [company |-> company, year |-> year, seq |-> seq, ref |-> ref,
             customer |-> customer, amount |-> amount]
    IN  (i1 :> Sale(swedbank, 2031, 42, 0, c1, 1)) @@ (i2 :> Sale(swedbank, 2031, 4, 0, c2, 1))
        @@ (j1 :> Sale(other, 2031, 42, 0, c3, 1)) @@ (s1 :> Sale(swedbank, 2030, 7, 2031, c1, 1))
MCBankOf == (c1 :> {swedbank}) @@ (c2 :> {swedbank, other}) @@ (c3 :> {other})

MCRuled == (swish :> Nobody) @@ (fee :> Nobody) @@ (deposit :> Nobody) @@ (credit :> Nobody)
MCPhones == (swish :> {c1}) @@ (fee :> {}) @@ (deposit :> {}) @@ (credit :> {})
MCReceiver == (swedbank :> swedbank) @@ (other :> NoReceiver)
MCLabelOf == deposit :> swedbank

\* Payers who give the OCR number, an invoice number with a zero left out, or only a name.
Paid(numbers, names, bg, amount) ==
    [amount |-> amount, names |-> names, printed |-> {}, bg |-> bg,
     refs |-> [k \in DOMAIN numbers |-> [number |-> numbers[k], amount |-> 1]]]
Deposit(text, txs) ==
    [text |-> text, txs |-> txs, amount |-> MapThenSumSet(LAMBDA k : txs[k].amount, DOMAIN txs)]

MCKinds ==
    (swedbank :> {[text |-> swish, txs |-> <<>>, amount |-> 1], [text |-> fee, txs |-> <<>>, amount |-> -1],
                  Deposit(deposit, <<Paid(<<Ocr[i1]>>, {}, NoPayer, 1)>>),
                  Deposit(deposit, <<Paid(<<>>, {c2}, c2, 1)>>)})
    @@ (other :> {Deposit(credit, <<Paid(<<Ocr[j1]>>, {}, c3, 1)>>),
                  Deposit(credit, <<Paid(<<Ocr[j1], 2031004>>, {}, c2, 2)>>)})
=============================================================================
