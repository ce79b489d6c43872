---------------------------- MODULE SwedbankCsv -----------------------------
(* Swedbank's statement export, as account_statement_import_swedbank_csv     *)
(* reads it: the id a row is known by in every later export, the order the   *)
(* file is sorted in, and the payer a text tells.                            *)
(*                                                                           *)
(* A row is [n, day, amount, text, saldo]; n is the payment's place in the   *)
(* bank's books, which no operator of the parser looks at. A line of the     *)
(* journal has the id it was imported under and its text.                    *)
EXTENDS Integers, Sequences, FiniteSets, SequencesExt, FiniteSetsExt

CONSTANTS
    NoSaldo,    \* a row whose balance column is empty
    Nobody,     \* no partner
    Ruled,      \* [texts -> partner a reconciliation model maps the text to, or Nobody]
    Phones      \* [texts -> customers one of whose contacts has the Swish number of the text]

-----------------------------------------------------------------------------
(* Ids                                                                       *)

\* Day, amount and balance; without a balance, the text in its place. The row's
\* number in the file is no part of it: it changes from export to export.
UniqueId(row) ==
    <<row.day, row.amount, IF row.saldo = NoSaldo THEN row.text ELSE row.saldo>>

\* The same sequence, computed once and not anew for every element asked of it.
Once(seq) == seq \o <<>>

\* Mutant: the later of two rows with one id is taken for the same payment.
Unnumbered(rows) == [i \in DOMAIN rows |-> <<UniqueId(rows[i]), 1>>]

\* The ids of rows sorted oldest first: rows that share one are numbered.
NumberedIds(rows) ==
    LET ids == Once([i \in DOMAIN rows |-> UniqueId(rows[i])])
    IN  [i \in DOMAIN rows |-> <<ids[i], Cardinality({j \in 1..i : ids[j] = ids[i]})>>]

-----------------------------------------------------------------------------
(* The order of the file                                                     *)

\* By the balance after each row, for every two rows that both have one.
OrderFromBalances(rows) ==
    LET Pairs  == {i \in 1..(Len(rows) - 1) : NoSaldo \notin {rows[i].saldo, rows[i + 1].saldo}}
        newest == \A i \in Pairs : rows[i].saldo = rows[i + 1].saldo + rows[i].amount
        oldest == \A i \in Pairs : rows[i + 1].saldo = rows[i].saldo + rows[i + 1].amount
    IN  IF Pairs = {} \/ ~(newest \/ oldest) THEN "unknown"
        ELSE IF newest /\ oldest THEN "both"
        ELSE IF newest THEN "newest" ELSE "oldest"

\* How well the ids of this reading agree with the texts stored under them.
Score(rows, lines) ==
    LET ids       == Once(NumberedIds(rows))
        Stored(i) == {l \in lines : l.id = ids[i]}
        Vote(i)   == IF Stored(i) = {} THEN 0
                     ELSE IF \E l \in Stored(i) : l.text = rows[i].text THEN 1 ELSE -1
    IN  MapThenSumSet(Vote, DOMAIN rows)

\* Mutant: what an earlier import stored is not asked.
NotAsked(rows, lines) == "unknown"

OrderFromExisting(rows, lines) ==
    LET newest == Score(Once(Reverse(rows)), lines)
        oldest == Score(rows, lines)
    IN  IF newest = oldest THEN "unknown" ELSE IF newest > oldest THEN "newest" ELSE "oldest"

OrderFromDates(rows) == IF rows[1].day >= rows[Len(rows)].day THEN "newest" ELSE "oldest"

FileOrder(rows, lines) ==
    LET told   == OrderFromBalances(rows)
        stored == IF told = "both" THEN OrderFromExisting(rows, lines) ELSE told
    IN  IF stored = "unknown" THEN OrderFromDates(rows) ELSE stored

\* History: neither the balances nor the lines of an earlier import can tell the order.
OrderUntold(rows, lines) ==
    LET Pairs(order)  == {i \in 1..(Len(order) - 1) : NoSaldo \notin {order[i].saldo, order[i + 1].saldo}}
        runs(order)   == \A i \in Pairs(order) : order[i + 1].saldo - order[i].saldo = order[i + 1].amount
        turned        == Once(Reverse(rows))
    IN  /\ runs(rows) <=> runs(turned)
        /\ runs(rows) /\ Pairs(rows) # {} => Score(rows, lines) = Score(turned, lines)

\* The transactions of a file, oldest first as the parser reads it, each under its id.
Parsed(rows, lines) ==
    LET sorted == IF FileOrder(rows, lines) = "newest" THEN Once(Reverse(rows)) ELSE rows
        ids    == Once(NumberedIds(sorted))
    IN  [i \in DOMAIN rows |-> [row |-> sorted[i], id |-> ids[i]]]

-----------------------------------------------------------------------------
(* The payer                                                                 *)

\* The customer with the Swish number of the text, when there is only one.
SwishOwner(text) ==
    IF Cardinality(Phones[text]) = 1 THEN CHOOSE c \in Phones[text] : TRUE ELSE Nobody

\* A reconciliation model comes first.
Payer(text) == IF Ruled[text] # Nobody THEN Ruled[text] ELSE SwishOwner(text)
=============================================================================
