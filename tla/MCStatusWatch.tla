--------------------------- MODULE MCStatusWatch ----------------------------
(* Small instance of StatusWatch: numbers that work and one whose data        *)
(* source is down; a sole trader may have two businesses under a number, and  *)
(* a company may be registered at an address abroad.                          *)
EXTENDS StatusWatch

Org(no, name, deregistered, procedure, note, land) ==
    [found |-> TRUE, no |-> no, name |-> name, deregistered |-> deregistered, procedure |-> procedure,
     active |-> TRUE, note |-> note, land |-> land]

Trading == Org(1, "own", FALSE, FALSE, "none", "home")
Bankrupt == Org(1, "own", FALSE, TRUE, "bankrupt", "abroad")
Closed == Org(1, "own", TRUE, FALSE, "closed", "unknown")
Other == Org(2, "other", FALSE, FALSE, "none", "unknown")

MCAnswers == {<<Trading>>, <<Bankrupt>>, <<Closed>>, <<Closed, Other>>}

Contact(company_registry, vat, abroad) ==
    [company_registry |-> company_registry, vat |-> vat, abroad |-> abroad]

\* The last two are partners abroad, with a Swedish VAT number and with no number.
MCContacts ==
    {Contact("works", "none", FALSE), Contact("down", "none", FALSE), Contact("works", "vat", FALSE),
     Contact("none", "vat", TRUE), Contact("works", "none", TRUE)}

\* At first every name is a registered one, of companies that trade but for that of the
\* VAT number, and the partners are at home, the last with a number that works.
MCInit ==
    /\ Init
    /\ \A p \in Partners :
        /\ partner[p].name = "own" /\ ~partner[p].abroad
    /\ partner[PartnerCount].company_registry = "works" /\ partner[PartnerCount].vat = "none"
    /\ \A n \in Numbers : registry[n] = IF n = "vat" THEN <<Bankrupt>> ELSE <<Trading>>

MCSpec == MCInit /\ [][Next]_vars /\ WF_vars(Check \/ EndCheck)
=============================================================================
