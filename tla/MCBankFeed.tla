---------------------------- MODULE MCBankFeed -------------------------------
(* Small instance of BankFeed: two accounts at a bank that allows one session. *)
EXTENDS BankFeed, TLC

CONSTANTS a1, a2

MCAccounts == {a1, a2}

\* While a scheduled pull runs, the bank books payments and ends sessions, a consent is
\* given and a user pulls by hand; the rest happens between the scheduled pulls.  One
\* authorisation is under way at a time, and nothing is booked on the last day.
Overlapping ==
    /\ tx # None /\ tx' = tx =>
        booked' # booked \/ granted' # granted \/ \E a \in Accounts : prov'[a].pulls # prov[a].pulls
    /\ Cardinality({a \in Accounts : prov'[a].auth}) <= 1
    /\ booked' # booked => day < LastDay

Symmetry == Permutations(MCAccounts)
=============================================================================
