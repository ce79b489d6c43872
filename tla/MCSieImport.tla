---------------------------- MODULE MCSieImport ------------------------------
(* Small instance of SieImport: two years of one voucher each; the second     *)
(* one does not open with what the first one closed with.                     *)
EXTENDS SieImport

MCVouchers == <<<<1>>, <<2>>>>
MCFileOpening == <<4, 13>>

Choice(years, opening, diffs) == [years |-> years, opening |-> opening, diffs |-> diffs]

MCSelections ==
    {Choice({1}, TRUE, TRUE), Choice({2}, FALSE, TRUE), Choice({2}, TRUE, FALSE), Choice({1, 2}, TRUE, TRUE)}
=============================================================================
