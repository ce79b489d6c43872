-------------------------- MODULE MCSebPaymentFile --------------------------
(* Small instances of SebPaymentFile.                                        *)
EXTENDS SebPaymentFile, TLC

CONSTANTS b1, u1, u2

OneBill == {b1}

UserSymmetry == Permutations({u1, u2})
=============================================================================
