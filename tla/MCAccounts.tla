----------------------------- MODULE MCAccounts -----------------------------
(* Small values for the constants of Accounts. *)
EXTENDS Accounts, TLC

CONSTANTS t1, t2, p1, p2, f1, f2, w1, w2, c1, c2, k1, k2, v1, v2

TwoThreads == {t1, t2}
TwoPhones == {p1, p2}
OnePath == {f1}
TwoPasswords == {w1, w2}
TwoCodes == {c1, c2}
OneToken == {k1}
OneField == {"api_key"}
TwoValues == {v1, v2}

(* Two ways to write one number. *)
SameFile == [p \in Phones |-> f1]

Interchangeable == Permutations(TwoThreads) \cup Permutations(TwoPhones)
                       \cup Permutations(TwoPasswords) \cup Permutations(TwoCodes)
=============================================================================
