---------------------------- MODULE MCSepoliaCheck ----------------------------
(* Two test wallets, the owner's the examiner's too, and an outsider. *)
EXTENDS SepoliaCheck

CONSTANTS o, a, x
TwoWallets   == {o, a}
OneExaminer  == {o}
Accounts     == {o, a, x}
===============================================================================
