----------------------------- MODULE MCWalletApp -----------------------------
(* WalletApp on small instances.                                           *)
EXTENDS WalletApp

CONSTANTS a, b

TwoAccounts == {<<>>, <<a>>, <<b, a>>}
NeverNone   == {<<a>>, <<b, a>>}

\* Round 1, with these tickets.
InRound(status, holders, closed) ==
  [EmptyBook EXCEPT !.current = 1, !.status[1] = status, !.holders[1] = holders, !.closed = closed]

OnSale == {InRound("ACTIVE", {}, FALSE)}

AnyStage ==
  {EmptyBook, InRound("ACTIVE", {}, FALSE), InRound("DRAWING", {a, b}, FALSE),
   InRound("CANCELLED", {a}, TRUE)}
===============================================================================
