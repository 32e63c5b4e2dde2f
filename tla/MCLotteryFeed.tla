----------------------------- MODULE MCLotteryFeed -----------------------------
(* LotteryFeed on a small instance, the DAO among the players.              *)
EXTENDS LotteryFeed, DLotteryRounds, TLC

CONSTANTS a, b, dao, lottery, none, nil, r1, r2, r0

DaoAndTwo == {a, b, dao}
Requests2 == {r1, r2}

\* The reduction modulo Numbers wraps for the last one.
WrappingWords == 1..Numbers

SameUsers == Permutations(Requests2) \union Permutations({a, b})
===============================================================================
