--------------------------- MODULE MCLotterySystem ----------------------------
(* LotterySystem on a small instance.                                      *)
EXTENDS LotterySystem, TLC

CONSTANTS a, b, dao, lotteryContract, strayContract, none, r1, r2, r0

AllThree == {a, b, dao}    \* the DAO plays too
TwoRequests == {r1, r2}
TwoWords == {0, 2}         \* the first ticket, and the third, which may be unsold
===============================================================================
