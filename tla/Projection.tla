------------------------------- MODULE Projection -------------------------------
(***************************************************************************)
(* backend/internal/lottery/model.go: what one decoded event does to the   *)
(* read model of its round, and when it is refused.  A refused event makes *)
(* the whole block fail, and the indexer tries that block again for ever.  *)
(*                                                                         *)
(* Amounts and ids are decimal strings in the code and numbers here;       *)
(* start and finalisation times are only displayed and are left out.       *)
(***************************************************************************)
EXTENDS Integers

CONSTANTS
  NoDraw,           \* no row for the round
  NoOne,            \* a ticket without a wallet, a round without a winner
  NoRequest,
  Numbers,          \* tickets on the board, the 10 of model.go
  MaxParticipants   \* a sold-out round, the 5 of model.go

Board == 1..Numbers

StartedDraw(e) ==
  [ status |-> "ACTIVE", deadline |-> e.deadline, ticketPrice |-> e.ticketPrice,
    minimumParticipants |-> e.minimumParticipants, participantCount |-> 0,
    luckyNumber |-> 0, winner |-> NoOne, pool |-> e.inheritedRollover,
    inheritedRollover |-> e.inheritedRollover, rollover |-> 0, daoFee |-> 0,
    winnerPrize |-> 0, prizeClaimed |-> FALSE, daoFeePaid |-> 0, requestId |-> NoRequest,
    tickets |-> [n \in Board |-> [wallet |-> NoOne, refunded |-> FALSE]] ]

\* Altered: the event is expected to carry the count before the purchase.
AcceptsTicketCountedBefore(d, e) ==
  /\ d.status = "ACTIVE"
  /\ e.ticketNumber \in Board
  /\ d.tickets[e.ticketNumber].wallet = NoOne
  /\ e.participantCount = d.participantCount
  /\ \A n \in Board : d.tickets[n].wallet # e.buyer

AcceptsTicket(d, e) ==
  /\ d.status = "ACTIVE"
  /\ e.ticketNumber \in Board
  /\ d.tickets[e.ticketNumber].wallet = NoOne
  /\ e.participantCount = d.participantCount + 1
  /\ \A n \in Board : d.tickets[n].wallet # e.buyer

AcceptsPrizeClaim(d, e) ==
  /\ d.status = "WINNER_DECLARED"
  /\ d.winner = e.winner /\ d.winner # NoOne
  /\ d.winnerPrize = e.amount /\ d.daoFee = e.daoFee

\* The ticket a refund is for: bought by the participant and not refunded yet.
RefundableTickets(d, e) ==
  {n \in Board : d.tickets[n].wallet = e.participant /\ ~d.tickets[n].refunded}

AcceptsRefund(d, e) ==
  /\ d.status = "CANCELLED"
  /\ e.amount = d.ticketPrice
  /\ RefundableTickets(d, e) # {}

Accepts(d, e) ==
  IF e.name = "DrawStarted" THEN d = NoDraw
  ELSE /\ d # NoDraw
       /\ \/ e.name = "TicketBought" /\ AcceptsTicket(d, e)
          \/ e.name = "RandomnessRequested" /\ d.status = "ACTIVE"
          \/ e.name = "LotteryDrawn" /\ d.status = "DRAWING" /\ e.luckyNumber \in Board
          \/ e.name = "DrawCancelled" /\ d.status = "ACTIVE"
          \/ e.name = "PrizeClaimed" /\ AcceptsPrizeClaim(d, e)
          \/ e.name = "RefundClaimed" /\ AcceptsRefund(d, e)

CancelledDraw(d, e) == [d EXCEPT !.status = "CANCELLED", !.rollover = e.rollover]

DrawnDraw(d, e) ==
  [d EXCEPT !.status = IF e.winner = NoOne THEN "NO_WINNER" ELSE "WINNER_DECLARED",
            !.luckyNumber = e.luckyNumber, !.winner = e.winner, !.pool = e.pool,
            !.daoFee = e.daoFee, !.winnerPrize = e.winnerPrize, !.rollover = e.rollover]

\* Altered: the first ticket on the board is marked, whoever bought it.
RefundedFirstTicket(d, e) == [d EXCEPT !.tickets[1].refunded = TRUE]

RefundedDraw(d, e) ==
  LET n == CHOOSE n \in RefundableTickets(d, e) : \A m \in RefundableTickets(d, e) : n <= m
  IN  [d EXCEPT !.tickets[n].refunded = TRUE]

\* The read model after an accepted event.
Apply(d, e) ==
  CASE e.name = "DrawStarted"         -> StartedDraw(e)
    [] e.name = "TicketBought"        ->
         [d EXCEPT !.tickets[e.ticketNumber].wallet = e.buyer,
                   !.participantCount = e.participantCount, !.pool = e.pool]
    [] e.name = "RandomnessRequested" -> [d EXCEPT !.status = "DRAWING", !.requestId = e.requestId]
    [] e.name = "LotteryDrawn"        -> DrawnDraw(d, e)
    [] e.name = "DrawCancelled"       -> CancelledDraw(d, e)
    [] e.name = "PrizeClaimed"        ->
         [d EXCEPT !.status = "COMPLETED", !.prizeClaimed = TRUE, !.daoFeePaid = e.daoFee]
    [] e.name = "RefundClaimed"       -> RefundedDraw(d, e)

\* Refresh: whether the draw of a round is offered at a block's time.
OffersDraw(d, time) ==
  d.status = "ACTIVE" /\ (d.participantCount = MaxParticipants \/ time >= d.deadline)
===============================================================================
