----------------------------- MODULE VRFProvider ------------------------------
(***************************************************************************)
(* The VRF v2.5 adapter, contracts/src/VRFProvider.sol: it asks the        *)
(* coordinator for one word per request, stores the first word it gets and *)
(* calls the lottery back.  A callback that fails is caught, and delivery  *)
(* of the stored word can be retried by anyone.                            *)
(*                                                                         *)
(* "accepted" says whether the consumer's callback returned or reverted    *)
(* (it can run out of the callback's gas).  Callers other than the         *)
(* coordinator, the configurator and the bound lottery revert: for them no *)
(* action is enabled.  The key, subscription, confirmations and payment    *)
(* settings only parameterise the coordinator's answer and are left out.   *)
(***************************************************************************)
EXTENDS Integers, Sequences

CONSTANTS
  Contracts,    \* addresses with code the configurator may bind
  NoContract,   \* address(0)
  Requests,     \* ids the coordinator may return
  Words

VARIABLES
  lottery,      \* the bound consumer
  requested, ready, delivered,   \* the ids whose flag is set
  words

vars == <<lottery, requested, ready, delivered, words>>

NoWord == 0     \* what words holds for an id never written

Init ==
  /\ lottery = NoContract
  /\ requested = {} /\ ready = {} /\ delivered = {}
  /\ words = [id \in Requests |-> NoWord]

MayBind(value) == lottery = NoContract /\ value \in Contracts

SetLottery(value) ==
  /\ MayBind(value)
  /\ lottery' = value
  /\ UNCHANGED <<requested, ready, delivered, words>>

\* id: what the coordinator returned.
RequestRandomness(sender, id) ==
  /\ sender = lottery
  /\ requested' = requested \union {id}
  /\ UNCHANGED <<lottery, ready, delivered, words>>

\* Altered: a later fulfilment replaces the word that is stored.
StoresAnyWord(id, values) == id \in requested /\ values # <<>>

StoresWord(id, values) == id \in requested /\ id \notin ready /\ values # <<>>

\* Altered: the attempt counts as a delivery.
DeliveredByAttempt(id, accepted) == delivered \union {id}

DeliveredBy(id, accepted) == IF accepted THEN delivered \union {id} ELSE delivered

\* Altered: the word is kept only if the consumer took it.
ReadyIfAccepted(id, accepted) == IF accepted THEN ready \union {id} ELSE ready

ReadyAfter(id, accepted) == ready \union {id}

StoreWord(id, values, accepted) ==
  /\ StoresWord(id, values)
  /\ words' = [words EXCEPT ![id] = values[1]]
  /\ ready' = ReadyAfter(id, accepted)
  /\ delivered' = DeliveredBy(id, accepted)
  /\ UNCHANGED <<lottery, requested>>

\* Unknown requests, repeated fulfilments and empty answers return silently.
IgnoreWord(id, values) == ~StoresWord(id, values) /\ UNCHANGED vars

MayDeliver(id) == id \in ready \ delivered

\* deliver for an undelivered word; a failing consumer reverts the call.
DeliverWord(id) ==
  /\ MayDeliver(id)
  /\ delivered' = delivered \union {id}
  /\ UNCHANGED <<lottery, requested, ready, words>>

\* deliver after a delivery returns silently.
DeliverAgain(id) == id \in ready \intersect delivered /\ UNCHANGED vars
===============================================================================
