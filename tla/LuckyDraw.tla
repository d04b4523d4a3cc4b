------------------------------ MODULE LuckyDraw -----------------------------
(***************************************************************************)
(* RenaissLuckyDraw as deployed: the access rules, the round-level draws   *)
(* and the per-draw path in one contract, with one randomness coordinator  *)
(* that numbers the requests of both paths together.                       *)
(***************************************************************************)
EXTENDS SlotDraw

vars == <<accessVars, coordinatorVars, roundVars, slotVars>>

Init == AccessInit /\ CoordinatorInit /\ RoundInit /\ SlotInit

(* fulfillRandomWords: the round table is looked up first. *)
FulfillRandomWords(id, word) ==
  \/ FulfillRound(id, word) /\ UNCHANGED slotVars
  \/ FulfillDraw(id, word) /\ UNCHANGED roundVars

Next ==
  \/ AccessNext /\ UNCHANGED <<coordinatorVars, roundVars, slotVars>>
  \/ \E a \in Accounts, r \in RoundIds : RoundCall(a, r) /\ UNCHANGED <<accessVars, slotVars>>
  \/ \E a \in Accounts, d \in DrawIds : SlotCall(a, d) /\ UNCHANGED <<accessVars, roundVars>>
  \/ \E id \in RequestIds, word \in Words :
       FulfillRandomWords(id, word) /\ UNCHANGED accessVars

Spec == Init /\ [][Next]_vars

-----------------------------------------------------------------------------
(* Type correctness of the contract's storage.  The ticket lists are typed by
   MatchTicketsValid and SlotTicketsValid below. *)

IsMatch(match) ==
  /\ DOMAIN match = {"ledgerHash", "totalTickets", "prizeSlotCount", "alternateCount",
                     "revealed", "tickets"}
  /\ match.ledgerHash \in Nat \ {0} /\ match.totalTickets \in Nat \ {0}
  /\ ValidPrizeSlotCount(match.prizeSlotCount)
  /\ ValidAlternateCount(match.alternateCount)
  /\ match.revealed \in BOOLEAN

RoundRecord(matches) ==
  [state : DrawState, ledgerHash : Nat, matchIds : Seq(Nat \ {0}), matches : {matches},
   requestId : 0..MaxRequests, randomWord : Words \cup {0}, revealedMatchCount : Nat]

IsRound(round) ==
  /\ round \in RoundRecord(round.matches)
  /\ round.matches = [m \in DOMAIN round.matches |-> round.matches[m]]
  /\ \A m \in DOMAIN round.matches : IsMatch(round.matches[m])

RoundTypeOK ==
  /\ rounds = [r \in RoundIds |-> rounds[r]]
  /\ \A r \in RoundIds : IsRound(rounds[r])
  /\ roundIdList \in Seq(RoundIds)
  /\ roundIdByRequestId \in [RequestIds -> RoundIds \cup {0}]

IsDraw(draw) ==
  draw \in [state : DrawState, ledgerHash : Nat, totalTickets : Nat,
            prizeSlotCount : 0..MAX_PRIZE_SLOTS, requestId : 0..MaxRequests,
            randomWord : Words \cup {0}, revealedPrizeSlots : Seq(Nat),
            revealedTickets : Seq(Nat), allComputedTickets : Seq(Nat)]

SlotTypeOK ==
  /\ draws = [d \in DrawIds |-> draws[d]]
  /\ \A d \in DrawIds : IsDraw(draws[d])
  /\ drawIdList \in Seq(DrawIds)
  /\ drawIdByRequestId \in [RequestIds -> DrawIds \cup {0}]

(* Every variable of the contract has its Solidity type: enums stay in range,
   counts within their limits, and the request tables only name rounds and
   draws that exist. *)
TypeOK == AccessTypeOK /\ CoordinatorTypeOK /\ RoundTypeOK /\ SlotTypeOK

-----------------------------------------------------------------------------
(* Safety of the rounds. *)

Revealed(round) == {m \in DOMAIN round.matches : round.matches[m].revealed}

Bookkept(round) ==
  /\ DOMAIN round.matches = ToSet(round.matchIds)
  /\ IsInjective(round.matchIds)
  /\ round.revealedMatchCount = Cardinality(Revealed(round))

(* The three records of which matches a round has (the matchIds array, the
   knownMatches mapping and the revealed counter) agree after any sequence of
   finalize, reset and reveal calls: _resetRoundStorage forgets exactly the
   matches registered before, and no match is listed twice.  Completion is
   detected by comparing the counter with the array, so a disagreement would
   leave a round that can never complete, or one that completes early. *)
RoundBookkeeping == \A r \in RoundIds : Bookkept(rounds[r])

InLifecycle(round) ==
  /\ round.state \in {"Draft", "LedgerFinalized", "RandomnessRequested"}
       => Revealed(round) = {}
  /\ round.state = "RandomnessReady" => Revealed(round) # DOMAIN round.matches
  /\ round.state = "Fulfilled" => Revealed(round) = DOMAIN round.matches
  /\ round.state # "Draft" => round.ledgerHash # 0 /\ DOMAIN round.matches # {}

(* What a state of the lifecycle says of the rest of the round: a match is
   revealed only once the random word is there, the round is Fulfilled exactly
   when every match is revealed, and a round past Draft has a ledger. *)
RoundLifecycle == \A r \in RoundIds : InLifecycle(rounds[r])

(* Every outstanding request leads back to the one round or draw that made it,
   in the state that accepts the answer: a request whose answer the contract
   would refuse (fulfillRandomWords looks the round table up first) could
   never be repeated, because neither reset function leaves that state. *)
RequestsReachTheirDraw ==
  /\ \A r \in RoundIds :
       rounds[r].requestId # 0 =>
         rounds[r].requestId < nextRequestId /\ roundIdByRequestId[rounds[r].requestId] = r
  /\ \A d \in DrawIds :
       draws[d].requestId # 0 =>
         /\ draws[d].requestId < nextRequestId
         /\ drawIdByRequestId[draws[d].requestId] = d
         /\ roundIdByRequestId[draws[d].requestId] = 0
  /\ \A r \in RoundIds : rounds[r].state = "RandomnessRequested" => rounds[r].requestId # 0
  /\ \A d \in DrawIds : draws[d].state = "RandomnessRequested" => draws[d].requestId # 0

(* A round or draw holds a random word exactly when the request it now refers
   to has been answered: a late or repeated answer to an earlier request of
   the same round, made before a reset, never stands in for the current one. *)
WordAnswersCurrentRequest ==
  /\ \A r \in RoundIds :
       /\ rounds[r].state \in {"RandomnessReady", "Fulfilled"} => rounds[r].requestId \in answered
       /\ rounds[r].state = "RandomnessRequested" => rounds[r].requestId \notin answered
  /\ \A d \in DrawIds :
       /\ draws[d].state \in {"RandomnessReady", "Fulfilled"} => draws[d].requestId \in answered
       /\ draws[d].state = "RandomnessRequested" => draws[d].requestId \notin answered

DistinctTickets(tickets, total) ==
  IsInjective(tickets) /\ ToSet(tickets) \subseteq 1..total

(* A revealed match has one primary winner and alternateCount alternates for
   every prize slot, all of them different tickets of its own 1..N range, also
   when the pool is exactly as large as the number of winners. *)
MatchTicketsValid ==
  \A r \in RoundIds : \A m \in DOMAIN rounds[r].matches :
    LET match == rounds[r].matches[m]
    IN  IF match.revealed
        THEN /\ Len(match.tickets) = match.prizeSlotCount * (match.alternateCount + 1)
             /\ DistinctTickets(match.tickets, match.totalTickets)
        ELSE match.tickets = <<>>

-----------------------------------------------------------------------------
(* Safety of the per-draw path. *)

(* However the slots are revealed, the computed tickets are different tickets
   of 1..N, every slot is revealed at most once, and its published ticket is
   the one computed for it. *)
SlotTicketsValid ==
  \A d \in DrawIds :
    LET draw == draws[d]
    IN  /\ DistinctTickets(draw.allComputedTickets, draw.totalTickets)
        /\ IsInjective(draw.revealedPrizeSlots)
        /\ Len(draw.revealedTickets) = Len(draw.revealedPrizeSlots)
        /\ \A i \in DOMAIN draw.revealedTickets :
             draw.revealedTickets[i] = draw.allComputedTickets[draw.revealedPrizeSlots[i] + 1]

(* Over two whole cycles of the hash every free ticket is picked twice, and no
   other ticket ever. *)
TicketsEquallyLikely(total, computed) ==
  LET free  == 1..total \ ToSet(computed)
      picks == [hash \in 0..(2 * Cardinality(free) - 1) |-> UniqueTicket(total, computed, hash)]
  IN  \A ticket \in 1..total :
        Cardinality({hash \in DOMAIN picks : picks[hash] = ticket})
          = IF ticket \in free THEN 2 ELSE 0

(* The same for the slots left, of which drawNext takes the least. *)
SlotsEquallyLikely(count, revealed) ==
  LET left  == 0..(count - 1) \ ToSet(revealed)
      picks == [hash \in 0..(2 * Cardinality(left) - 1) |->
                  RandomUnrevealedSlot(count, revealed, hash)]
  IN  /\ \A slot \in left : Cardinality({hash \in DOMAIN picks : picks[hash] = slot}) = 2
      /\ NextUnrevealedSlot(count, revealed)
           = CHOOSE slot \in left : \A other \in left : slot =< other

(* Whatever is picked already, neither the choice of a ticket nor that of a
   slot favours one of those that are left: not by the reduction of the hash,
   and not by the scan (_drawUniqueTicket, _randomUnrevealedPrizeSlot). *)
PicksAreFair ==
  \A d \in DrawIds :
    LET draw == draws[d]
    IN  /\ TicketsEquallyLikely(draw.totalTickets, draw.allComputedTickets)
        /\ draw.state = "RandomnessReady" =>
             SlotsEquallyLikely(draw.prizeSlotCount, draw.revealedPrizeSlots)

-----------------------------------------------------------------------------
(* Both paths implement FairDraw. *)

Phase ==
  [Draft |-> "open", LedgerFinalized |-> "ready", RandomnessRequested |-> "sealed",
   RandomnessReady |-> "drawn", Fulfilled |-> "complete"]

NoLedger == [hash |-> 0]

(* The figures of a match that the ledger fixes. *)
MatchFigures(match) ==
  [ledgerHash |-> match.ledgerHash, totalTickets |-> match.totalTickets,
   prizeSlotCount |-> match.prizeSlotCount, alternateCount |-> match.alternateCount]

RoundLedgerOf(round) ==
  IF round.state = "Draft" THEN NoLedger
  ELSE [hash |-> round.ledgerHash,
        matches |-> [m \in DOMAIN round.matches |-> MatchFigures(round.matches[m])]]

RoundPublished(round) == [m \in Revealed(round) |-> round.matches[m].tickets]

IsRoundLedger(l) ==
  /\ l # NoLedger
  /\ l.hash # 0 /\ DOMAIN l.matches # {}
  /\ \A m \in DOMAIN l.matches :
       l.matches[m].totalTickets >=
         l.matches[m].prizeSlotCount * (l.matches[m].alternateCount + 1)

RoundItems(l) == IF l = NoLedger THEN {} ELSE DOMAIN l.matches

RoundOutcome(word, r, m, l) == RoundMatchTickets(word, r, m, l.matches[m])

(* The rounds, seen as fair draws. *)
RoundPhases  == [r \in RoundIds |-> Phase[rounds[r].state]]
RoundLedgers == [r \in RoundIds |-> RoundLedgerOf(rounds[r])]
RoundWords   == [r \in RoundIds |-> rounds[r].randomWord]
RoundResults == [r \in RoundIds |-> RoundPublished(rounds[r])]

RoundAsFairDraw == INSTANCE FairDraw WITH
  Draws <- RoundIds, NoWord <- 0,
  IsLedger <- IsRoundLedger, Items <- RoundItems, Outcome <- RoundOutcome,
  phase <- RoundPhases, ledger <- RoundLedgers, word <- RoundWords, published <- RoundResults

(* A round is a fair draw: its ledger is fixed before the word is asked for,
   its winners are a function of the word and that ledger alone, in whatever
   order and batches the admins reveal them, nothing revealed changes, and
   nobody can abandon a round between the request and the answer. *)
RoundsAreFair == RoundAsFairDraw!Spec

SlotLedgerOf(draw) ==
  IF draw.state = "Draft" THEN NoLedger
  ELSE [hash |-> draw.ledgerHash, totalTickets |-> draw.totalTickets,
        prizeSlotCount |-> draw.prizeSlotCount]

SlotPublished(draw) ==
  [slot \in ToSet(draw.revealedPrizeSlots) |->
     draw.revealedTickets[CHOOSE i \in DOMAIN draw.revealedPrizeSlots :
                            draw.revealedPrizeSlots[i] = slot]]

IsSlotLedger(l) ==
  /\ l # NoLedger
  /\ l.hash # 0 /\ l.prizeSlotCount > 0 /\ l.totalTickets >= l.prizeSlotCount

SlotItems(l) == IF l = NoLedger THEN {} ELSE 0..(l.prizeSlotCount - 1)

(* The ticket of a slot when all slots are computed at once, in slot order. *)
SlotOutcome(word, d, slot, l) ==
  PickTickets(l.totalTickets, l.prizeSlotCount, <<word, d>>)[slot + 1]

(* The draws, seen as fair draws. *)
SlotPhases  == [d \in DrawIds |-> Phase[draws[d].state]]
SlotLedgers == [d \in DrawIds |-> SlotLedgerOf(draws[d])]
SlotWords   == [d \in DrawIds |-> draws[d].randomWord]
SlotResults == [d \in DrawIds |-> SlotPublished(draws[d])]

SlotsAsFairDraw == INSTANCE FairDraw WITH
  Draws <- DrawIds, NoWord <- 0,
  IsLedger <- IsSlotLedger, Items <- SlotItems, Outcome <- SlotOutcome,
  phase <- SlotPhases, ledger <- SlotLedgers, word <- SlotWords, published <- SlotResults

(* A per-draw path draw is a fair draw although its tickets are computed
   lazily and its slots may be revealed in any order by five different
   functions: the ticket of a slot is the one an eager computation in slot
   order gives it. *)
SlotDrawsAreFair == SlotsAsFairDraw!Spec

-----------------------------------------------------------------------------
(* Liveness. *)

(* The coordinator answers every request it has not answered: what a funded
   VRF subscription provides.  Nothing in the contract makes admins act. *)
CoordinatorFairness ==
  \A id \in RequestIds :
    WF_vars(\E word \in Words : FulfillRandomWords(id, word) /\ UNCHANGED accessVars)

LiveSpec == Spec /\ CoordinatorFairness

(* No round or draw waits for its random word for ever, whatever the admins
   do meanwhile and whichever other requests are outstanding. *)
RequestsAreAnswered ==
  /\ \A r \in RoundIds :
       rounds[r].state = "RandomnessRequested" ~> rounds[r].state = "RandomnessReady"
  /\ \A d \in DrawIds :
       draws[d].state = "RandomnessRequested" ~> draws[d].state = "RandomnessReady"
=============================================================================
