------------------------------ MODULE SlotDraw ------------------------------
(***************************************************************************)
(* The per-draw path of RenaissLuckyDraw: one ledger of tickets, one       *)
(* random word, and a reveal of each prize slot in any order.  The winning *)
(* tickets are computed lazily: revealing slot i computes the tickets of   *)
(* all slots up to i that are not computed yet.                            *)
(***************************************************************************)
EXTENDS RoundDraw

CONSTANTS
  DrawIds,        \* draw identifiers (a call with the zero id reverts)
  TicketCounts,   \* the ticket totals an admin may submit
  SlotCounts      \* the prize slot counts an admin may submit

ASSUME SlotAssumption ==
  /\ DrawIds \subseteq Nat \ {0}
  /\ TicketCounts \subseteq Nat
  /\ SlotCounts \subseteq Nat

VARIABLES
  draws,                \* s_draws
  drawIdList,           \* s_drawIds: the draws ever registered, in that order
  drawIdByRequestId     \* s_drawIdByRequestId, 0 where nothing was stored

slotVars == <<draws, drawIdList, drawIdByRequestId>>

EmptyDraw ==
  [state |-> "Draft", ledgerHash |-> 0, totalTickets |-> 0, prizeSlotCount |-> 0,
   requestId |-> 0, randomWord |-> 0,
   revealedPrizeSlots |-> <<>>, revealedTickets |-> <<>>, allComputedTickets |-> <<>>]

SlotInit ==
  /\ draws = [d \in DrawIds |-> EmptyDraw]
  /\ drawIdList = <<>>
  /\ drawIdByRequestId = [id \in RequestIds |-> 0]

-----------------------------------------------------------------------------
(* Helpers. *)

(* _resetWinnerStorage *)
ResetWinners(draw) ==
  [draw EXCEPT !.revealedPrizeSlots = <<>>, !.revealedTickets = <<>>,
               !.allComputedTickets = <<>>]

(* Mutant of NextTicket: the pick index is the number of slots revealed. *)
NextTicketByReveal(d, draw, computed) ==
  UniqueTicket(draw.totalTickets, computed,
               Keccak(<<draw.randomWord, d, Len(draw.revealedPrizeSlots)>>))

(* _drawUniqueTicket: the pick index is the number of tickets computed. *)
NextTicket(d, draw, computed) ==
  UniqueTicket(draw.totalTickets, computed, Keccak(<<draw.randomWord, d, Len(computed)>>))

(* _ensurePrizeSlotComputed: tickets are appended until slot has one. *)
EnsureComputed(d, draw, slot) ==
  LET upTo[n \in 0..(slot + 1)] ==
        IF n <= Len(draw.allComputedTickets) THEN draw.allComputedTickets
        ELSE Append(upTo[n - 1], NextTicket(d, draw, upTo[n - 1]))
  IN  upTo[slot + 1]

(* The slots _drawPrizeSlot accepts. *)
Drawable(draw, slot) ==
  slot \in 0..(draw.prizeSlotCount - 1) /\ ~Contains(draw.revealedPrizeSlots, slot)

(* Mutant of DrawSlot: tickets are published in the order they are computed. *)
DrawSlotInOrder(d, draw, slot) ==
  LET computed == EnsureComputed(d, draw, slot)
  IN  [draw EXCEPT
         !.allComputedTickets = computed,
         !.revealedPrizeSlots = Append(@, slot),
         !.revealedTickets = Append(@, computed[Len(draw.revealedTickets) + 1])]

(* _drawPrizeSlot for a slot it accepts. *)
DrawSlot(d, draw, slot) ==
  LET computed == EnsureComputed(d, draw, slot)
  IN  [draw EXCEPT
         !.allComputedTickets = computed,
         !.revealedPrizeSlots = Append(@, slot),
         !.revealedTickets = Append(@, computed[slot + 1])]

(* The slots of a list drawn one after another. *)
DrawSlots(d, draw, slots) ==
  LET drawn[n \in 0..Len(slots)] ==
        IF n = 0 THEN draw ELSE DrawSlot(d, drawn[n - 1], slots[n])
  IN  drawn[Len(slots)]

(* When _completeIfFulfilled completes a draw. *)
AllRevealed(draw) == Len(draw.revealedPrizeSlots) = draw.prizeSlotCount

(* The first n slots drawNext would take, one after another. *)
NextSlots(draw, n) ==
  LET slots[k \in 0..n] ==
        IF k = 0 THEN <<>>
        ELSE Append(slots[k - 1],
                    NextUnrevealedSlot(draw.prizeSlotCount,
                                       draw.revealedPrizeSlots \o slots[k - 1]))
  IN  slots[n]

Remaining(draw) == draw.prizeSlotCount - Len(draw.revealedPrizeSlots)

-----------------------------------------------------------------------------
(* The contract's functions. *)

FinalizeLedger(a, d, hash, tickets, slots) ==
  /\ IsDrawAdmin(a)
  /\ draws[d].state \in {"Draft", "LedgerFinalized"}
  /\ hash # 0 /\ tickets # 0
  /\ ValidPrizeSlotCount(slots)
  /\ tickets >= slots
  /\ draws' = [draws EXCEPT ![d] =
       [ResetWinners(draws[d]) EXCEPT
          !.ledgerHash = hash, !.totalTickets = tickets, !.prizeSlotCount = slots,
          !.randomWord = 0, !.requestId = 0, !.state = "LedgerFinalized"]]
  /\ drawIdList' = Remember(drawIdList, d)
  /\ UNCHANGED <<drawIdByRequestId, coordinatorVars>>

(* Mutant of ResetDraft: a draw may be abandoned while it waits. *)
ResetDraftUnguarded(a, d) ==
  /\ IsDrawAdmin(a)
  /\ draws' = [draws EXCEPT ![d] = EmptyDraw]
  /\ UNCHANGED <<drawIdList, drawIdByRequestId, coordinatorVars>>

ResetDraft(a, d) ==
  /\ IsDrawAdmin(a)
  /\ draws[d].state # "RandomnessRequested"
  /\ draws' = [draws EXCEPT ![d] = EmptyDraw]
  /\ UNCHANGED <<drawIdList, drawIdByRequestId, coordinatorVars>>

RequestDraw(a, d) ==
  /\ IsDrawAdmin(a)
  /\ draws[d].state = "LedgerFinalized"
  /\ UsableVrfConfig(vrfConfig)
  /\ RequestRandomWords
  /\ draws' = [draws EXCEPT ![d] =
       [draws[d] EXCEPT !.requestId = nextRequestId, !.state = "RandomnessRequested"]]
  /\ drawIdByRequestId' = [drawIdByRequestId EXCEPT ![nextRequestId] = d]
  /\ UNCHANGED drawIdList

(* fulfillRandomWords for a request that belongs to no round. *)
FulfillDraw(id, word) ==
  LET d == drawIdByRequestId[id]
  IN  /\ Callback(id)
      /\ roundIdByRequestId[id] = 0
      /\ d # 0
      /\ draws[d].state = "RandomnessRequested" /\ draws[d].requestId = id
      /\ draws' = [draws EXCEPT ![d] =
           [ResetWinners(draws[d]) EXCEPT !.randomWord = word, !.state = "RandomnessReady"]]
      /\ UNCHANGED <<drawIdList, drawIdByRequestId>>

(* A call that draws the slots of a list and completes the draw if they were
   the last: the part every reveal function shares. *)
RevealSlots(a, d, slots) ==
  LET draw  == draws[d]
      drawn == DrawSlots(d, draw, slots)
  IN  /\ IsDrawAdmin(a)
      /\ draw.state = "RandomnessReady"
      /\ Len(slots) \in 1..Remaining(draw)
      /\ \A i \in 1..Len(slots) :
           /\ Drawable(draw, slots[i])
           /\ \A j \in 1..(i - 1) : slots[j] # slots[i]
      /\ draws' = [draws EXCEPT ![d] =
           [draw EXCEPT
              !.revealedPrizeSlots = drawn.revealedPrizeSlots,
              !.revealedTickets = drawn.revealedTickets,
              !.allComputedTickets =
                 IF AllRevealed(drawn) THEN EnsureComputed(d, drawn, draw.prizeSlotCount - 1)
                 ELSE drawn.allComputedTickets,
              !.state = IF AllRevealed(drawn) THEN "Fulfilled" ELSE "RandomnessReady"]]
      /\ UNCHANGED <<drawIdList, drawIdByRequestId, coordinatorVars>>

DrawNext(a, d) ==
  Remaining(draws[d]) > 0 /\ RevealSlots(a, d, NextSlots(draws[d], 1))

DrawBatch(a, d, count) ==
  count \in 1..Remaining(draws[d]) /\ RevealSlots(a, d, NextSlots(draws[d], count))

DrawPrizeSlot(a, d, slot) == RevealSlots(a, d, <<slot>>)

DrawPrizeSlots(a, d, slots) == RevealSlots(a, d, slots)

DrawRandomPrizeSlot(a, d) ==
  LET draw == draws[d]
      hash == Keccak(<<draw.randomWord, d, "prize-slot", Len(draw.revealedPrizeSlots)>>)
  IN  /\ Remaining(draw) > 0
      /\ RevealSlots(a, d, <<RandomUnrevealedSlot(draw.prizeSlotCount,
                                                  draw.revealedPrizeSlots, hash)>>)

SlotCall(a, d) ==
  LET all == 0..(draws[d].prizeSlotCount - 1)
  IN  \/ \E hash \in LedgerHashes, tickets \in TicketCounts, slots \in SlotCounts :
           FinalizeLedger(a, d, hash, tickets, slots)
      \/ ResetDraft(a, d)
      \/ RequestDraw(a, d)
      \/ DrawNext(a, d)
      \/ \E count \in 1..draws[d].prizeSlotCount : DrawBatch(a, d, count)
      \/ \E slot \in all : DrawPrizeSlot(a, d, slot)
      \/ \E slots \in SeqOf(all, Cardinality(all)) : DrawPrizeSlots(a, d, slots)
      \/ DrawRandomPrizeSlot(a, d)
=============================================================================
