----------------------------- MODULE TicketPick -----------------------------
(***************************************************************************)
(* How a random word becomes winning tickets.  Each pick hashes the seed   *)
(* with the number of tickets already picked, reduces the hash modulo the  *)
(* tickets still free, and scans 1..total for the free ticket of that      *)
(* rank.  keccak256 over the packed arguments is the constant Keccak.      *)
(***************************************************************************)
EXTENDS Integers, Sequences, SequencesExt

CONSTANT Keccak(_)   \* keccak256 of a tuple of numbers, as a number

(* The free ticket with `target` free tickets before it: the scan of
   candidates 1, 2, ... in the code, at a candidate and a number of free
   tickets still to pass over.  0 stands for its final revert. *)
ScanFree(total, computed, target) ==
  LET scan[at \in (1..(total + 1)) \X (0..total)] ==
        IF at[1] > total THEN 0
        ELSE IF Contains(computed, at[1]) THEN scan[<<at[1] + 1, at[2]>>]
        ELSE IF at[2] = 0 THEN at[1]
        ELSE scan[<<at[1] + 1, at[2] - 1>>]
  IN  scan[<<1, target>>]

(* Mutant of UniqueTicket: picks are made with replacement. *)
TicketWithReplacement(total, computed, hash) == (hash % total) + 1

(* Mutant of UniqueTicket: the hash is reduced modulo all the tickets. *)
TicketOfWholePool(total, computed, hash) == ScanFree(total, computed, hash % total)

(* One more ticket that `computed` does not hold. *)
UniqueTicket(total, computed, hash) ==
  ScanFree(total, computed, hash % (total - Len(computed)))

(* The first n tickets, each picked in the absence of those before it by the
   hash of the seed and the pick index. *)
PickTickets(total, n, seed) ==
  LET picked[k \in 0..n] ==
        IF k = 0 THEN <<>>
        ELSE Append(picked[k - 1],
                    UniqueTicket(total, picked[k - 1], Keccak(Append(seed, k - 1))))
  IN  picked[n]

(* _computeRoundMatchTickets: for every slot a primary winner and then its
   alternates, with one pick index running through all of them. *)
RoundMatchTickets(word, round, matchId, match) ==
  LET seed == Keccak(<<word, round, matchId, match.ledgerHash>>)
  IN  PickTickets(match.totalTickets,
                  match.prizeSlotCount * (match.alternateCount + 1),
                  <<seed>>)

(* Mutant of RandomUnrevealedSlot: the first unrevealed slot from the hash on. *)
FirstUnrevealedFrom(slotCount, revealed, hash) ==
  LET offset == CHOOSE k \in 0..(slotCount - 1) :
                  /\ ~Contains(revealed, (hash + k) % slotCount)
                  /\ \A j \in 0..(k - 1) : Contains(revealed, (hash + j) % slotCount)
  IN  (hash + offset) % slotCount

(* _randomUnrevealedPrizeSlot: the unrevealed slot of the rank the hash
   selects, by a scan at a slot and the number of unrevealed ones seen. *)
RandomUnrevealedSlot(slotCount, revealed, hash) ==
  LET rank == hash % (slotCount - Len(revealed))
      scan[at \in (0..slotCount) \X Nat] ==
        IF at[1] = slotCount THEN slotCount
        ELSE IF Contains(revealed, at[1]) THEN scan[<<at[1] + 1, at[2]>>]
        ELSE IF at[2] = rank THEN at[1]
        ELSE scan[<<at[1] + 1, at[2] + 1>>]
  IN  scan[<<0, 0>>]

(* _nextUnrevealedPrizeSlot: the least unrevealed slot. *)
NextUnrevealedSlot(slotCount, revealed) ==
  CHOOSE slot \in 0..(slotCount - 1) :
    /\ ~Contains(revealed, slot)
    /\ \A earlier \in 0..(slot - 1) : Contains(revealed, earlier)
=============================================================================
