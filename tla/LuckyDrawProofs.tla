--------------------------- MODULE LuckyDrawProofs --------------------------
(***************************************************************************)
(* Proofs about the rounds of LuckyDraw, about who may act on it and about *)
(* its outstanding requests for randomness, for every set of accounts,     *)
(* rounds, draws, ledgers and words, any hash function and any number of   *)
(* requests: the books of a round agree, every request leads back to the   *)
(* one round or draw that made it, and no answer stands in for another.    *)
(*                                                                         *)
(* Then about the winners, for every hash function whose values are        *)
(* numbers.  The argument: the tickets free for a pick are a finite set of *)
(* numbers, and the scans of the contract return the element of that set   *)
(* whose rank the hash selects.  So a pick is a free ticket, n picks are n *)
(* different tickets, and picking more does not change those picked        *)
(* before.  A match is then invariantly empty or holds the picks of its    *)
(* round's word, and a step of a round is a step of FairDraw.              *)
(***************************************************************************)
EXTENDS LuckyDraw, SumProofs, FunctionTheorems, SequenceTheorems

-----------------------------------------------------------------------------
(* Lemmas about the operators the rounds are built from. *)

(* A list without repetitions has as many elements as positions. *)
LEMMA InjectiveCount ==
  ASSUME NEW S, NEW s \in Seq(S), IsInjective(s)
  PROVE  IsFiniteSet(ToSet(s)) /\ Cardinality(ToSet(s)) = Len(s)
<1>1. s \in Surjection(1..Len(s), ToSet(s))
  BY DEF Surjection, ToSet
<1>2. s \in Injection(1..Len(s), ToSet(s))
  BY <1>1 DEF Surjection, Injection, IsInjective
<1>3. Len(s) \in Nat
  OBVIOUS
<1>4. IsFiniteSet(1..Len(s)) /\ Cardinality(1..Len(s)) = Len(s)
  BY <1>3, FS_Interval
<1>5. QED
  BY <1>1, <1>2, <1>4, FS_Surjection

(* After finalize or reset nothing is left of the matches registered before:
   _resetRoundStorage walks matchIds, and matchIds lists every match. *)
LEMMA NothingKept ==
  ASSUME NEW round, Bookkept(round)
  PROVE  DOMAIN KeptMatches(round) = {} /\ KeptMatches(round) = NoMatches
  BY DEF Bookkept, KeptMatches, NoMatches

-----------------------------------------------------------------------------
(* Each function of the contract, on the one round it is called for. *)

RoundOK(round) == IsRound(round) /\ Bookkept(round) /\ InLifecycle(round)

FinalizedRound(hash, inputs) ==
  [state |-> "LedgerFinalized", ledgerHash |-> hash,
   matchIds |-> IdsOf(inputs), matches |-> RegisterMatches(NoMatches, inputs),
   requestId |-> 0, randomWord |-> 0, revealedMatchCount |-> 0]

LEMMA EmptyRoundOK == RoundOK(EmptyRound)
<1>1. EmptyRound.matches = NoMatches /\ DOMAIN NoMatches = {}
  BY DEF EmptyRound, NoMatches
<1>2. IsRound(EmptyRound)
  <2>1. EmptyRound \in RoundRecord(EmptyRound.matches)
    BY CoordinatorAssumption DEF RoundRecord, EmptyRound, DrawState
  <2>2. EmptyRound.matches = [m \in DOMAIN EmptyRound.matches |-> EmptyRound.matches[m]]
    BY DEF EmptyRound, NoMatches
  <2>3. QED
    BY <1>1, <2>1, <2>2 DEF IsRound
<1>3. Revealed(EmptyRound) = {}
  BY <1>1 DEF Revealed
<1>4. Bookkept(EmptyRound)
  BY <1>1, <1>3, FS_EmptySet DEF Bookkept, EmptyRound, ToSet, IsInjective
<1>5. InLifecycle(EmptyRound)
  BY <1>3 DEF InLifecycle, EmptyRound
<1>6. QED
  BY <1>2, <1>4, <1>5 DEF RoundOK

(* A list whose every input passed _validateRoundMatchInput registers a round
   in good order: the check against knownMatches rules out repetitions. *)
LEMMA FinalizedRoundOK ==
  ASSUME NEW hash \in LedgerHashes, NEW inputs \in MatchLists, hash # 0, inputs # <<>>,
         \A i \in DOMAIN inputs :
           ValidMatchInput(KnownBefore(NoMatches, inputs, i), inputs[i])
  PROVE  RoundOK(FinalizedRound(hash, inputs))
<1> DEFINE round == FinalizedRound(hash, inputs)
           Raw == [matchId : Nat, ledgerHash : Nat, totalTickets : Nat,
                   prizeSlotCount : Nat, alternateCount : Nat]
           ids == IdsOf(inputs)
<1>1. inputs \in Seq(Raw)
  BY RoundAssumption
<1>2. /\ Len(inputs) \in Nat \ {0}
      /\ DOMAIN inputs = 1..Len(inputs)
      /\ \A i \in DOMAIN inputs : inputs[i] \in Raw
  <2>1. Len(inputs) \in Nat /\ DOMAIN inputs = 1..Len(inputs)
    BY <1>1, LenProperties
  <2>2. Len(inputs) # 0
    BY <1>1, EmptySeq
  <2>3. \A i \in 1..Len(inputs) : inputs[i] \in Raw
    BY <1>1, ElementOfSeq
  <2>4. QED
    BY <2>1, <2>2, <2>3
<1>3. /\ ids \in Seq(Nat \ {0})
      /\ DOMAIN ids = DOMAIN inputs
      /\ \A i \in DOMAIN inputs : ids[i] = inputs[i].matchId
  <2>1. ids = [i \in 1..Len(inputs) |-> inputs[i].matchId]
    BY <1>2 DEF IdsOf
  <2>2. \A i \in 1..Len(inputs) : inputs[i].matchId \in Nat \ {0}
    BY <1>2 DEF ValidMatchInput
  <2>3. QED
    BY <1>2, <2>1, <2>2
<1>4. IsInjective(ids)
  <2>1. \A i, j \in DOMAIN inputs : j < i => inputs[j].matchId # inputs[i].matchId
    BY <1>2 DEF ValidMatchInput, KnownBefore
  <2>2. \A i, j \in DOMAIN inputs : inputs[j].matchId = inputs[i].matchId => i = j
    BY <1>2, <2>1
  <2>3. QED
    BY <1>3, <2>2 DEF IsInjective
<1>5. /\ DOMAIN round.matches = ToSet(ids)
      /\ round.matches = [m \in DOMAIN round.matches |-> round.matches[m]]
  BY DEF FinalizedRound, RegisterMatches, NoMatches
<1>6. \A m \in ToSet(ids) : \E i \in DOMAIN inputs : round.matches[m] = NewMatch(inputs[i])
  <2> TAKE m \in ToSet(ids)
  <2> DEFINE pos == CHOOSE i \in DOMAIN inputs : inputs[i].matchId = m
  <2>1. \E i \in DOMAIN inputs : inputs[i].matchId = m
    BY <1>3 DEF ToSet
  <2>2. pos \in DOMAIN inputs
    BY <2>1
  <2>3. round.matches[m] = NewMatch(inputs[pos])
    BY DEF FinalizedRound, RegisterMatches, NoMatches
  <2>4. QED
    BY <2>2, <2>3
<1>7. \A i \in DOMAIN inputs : IsMatch(NewMatch(inputs[i])) /\ ~NewMatch(inputs[i]).revealed
  BY <1>2 DEF IsMatch, NewMatch, ValidMatchInput
<1>8. IsRound(round)
  <2>1. round \in RoundRecord(round.matches)
    BY <1>3, RoundAssumption, CoordinatorAssumption
    DEF RoundRecord, FinalizedRound, DrawState
  <2>2. QED
    BY <2>1, <1>5, <1>6, <1>7 DEF IsRound
<1>9. Revealed(round) = {}
  BY <1>5, <1>6, <1>7 DEF Revealed
<1>10. Bookkept(round)
  BY <1>4, <1>5, <1>9, FS_EmptySet DEF Bookkept, FinalizedRound
<1>11. InLifecycle(round)
  <2>1. 1 \in DOMAIN ids
    BY <1>2, <1>3
  <2>2. ToSet(ids) # {}
    BY <2>1 DEF ToSet
  <2>3. QED
    BY <2>2, <1>5, <1>9 DEF InLifecycle, FinalizedRound
<1>12. QED
  BY <1>8, <1>10, <1>11 DEF RoundOK

(* requestRoundDraw on a round whose ledger is finalized. *)
LEMMA RequestedRoundOK ==
  ASSUME NEW round, RoundOK(round), round.state = "LedgerFinalized",
         NEW id \in 0..MaxRequests
  PROVE  RoundOK([round EXCEPT !.requestId = id, !.state = "RandomnessRequested"])
<1> DEFINE next == [round EXCEPT !.requestId = id, !.state = "RandomnessRequested"]
<1>1. IsRound(round) /\ Bookkept(round) /\ InLifecycle(round)
  BY DEF RoundOK
<1>2. round \in RoundRecord(round.matches)
  BY <1>1 DEF IsRound
<1>3. /\ next \in RoundRecord(round.matches)
      /\ next.matches = round.matches /\ next.matchIds = round.matchIds
      /\ next.revealedMatchCount = round.revealedMatchCount
      /\ next.state = "RandomnessRequested" /\ next.ledgerHash = round.ledgerHash
  BY <1>2 DEF RoundRecord, DrawState
<1> HIDE DEF next
<1>4. Revealed(next) = Revealed(round)
  BY <1>3 DEF Revealed
<1>5. IsRound(next)
  BY <1>1, <1>3 DEF IsRound
<1>6. Bookkept(next)
  BY <1>1, <1>3, <1>4 DEF Bookkept
<1>7. InLifecycle(next)
  BY <1>1, <1>3, <1>4 DEF InLifecycle
<1>8. RoundOK(next)
  BY <1>5, <1>6, <1>7 DEF RoundOK
<1>9. QED
  BY <1>8 DEF next

(* fulfillRandomWords on a round that waits for its word.  No match is
   revealed yet, so the counter it resets was 0 already. *)
LEMMA AnsweredRoundOK ==
  ASSUME NEW round, RoundOK(round), round.state = "RandomnessRequested", NEW word \in Words
  PROVE  RoundOK([round EXCEPT !.randomWord = word, !.revealedMatchCount = 0,
                               !.state = "RandomnessReady"])
<1> DEFINE next == [round EXCEPT !.randomWord = word, !.revealedMatchCount = 0,
                                 !.state = "RandomnessReady"]
<1>1. IsRound(round) /\ Bookkept(round) /\ InLifecycle(round)
  BY DEF RoundOK
<1>2. round \in RoundRecord(round.matches)
  BY <1>1 DEF IsRound
<1>3. /\ next \in RoundRecord(round.matches)
      /\ next.matches = round.matches /\ next.matchIds = round.matchIds
      /\ next.revealedMatchCount = 0
      /\ next.state = "RandomnessReady" /\ next.ledgerHash = round.ledgerHash
  BY <1>2 DEF RoundRecord, DrawState
<1> HIDE DEF next
<1>4. Revealed(next) = Revealed(round) /\ Revealed(round) = {}
  BY <1>1, <1>3 DEF Revealed, InLifecycle
<1>5. IsRound(next)
  BY <1>1, <1>3 DEF IsRound
<1>6. Bookkept(next)
  BY <1>1, <1>3, <1>4, FS_EmptySet DEF Bookkept
<1>7. InLifecycle(next)
  BY <1>1, <1>3, <1>4 DEF InLifecycle
<1>8. RoundOK(next)
  BY <1>5, <1>6, <1>7 DEF RoundOK
<1>9. QED
  BY <1>8 DEF next

(* A round's matches are as many as its matchIds, and finitely many. *)
LEMMA MatchCount ==
  ASSUME NEW round, RoundOK(round)
  PROVE  /\ IsFiniteSet(DOMAIN round.matches)
         /\ Cardinality(DOMAIN round.matches) = Len(round.matchIds)
<1>1. round.matchIds \in Seq(Nat \ {0})
  BY DEF RoundOK, IsRound, RoundRecord
<1>2. IsInjective(round.matchIds) /\ DOMAIN round.matches = ToSet(round.matchIds)
  BY DEF RoundOK, Bookkept
<1>3. QED
  BY <1>1, <1>2, InjectiveCount

(* revealRoundMatches on a batch of unrevealed matches.  The counter grows by
   the size of the batch, and it equals the length of matchIds exactly when
   no match is left. *)
RevealedRound(round, r, batch) ==
  LET count == round.revealedMatchCount + Cardinality(batch)
  IN  [round EXCEPT
         !.matches = [m \in DOMAIN round.matches |->
                        IF m \in batch
                        THEN RevealedMatch(round.randomWord, r, m, round.matches[m])
                        ELSE round.matches[m]],
         !.revealedMatchCount = count,
         !.state = IF count = Len(round.matchIds) THEN "Fulfilled" ELSE "RandomnessReady"]

LEMMA RevealedMatchOK ==
  ASSUME NEW match, IsMatch(match), NEW word, NEW r, NEW m
  PROVE  /\ IsMatch(RevealedMatch(word, r, m, match))
         /\ RevealedMatch(word, r, m, match).revealed = TRUE
BY DEF IsMatch, RevealedMatch

LEMMA RevealedRoundOK ==
  ASSUME NEW round, RoundOK(round), round.state = "RandomnessReady", NEW r,
         NEW batch, batch \subseteq DOMAIN round.matches,
         \A m \in batch : ~round.matches[m].revealed
  PROVE  RoundOK(RevealedRound(round, r, batch))
<1> DEFINE all   == DOMAIN round.matches
           next  == RevealedRound(round, r, batch)
           count == round.revealedMatchCount + Cardinality(batch)
<1>1. IsRound(round) /\ Bookkept(round) /\ InLifecycle(round)
  BY DEF RoundOK
<1>2. round \in RoundRecord(round.matches) /\ \A m \in all : IsMatch(round.matches[m])
  BY <1>1 DEF IsRound
<1>3. /\ IsFiniteSet(all) /\ Cardinality(all) = Len(round.matchIds)
      /\ IsFiniteSet(batch) /\ IsFiniteSet(Revealed(round))
  BY MatchCount, FS_Subset DEF Revealed
<1>4. Revealed(round) \cap batch = {} /\ Revealed(round) \cup batch \subseteq all
  BY DEF Revealed
<1>5. Cardinality(batch) \in Nat /\ Cardinality(Revealed(round)) \in Nat
  BY <1>3, FS_CardinalityType
<1>6. count = Cardinality(Revealed(round) \cup batch)
  <2>1. Cardinality({}) = 0
    BY FS_EmptySet
  <2>2. Cardinality(Revealed(round) \cup batch)
          = Cardinality(Revealed(round)) + Cardinality(batch)
            - Cardinality(Revealed(round) \cap batch)
    BY <1>3, FS_Union
  <2>3. round.revealedMatchCount = Cardinality(Revealed(round))
    BY <1>1 DEF Bookkept
  <2>4. Cardinality(Revealed(round) \cap batch) = 0
    BY <2>1, <1>4
  <2>5. QED
    BY <2>2, <2>3, <2>4, <1>5
<1>7. count \in Nat
  <2>1. round.revealedMatchCount \in Nat
    BY <1>2 DEF RoundRecord
  <2>2. QED
    BY <2>1, <1>5
<1>8. count = Len(round.matchIds) <=> Revealed(round) \cup batch = all
  <2>1. Cardinality(Revealed(round) \cup batch) = Cardinality(all)
          => Revealed(round) \cup batch = all
    BY <1>3, <1>4, FS_Subset
  <2>2. QED
    BY <2>1, <1>3, <1>6
<1>9. /\ next.matches = [m \in all |->
           IF m \in batch
           THEN RevealedMatch(round.randomWord, r, m, round.matches[m])
           ELSE round.matches[m]]
      /\ next.revealedMatchCount = count
      /\ next.matchIds = round.matchIds /\ next.ledgerHash = round.ledgerHash
      /\ next.state = IF count = Len(round.matchIds) THEN "Fulfilled" ELSE "RandomnessReady"
      /\ next \in RoundRecord(next.matches)
  BY <1>2, <1>7 DEF RoundRecord, DrawState, RevealedRound
<1>10. DOMAIN next.matches = all
  BY <1>9
<1>11. \A m \in all :
         /\ IsMatch(next.matches[m])
         /\ next.matches[m].revealed <=> (m \in Revealed(round) \cup batch)
  <2> TAKE m \in all
  <2>1. CASE m \in batch
    <3>1. next.matches[m] = RevealedMatch(round.randomWord, r, m, round.matches[m])
      BY <2>1, <1>9
    <3>2. IsMatch(round.matches[m])
      BY <1>2
    <3>3. IsMatch(next.matches[m]) /\ next.matches[m].revealed = TRUE
      BY <3>1, <3>2, RevealedMatchOK
    <3>4. QED
      BY <2>1, <3>3
  <2>2. CASE m \notin batch
    BY <2>2, <1>2, <1>9 DEF Revealed, IsMatch
  <2>3. QED
    BY <2>1, <2>2
<1> HIDE DEF next
<1>12. Revealed(next) = Revealed(round) \cup batch
  BY <1>4, <1>10, <1>11 DEF Revealed
<1>13. IsRound(next)
  BY <1>9, <1>10, <1>11 DEF IsRound
<1>14. Bookkept(next)
  BY <1>1, <1>6, <1>9, <1>10, <1>12 DEF Bookkept
<1>15. InLifecycle(next)
  BY <1>1, <1>8, <1>9, <1>10, <1>12 DEF InLifecycle
<1>16. RoundOK(next)
  BY <1>13, <1>14, <1>15 DEF RoundOK
<1>17. QED
  BY <1>16 DEF next

-----------------------------------------------------------------------------
(* The inductive invariant of the rounds.  Type, bookkeeping and lifecycle
   need one another: the counter is reset by fulfillRandomWords because
   nothing is revealed yet, and a reset empties a round because matchIds lists
   every match. *)

RoundInv == CoordinatorTypeOK /\ RoundTypeOK /\ RoundBookkeeping /\ RoundLifecycle

LEMMA RoundInvParts ==
  RoundInv <=>
    /\ CoordinatorTypeOK
    /\ rounds = [r \in RoundIds |-> rounds[r]]
    /\ roundIdList \in Seq(RoundIds)
    /\ roundIdByRequestId \in [RequestIds -> RoundIds \cup {0}]
    /\ \A r \in RoundIds : RoundOK(rounds[r])
BY DEF RoundInv, RoundTypeOK, RoundBookkeeping, RoundLifecycle, RoundOK

(* A call that replaces one round by a good one keeps the invariant. *)
LEMMA ReplaceRound ==
  ASSUME RoundInv, CoordinatorTypeOK', NEW r \in RoundIds, NEW new, RoundOK(new),
         rounds' = [rounds EXCEPT ![r] = new],
         roundIdList' \in Seq(RoundIds),
         roundIdByRequestId' \in [RequestIds -> RoundIds \cup {0}]
  PROVE  RoundInv'
<1>1. /\ rounds = [q \in RoundIds |-> rounds[q]]
      /\ \A q \in RoundIds : RoundOK(rounds[q])
  BY RoundInvParts
<1>2. rounds' = [q \in RoundIds |-> IF q = r THEN new ELSE rounds[q]]
  BY <1>1
<1>3. \A q \in RoundIds : IsRound(rounds'[q]) /\ Bookkept(rounds'[q]) /\ InLifecycle(rounds'[q])
  BY <1>1, <1>2 DEF RoundOK
<1>4. rounds' = [q \in RoundIds |-> rounds'[q]]
  BY <1>2
<1>5. QED
  BY <1>3, <1>4 DEF RoundInv, RoundTypeOK, RoundBookkeeping, RoundLifecycle

(* The list of registered rounds only ever gains a round identifier. *)
LEMMA RememberType ==
  ASSUME NEW S, NEW list \in Seq(S), NEW id \in S
  PROVE  Remember(list, id) \in Seq(S)
BY DEF Remember

LEMMA RoundInvInit == Init => RoundInv
<1> SUFFICES ASSUME Init PROVE RoundInv
  OBVIOUS
<1>1. CoordinatorTypeOK
  BY CoordinatorAssumption DEF Init, CoordinatorInit, CoordinatorTypeOK
<1>2. /\ rounds = [r \in RoundIds |-> rounds[r]]
      /\ \A r \in RoundIds : rounds[r] = EmptyRound
      /\ roundIdList \in Seq(RoundIds)
      /\ roundIdByRequestId \in [RequestIds -> RoundIds \cup {0}]
  BY DEF Init, RoundInit
<1>3. QED
  BY <1>1, <1>2, EmptyRoundOK, RoundInvParts

(* The coordinator's own variables stay typed whatever calls it. *)
LEMMA CoordinatorStep ==
  ASSUME CoordinatorTypeOK,
         \/ UNCHANGED coordinatorVars
         \/ RequestRandomWords
         \/ \E id \in RequestIds : Callback(id)
  PROVE  CoordinatorTypeOK'
<1>1. CASE UNCHANGED coordinatorVars
  BY <1>1 DEF CoordinatorTypeOK, coordinatorVars
<1>2. CASE RequestRandomWords
  BY <1>2, CoordinatorAssumption DEF CoordinatorTypeOK, RequestRandomWords
<1>3. CASE \E id \in RequestIds : Callback(id)
  BY <1>3 DEF CoordinatorTypeOK, Callback
<1>4. QED
  BY <1>1, <1>2, <1>3

(* Calls on the per-draw path reach the coordinator through requestDraw only. *)
LEMMA SlotCallCoordinator ==
  ASSUME NEW a, NEW d, SlotCall(a, d)
  PROVE  UNCHANGED coordinatorVars \/ RequestRandomWords
BY DEF SlotCall, FinalizeLedger, ResetDraft, RequestDraw, DrawNext, DrawBatch, DrawPrizeSlot,
       DrawPrizeSlots, DrawRandomPrizeSlot, RevealSlots

LEMMA RoundCallInv ==
  ASSUME RoundInv, NEW a \in Accounts, NEW r \in RoundIds, RoundCall(a, r)
  PROVE  RoundInv'
<1> DEFINE round == rounds[r]
<1>1. /\ CoordinatorTypeOK
      /\ rounds = [q \in RoundIds |-> rounds[q]]
      /\ roundIdList \in Seq(RoundIds)
      /\ roundIdByRequestId \in [RequestIds -> RoundIds \cup {0}]
      /\ RoundOK(round)
  BY RoundInvParts
<1>2. KeptMatches(round) = NoMatches
  BY <1>1, NothingKept DEF RoundOK
<1> HIDE DEF round
<1>3. ASSUME NEW hash \in LedgerHashes, NEW inputs \in MatchLists,
             FinalizeRoundLedger(a, r, hash, inputs)
      PROVE  RoundInv'
  <2>1. /\ hash # 0 /\ inputs # <<>>
        /\ \A i \in DOMAIN inputs :
             ValidMatchInput(KnownBefore(NoMatches, inputs, i), inputs[i])
        /\ rounds' = [rounds EXCEPT ![r] = FinalizedRound(hash, inputs)]
        /\ roundIdList' = Remember(roundIdList, r)
        /\ UNCHANGED <<roundIdByRequestId, coordinatorVars>>
    BY <1>2, <1>3 DEF FinalizeRoundLedger, FinalizedRound, round
  <2>2. RoundOK(FinalizedRound(hash, inputs))
    BY <2>1, FinalizedRoundOK
  <2>3. CoordinatorTypeOK' /\ roundIdList' \in Seq(RoundIds)
    BY <1>1, <2>1, CoordinatorStep, RememberType
  <2>4. roundIdByRequestId' \in [RequestIds -> RoundIds \cup {0}]
    BY <1>1, <2>1
  <2>5. QED
    BY <2>1, <2>2, <2>3, <2>4, ReplaceRound
<1>4. CASE ResetRoundDraft(a, r)
  <2>1. /\ rounds' = [rounds EXCEPT ![r] = EmptyRound]
        /\ UNCHANGED <<roundIdList, roundIdByRequestId, coordinatorVars>>
    <3>1. [EmptyRound EXCEPT !.matches = NoMatches] = EmptyRound
      BY DEF EmptyRound
    <3>2. QED
      BY <1>2, <1>4, <3>1 DEF ResetRoundDraft, round
  <2>2. CoordinatorTypeOK'
    BY <1>1, <2>1, CoordinatorStep
  <2>3. /\ roundIdList' \in Seq(RoundIds)
        /\ roundIdByRequestId' \in [RequestIds -> RoundIds \cup {0}]
    BY <1>1, <2>1
  <2>4. QED
    BY <2>1, <2>2, <2>3, EmptyRoundOK, ReplaceRound
<1>5. CASE RequestRoundDraw(a, r)
  <2> DEFINE new == [round EXCEPT !.requestId = nextRequestId, !.state = "RandomnessRequested"]
  <2>1. /\ round.state = "LedgerFinalized"
        /\ RequestRandomWords
        /\ rounds' = [rounds EXCEPT ![r] = new]
        /\ roundIdByRequestId' = [roundIdByRequestId EXCEPT ![nextRequestId] = r]
        /\ UNCHANGED roundIdList
    BY <1>5 DEF RequestRoundDraw, round
  <2>2. nextRequestId \in 0..MaxRequests /\ CoordinatorTypeOK'
    BY <1>1, <2>1, CoordinatorStep, CoordinatorAssumption
    DEF CoordinatorTypeOK, RequestRandomWords
  <2>3. RoundOK(new)
    BY <1>1, <2>1, <2>2, RequestedRoundOK
  <2>4. /\ roundIdList' \in Seq(RoundIds)
        /\ roundIdByRequestId' \in [RequestIds -> RoundIds \cup {0}]
    BY <1>1, <2>1
  <2> HIDE DEF new
  <2>5. QED
    BY <2>1, <2>2, <2>3, <2>4, ReplaceRound
<1>6. ASSUME NEW batch \in SUBSET DOMAIN rounds[r].matches, RevealRoundMatches(a, r, batch)
      PROVE  RoundInv'
  <2>1. /\ round.state = "RandomnessReady"
        /\ batch \subseteq DOMAIN round.matches
        /\ \A m \in batch : ~round.matches[m].revealed
        /\ rounds' = [rounds EXCEPT ![r] = RevealedRound(round, r, batch)]
        /\ UNCHANGED <<roundIdList, roundIdByRequestId, coordinatorVars>>
    BY <1>6 DEF RevealRoundMatches, RevealedRound, round
  <2>2. RoundOK(RevealedRound(round, r, batch))
    BY <1>1, <2>1, RevealedRoundOK
  <2>3. CoordinatorTypeOK'
    BY <1>1, <2>1, CoordinatorStep
  <2>4. /\ roundIdList' \in Seq(RoundIds)
        /\ roundIdByRequestId' \in [RequestIds -> RoundIds \cup {0}]
    BY <1>1, <2>1
  <2>5. QED
    BY <2>1, <2>2, <2>3, <2>4, ReplaceRound
<1>7. QED
  BY <1>3, <1>4, <1>5, <1>6 DEF RoundCall

LEMMA FulfillRoundInv ==
  ASSUME RoundInv, NEW id \in RequestIds, NEW word \in Words, FulfillRound(id, word)
  PROVE  RoundInv'
<1> DEFINE r   == roundIdByRequestId[id]
           new == [rounds[r] EXCEPT !.randomWord = word, !.revealedMatchCount = 0,
                                    !.state = "RandomnessReady"]
<1>1. /\ CoordinatorTypeOK
      /\ roundIdList \in Seq(RoundIds)
      /\ roundIdByRequestId \in [RequestIds -> RoundIds \cup {0}]
      /\ \A q \in RoundIds : RoundOK(rounds[q])
  BY RoundInvParts
<1>2. /\ Callback(id)
      /\ rounds[r].state = "RandomnessRequested"
      /\ rounds' = [rounds EXCEPT ![r] = new]
      /\ UNCHANGED <<roundIdList, roundIdByRequestId>>
  BY DEF FulfillRound
<1>3. r \in RoundIds
  BY <1>1 DEF FulfillRound
<1>4. RoundOK(new)
  BY <1>1, <1>2, <1>3, AnsweredRoundOK
<1>5. CoordinatorTypeOK'
  BY <1>1, <1>2, CoordinatorStep
<1> HIDE DEF r, new
<1>6. QED
  BY <1>1, <1>2, <1>3, <1>4, <1>5, ReplaceRound

LEMMA RoundInvUnchanged ==
  ASSUME RoundInv, UNCHANGED roundVars, CoordinatorTypeOK'
  PROVE  RoundInv'
BY DEF RoundInv, RoundTypeOK, RoundBookkeeping, RoundLifecycle, roundVars

LEMMA RoundInvNext == RoundInv /\ [Next]_vars => RoundInv'
<1> SUFFICES ASSUME RoundInv, [Next]_vars PROVE RoundInv'
  OBVIOUS
<1>1. CoordinatorTypeOK
  BY DEF RoundInv
<1>2. CASE AccessNext /\ UNCHANGED <<coordinatorVars, roundVars, slotVars>>
  BY <1>1, <1>2, CoordinatorStep, RoundInvUnchanged
<1>3. ASSUME NEW a \in Accounts, NEW r \in RoundIds, RoundCall(a, r) PROVE RoundInv'
  BY <1>3, RoundCallInv
<1>4. ASSUME NEW a \in Accounts, NEW d \in DrawIds, SlotCall(a, d), UNCHANGED roundVars
      PROVE  RoundInv'
  BY <1>1, <1>4, SlotCallCoordinator, CoordinatorStep, RoundInvUnchanged
<1>5. ASSUME NEW id \in RequestIds, NEW word \in Words, FulfillRandomWords(id, word)
      PROVE  RoundInv'
  <2>1. CASE FulfillRound(id, word)
    BY <2>1, FulfillRoundInv
  <2>2. CASE FulfillDraw(id, word) /\ UNCHANGED roundVars
    <3>1. Callback(id)
      BY <2>2 DEF FulfillDraw
    <3>2. QED
      BY <1>1, <2>2, <3>1, CoordinatorStep, RoundInvUnchanged
  <2>3. QED
    BY <1>5, <2>1, <2>2 DEF FulfillRandomWords
<1>6. CASE UNCHANGED vars
  BY <1>1, <1>6, CoordinatorStep, RoundInvUnchanged DEF vars
<1>7. QED
  BY <1>2, <1>3, <1>4, <1>5, <1>6 DEF Next

LEMMA RoundInvHolds == Spec => []RoundInv
BY RoundInvInit, RoundInvNext, PTL DEF Spec

-----------------------------------------------------------------------------
(* The theorems about rounds. *)

(* The storage of the rounds keeps its Solidity types, and every match that is
   registered passed the input checks. *)
THEOREM RoundsAreTyped == Spec => []RoundTypeOK
<1>1. RoundInv => RoundTypeOK
  BY DEF RoundInv
<1>2. QED
  BY <1>1, RoundInvHolds, PTL

(* matchIds, knownMatches and revealedMatchCount agree after any sequence of
   finalize, reset, request, answer and reveal calls. *)
THEOREM BookkeepingCorrect == Spec => []RoundBookkeeping
<1>1. RoundInv => RoundBookkeeping
  BY DEF RoundInv
<1>2. QED
  BY <1>1, RoundInvHolds, PTL

(* No match is revealed before the random word has arrived, and a round is
   Fulfilled exactly when its last match is revealed. *)
THEOREM LifecycleCorrect == Spec => []RoundLifecycle
<1>1. RoundInv => RoundLifecycle
  BY DEF RoundInv
<1>2. QED
  BY <1>1, RoundInvHolds, PTL

-----------------------------------------------------------------------------
(* The access rules. *)

(* Ownership can only be accepted by somebody the present owner nominated. *)
THEOREM NominationCorrect == Spec => []NominationIsCurrent
<1>1. Init => NominationIsCurrent
  BY DEF Init, AccessInit, NominationIsCurrent
<1>2. NominationIsCurrent /\ [Next]_vars => NominationIsCurrent'
  <2> SUFFICES ASSUME NominationIsCurrent, [Next]_vars PROVE NominationIsCurrent'
    OBVIOUS
  <2>1. CASE AccessNext
    BY <2>1 DEF AccessNext, TransferOwnership, AcceptOwnership, SetDrawOperator, SetAdmin,
                SetVrfConfig, SetDefaultPrizeSlotCount, NominationIsCurrent
  <2>2. CASE UNCHANGED accessVars
    BY <2>2 DEF accessVars, NominationIsCurrent
  <2>3. QED
    BY <2>1, <2>2 DEF Next, vars
<1>3. QED
  BY <1>1, <1>2, PTL DEF Spec

(* The access rules and settings keep their types: the default prize slot
   count stays within its limits and the VRF configuration usable. *)
THEOREM AccessIsTyped == Spec => []AccessTypeOK
<1>1. Init => AccessTypeOK
  BY AccessAssumption DEF Init, AccessInit, AccessTypeOK
<1>2. AccessTypeOK /\ [Next]_vars => AccessTypeOK'
  <2> SUFFICES ASSUME AccessTypeOK, [Next]_vars PROVE AccessTypeOK'
    OBVIOUS
  <2>1. CASE AccessNext
    BY <2>1 DEF AccessNext, TransferOwnership, AcceptOwnership, SetDrawOperator, SetAdmin,
                SetVrfConfig, SetDefaultPrizeSlotCount, AccessTypeOK
  <2>2. CASE UNCHANGED accessVars
    BY <2>2 DEF accessVars, AccessTypeOK
  <2>3. QED
    BY <2>1, <2>2 DEF Next, vars
<1>3. QED
  BY <1>1, <1>2, PTL DEF Spec

-----------------------------------------------------------------------------
(* The inductive invariant of the requests.  A round or draw is seen here by
   its state and request id only. *)

DrawFields ==
  {"state", "ledgerHash", "totalTickets", "prizeSlotCount", "requestId", "randomWord",
   "revealedPrizeSlots", "revealedTickets", "allComputedTickets"}

SlotShape ==
  /\ draws = [d \in DrawIds |-> draws[d]]
  /\ \A d \in DrawIds : draws[d] = [f \in DrawFields |-> draws[d][f]]
  /\ drawIdByRequestId \in [RequestIds -> DrawIds \cup {0}]

(* No table has an entry for a request that has not been made. *)
TablesUpToDate ==
  \A id \in RequestIds :
    id >= nextRequestId => roundIdByRequestId[id] = 0 /\ drawIdByRequestId[id] = 0

(* A round's request is one it made and has an answer exactly when the round
   holds a word. *)
RoundAsks(r) ==
  LET round == rounds[r]
  IN  /\ round.requestId \in 0..MaxRequests
      /\ round.requestId # 0 =>
           round.requestId < nextRequestId /\ roundIdByRequestId[round.requestId] = r
      /\ round.state = "RandomnessRequested" =>
           round.requestId # 0 /\ round.requestId \notin answered
      /\ round.state \in {"RandomnessReady", "Fulfilled"} => round.requestId \in answered

(* The same for a draw; fulfillRandomWords must not find a round first. *)
DrawAsks(d) ==
  LET draw == draws[d]
  IN  /\ draw.requestId \in 0..MaxRequests
      /\ draw.requestId # 0 =>
           /\ draw.requestId < nextRequestId
           /\ drawIdByRequestId[draw.requestId] = d
           /\ roundIdByRequestId[draw.requestId] = 0
      /\ draw.state = "RandomnessRequested" =>
           draw.requestId # 0 /\ draw.requestId \notin answered
      /\ draw.state \in {"RandomnessReady", "Fulfilled"} => draw.requestId \in answered

RequestInv ==
  /\ RoundInv /\ SlotShape /\ TablesUpToDate
  /\ \A r \in RoundIds : RoundAsks(r)
  /\ \A d \in DrawIds : DrawAsks(d)

(* What finalize, reset and reveal calls do to a round or draw. *)
Settled(old, new) ==
  \/ new.requestId = 0 /\ new.state \in {"Draft", "LedgerFinalized"}
  \/ /\ new.requestId = old.requestId
     /\ old.state = "RandomnessReady" /\ new.state \in {"RandomnessReady", "Fulfilled"}

(* What a request does. *)
Waiting(new) == new.requestId = nextRequestId /\ new.state = "RandomnessRequested"

(* What an accepted answer does. *)
Answers(id, old, new) ==
  /\ old.state = "RandomnessRequested" /\ old.requestId = id
  /\ new.requestId = id /\ new.state = "RandomnessReady"

LEMMA RoundCallEffect ==
  ASSUME RoundInv, NEW a \in Accounts, NEW r \in RoundIds, RoundCall(a, r)
  PROVE  /\ \A q \in RoundIds \ {r} : rounds'[q] = rounds[q]
         /\ \/ /\ Settled(rounds[r], rounds'[r])
               /\ UNCHANGED <<roundIdByRequestId, coordinatorVars>>
            \/ /\ Waiting(rounds'[r]) /\ RequestRandomWords
               /\ roundIdByRequestId' = [roundIdByRequestId EXCEPT ![nextRequestId] = r]
<1>1. rounds = [q \in RoundIds |-> rounds[q]] /\ IsRound(rounds[r])
  BY RoundInvParts DEF RoundOK
<1>2. rounds[r] \in RoundRecord(rounds[r].matches)
  BY <1>1 DEF IsRound
<1>3. ASSUME NEW hash \in LedgerHashes, NEW inputs \in MatchLists,
             FinalizeRoundLedger(a, r, hash, inputs)
      PROVE  /\ \A q \in RoundIds \ {r} : rounds'[q] = rounds[q]
             /\ Settled(rounds[r], rounds'[r])
             /\ UNCHANGED <<roundIdByRequestId, coordinatorVars>>
  BY <1>1, <1>3 DEF FinalizeRoundLedger, Settled
<1>4. ASSUME ResetRoundDraft(a, r)
      PROVE  /\ \A q \in RoundIds \ {r} : rounds'[q] = rounds[q]
             /\ Settled(rounds[r], rounds'[r])
             /\ UNCHANGED <<roundIdByRequestId, coordinatorVars>>
  BY <1>1, <1>4 DEF ResetRoundDraft, EmptyRound, Settled
<1>5. ASSUME RequestRoundDraw(a, r)
      PROVE  /\ \A q \in RoundIds \ {r} : rounds'[q] = rounds[q]
             /\ Waiting(rounds'[r]) /\ RequestRandomWords
             /\ roundIdByRequestId' = [roundIdByRequestId EXCEPT ![nextRequestId] = r]
  BY <1>1, <1>2, <1>5 DEF RequestRoundDraw, Waiting, RoundRecord
<1>6. ASSUME NEW batch \in SUBSET DOMAIN rounds[r].matches, RevealRoundMatches(a, r, batch)
      PROVE  /\ \A q \in RoundIds \ {r} : rounds'[q] = rounds[q]
             /\ Settled(rounds[r], rounds'[r])
             /\ UNCHANGED <<roundIdByRequestId, coordinatorVars>>
  <2>1. /\ rounds[r].state = "RandomnessReady"
        /\ rounds' = [rounds EXCEPT ![r] = RevealedRound(rounds[r], r, batch)]
        /\ UNCHANGED <<roundIdByRequestId, coordinatorVars>>
    BY <1>6 DEF RevealRoundMatches, RevealedRound
  <2>2. /\ RevealedRound(rounds[r], r, batch).requestId = rounds[r].requestId
        /\ RevealedRound(rounds[r], r, batch).state \in {"RandomnessReady", "Fulfilled"}
    BY <1>2 DEF RevealedRound, RoundRecord
  <2>3. rounds'[r] = RevealedRound(rounds[r], r, batch)
    BY <1>1, <2>1
  <2>4. QED
    BY <1>1, <2>1, <2>2, <2>3 DEF Settled
<1>7. QED
  BY <1>3, <1>4, <1>5, <1>6 DEF RoundCall

LEMMA FulfillRoundEffect ==
  ASSUME RoundInv, NEW id \in RequestIds, NEW word \in Words, FulfillRound(id, word)
  PROVE  \E r \in RoundIds :
           /\ \A q \in RoundIds \ {r} : rounds'[q] = rounds[q]
           /\ Answers(id, rounds[r], rounds'[r])
           /\ roundIdByRequestId[id] = r
           /\ Callback(id) /\ UNCHANGED roundIdByRequestId
<1> DEFINE r == roundIdByRequestId[id]
<1>1. /\ r \in RoundIds
      /\ rounds = [q \in RoundIds |-> rounds[q]]
      /\ IsRound(rounds[r])
  BY RoundInvParts DEF FulfillRound, RoundOK
<1>2. rounds[r] \in RoundRecord(rounds[r].matches)
  BY <1>1 DEF IsRound
<1>3. /\ \A q \in RoundIds \ {r} : rounds'[q] = rounds[q]
      /\ Answers(id, rounds[r], rounds'[r])
      /\ Callback(id) /\ UNCHANGED roundIdByRequestId
  BY <1>1, <1>2 DEF FulfillRound, Answers, RoundRecord
<1>4. QED
  BY <1>1, <1>3

(* The same for the per-draw path. *)
LEMMA ReplaceDraw ==
  ASSUME SlotShape, NEW d \in DrawIds, NEW new, draws' = [draws EXCEPT ![d] = new],
         new = [f \in DrawFields |-> new[f]],
         drawIdByRequestId' \in [RequestIds -> DrawIds \cup {0}]
  PROVE  SlotShape' /\ draws'[d] = new /\ \A e \in DrawIds \ {d} : draws'[e] = draws[e]
<1>1. draws' = [e \in DrawIds |-> IF e = d THEN new ELSE draws[e]]
  BY DEF SlotShape
<1>2. QED
  BY <1>1 DEF SlotShape

LEMMA RevealSlotsEffect ==
  ASSUME SlotShape, NEW a, NEW d \in DrawIds, NEW slots, RevealSlots(a, d, slots)
  PROVE  /\ SlotShape'
         /\ \A e \in DrawIds \ {d} : draws'[e] = draws[e]
         /\ Settled(draws[d], draws'[d])
         /\ UNCHANGED <<drawIdByRequestId, coordinatorVars>>
<1> DEFINE drawn == DrawSlots(d, draws[d], slots)
           new   == [draws[d] EXCEPT
                       !.revealedPrizeSlots = drawn.revealedPrizeSlots,
                       !.revealedTickets = drawn.revealedTickets,
                       !.allComputedTickets =
                          IF AllRevealed(drawn)
                          THEN EnsureComputed(d, drawn, draws[d].prizeSlotCount - 1)
                          ELSE drawn.allComputedTickets,
                       !.state = IF AllRevealed(drawn) THEN "Fulfilled" ELSE "RandomnessReady"]
<1>1. draws' = [draws EXCEPT ![d] = new]
  BY DEF RevealSlots
<1> HIDE DEF drawn
<1>2. draws[d] = [f \in DrawFields |-> draws[d][f]]
  BY DEF SlotShape
<1>3. /\ new = [f \in DrawFields |-> new[f]]
      /\ new.requestId = draws[d].requestId
      /\ new.state \in {"RandomnessReady", "Fulfilled"}
  BY <1>2 DEF DrawFields
<1>4. /\ draws[d].state = "RandomnessReady"
      /\ UNCHANGED <<drawIdByRequestId, coordinatorVars>>
      /\ drawIdByRequestId' \in [RequestIds -> DrawIds \cup {0}]
  BY DEF RevealSlots, SlotShape
<1> HIDE DEF new
<1>5. QED
  BY <1>1, <1>3, <1>4, ReplaceDraw DEF Settled

LEMMA SlotCallEffect ==
  ASSUME RoundInv, SlotShape, NEW a \in Accounts, NEW d \in DrawIds, SlotCall(a, d)
  PROVE  /\ SlotShape'
         /\ \A e \in DrawIds \ {d} : draws'[e] = draws[e]
         /\ \/ /\ Settled(draws[d], draws'[d])
               /\ UNCHANGED <<drawIdByRequestId, coordinatorVars>>
            \/ /\ Waiting(draws'[d]) /\ RequestRandomWords
               /\ drawIdByRequestId' = [drawIdByRequestId EXCEPT ![nextRequestId] = d]
<1> DEFINE Goal1 == /\ SlotShape'
                    /\ \A e \in DrawIds \ {d} : draws'[e] = draws[e]
                    /\ Settled(draws[d], draws'[d])
                    /\ UNCHANGED <<drawIdByRequestId, coordinatorVars>>
<1>1. /\ draws[d] = [f \in DrawFields |-> draws[d][f]]
      /\ drawIdByRequestId \in [RequestIds -> DrawIds \cup {0}]
  BY DEF SlotShape
<1>2. ASSUME NEW hash \in LedgerHashes, NEW tickets \in TicketCounts, NEW slots \in SlotCounts,
             FinalizeLedger(a, d, hash, tickets, slots)
      PROVE  Goal1
  <2> DEFINE new == [ResetWinners(draws[d]) EXCEPT
                       !.ledgerHash = hash, !.totalTickets = tickets, !.prizeSlotCount = slots,
                       !.randomWord = 0, !.requestId = 0, !.state = "LedgerFinalized"]
  <2>1. /\ new = [f \in DrawFields |-> new[f]]
        /\ new.requestId = 0 /\ new.state = "LedgerFinalized"
    BY <1>1 DEF ResetWinners, DrawFields
  <2>2. /\ draws' = [draws EXCEPT ![d] = new]
        /\ UNCHANGED <<drawIdByRequestId, coordinatorVars>>
    BY <1>2 DEF FinalizeLedger
  <2> HIDE DEF new
  <2>3. QED
    BY <1>1, <2>1, <2>2, ReplaceDraw DEF Settled
<1>3. ASSUME ResetDraft(a, d) PROVE Goal1
  <2>1. /\ EmptyDraw = [f \in DrawFields |-> EmptyDraw[f]]
        /\ EmptyDraw.requestId = 0 /\ EmptyDraw.state = "Draft"
    BY DEF EmptyDraw, DrawFields
  <2>2. /\ draws' = [draws EXCEPT ![d] = EmptyDraw]
        /\ UNCHANGED <<drawIdByRequestId, coordinatorVars>>
    BY <1>3 DEF ResetDraft
  <2>3. QED
    BY <1>1, <2>1, <2>2, ReplaceDraw DEF Settled
<1>4. ASSUME RequestDraw(a, d)
      PROVE  /\ SlotShape'
             /\ \A e \in DrawIds \ {d} : draws'[e] = draws[e]
             /\ Waiting(draws'[d]) /\ RequestRandomWords
             /\ drawIdByRequestId' = [drawIdByRequestId EXCEPT ![nextRequestId] = d]
  <2> DEFINE new == [draws[d] EXCEPT !.requestId = nextRequestId, !.state = "RandomnessRequested"]
  <2>1. /\ new = [f \in DrawFields |-> new[f]] /\ Waiting(new)
    BY <1>1 DEF Waiting, DrawFields
  <2>2. /\ draws' = [draws EXCEPT ![d] = new] /\ RequestRandomWords
        /\ drawIdByRequestId' = [drawIdByRequestId EXCEPT ![nextRequestId] = d]
        /\ drawIdByRequestId' \in [RequestIds -> DrawIds \cup {0}]
    BY <1>1, <1>4 DEF RequestDraw
  <2> HIDE DEF new
  <2>3. SlotShape' /\ draws'[d] = new /\ \A e \in DrawIds \ {d} : draws'[e] = draws[e]
    BY <2>1, <2>2, ReplaceDraw
  <2>4. QED
    BY <2>1, <2>2, <2>3
<1>5. ASSUME NEW slots, RevealSlots(a, d, slots) PROVE Goal1
  BY <1>5, RevealSlotsEffect
<1>6. QED
  <2>1. CASE \E hash \in LedgerHashes, tickets \in TicketCounts, slots \in SlotCounts :
               FinalizeLedger(a, d, hash, tickets, slots)
    BY <2>1, <1>2
  <2>2. CASE ResetDraft(a, d)
    BY <2>2, <1>3
  <2>3. CASE RequestDraw(a, d)
    BY <2>3, <1>4
  <2>4. CASE \E slots : RevealSlots(a, d, slots)
    BY <2>4, <1>5
  <2>5. QED
    BY <2>1, <2>2, <2>3, <2>4
    DEF SlotCall, DrawNext, DrawBatch, DrawPrizeSlot, DrawPrizeSlots, DrawRandomPrizeSlot

LEMMA FulfillDrawEffect ==
  ASSUME SlotShape, NEW id \in RequestIds, NEW word \in Words, FulfillDraw(id, word)
  PROVE  /\ SlotShape'
         /\ \E d \in DrawIds :
              /\ \A e \in DrawIds \ {d} : draws'[e] = draws[e]
              /\ Answers(id, draws[d], draws'[d])
              /\ drawIdByRequestId[id] = d /\ roundIdByRequestId[id] = 0
              /\ Callback(id) /\ UNCHANGED drawIdByRequestId
<1> DEFINE d   == drawIdByRequestId[id]
           new == [ResetWinners(draws[d]) EXCEPT !.randomWord = word, !.state = "RandomnessReady"]
<1>1. d \in DrawIds /\ draws[d] = [f \in DrawFields |-> draws[d][f]]
  BY DEF FulfillDraw, SlotShape
<1>2. /\ new = [f \in DrawFields |-> new[f]]
      /\ new.requestId = draws[d].requestId /\ new.state = "RandomnessReady"
  BY <1>1 DEF ResetWinners, DrawFields
<1>3. /\ draws' = [draws EXCEPT ![d] = new]
      /\ draws[d].state = "RandomnessRequested" /\ draws[d].requestId = id
      /\ roundIdByRequestId[id] = 0 /\ Callback(id) /\ UNCHANGED drawIdByRequestId
      /\ drawIdByRequestId' \in [RequestIds -> DrawIds \cup {0}]
  BY DEF FulfillDraw, SlotShape
<1> HIDE DEF d, new
<1>4. SlotShape' /\ draws'[d] = new /\ \A e \in DrawIds \ {d} : draws'[e] = draws[e]
  BY <1>1, <1>2, <1>3, ReplaceDraw
<1>5. drawIdByRequestId[id] = d
  BY DEF d
<1>6. QED
  BY <1>1, <1>2, <1>3, <1>4, <1>5 DEF Answers

-----------------------------------------------------------------------------
(* RequestInv is inductive. *)

LEMMA RequestInvInit == Init => RequestInv
<1> SUFFICES ASSUME Init PROVE RequestInv
  OBVIOUS
<1>1. RoundInv
  BY RoundInvInit
<1>2. /\ \A r \in RoundIds : rounds[r].state = "Draft" /\ rounds[r].requestId = 0
      /\ \A id \in RequestIds : roundIdByRequestId[id] = 0 /\ drawIdByRequestId[id] = 0
      /\ \A d \in DrawIds : draws[d] = EmptyDraw
  BY DEF Init, RoundInit, EmptyRound, SlotInit
<1>3. SlotShape
  BY <1>2 DEF Init, SlotInit, SlotShape, EmptyDraw, DrawFields
<1>4. \A d \in DrawIds : draws[d].state = "Draft" /\ draws[d].requestId = 0
  BY <1>2 DEF EmptyDraw
<1>5. TablesUpToDate
  BY <1>2 DEF TablesUpToDate
<1>6. /\ \A r \in RoundIds : RoundAsks(r)
      /\ \A d \in DrawIds : DrawAsks(d)
  BY <1>2, <1>4, CoordinatorAssumption DEF RoundAsks, DrawAsks
<1>7. QED
  BY <1>1, <1>3, <1>5, <1>6 DEF RequestInv

(* A call on the round path: the draws are untouched, and a request takes the
   next id, which no table and no draw knows. *)
LEMMA RequestInvRoundCall ==
  ASSUME RequestInv, NEW a \in Accounts, NEW r \in RoundIds, RoundCall(a, r), UNCHANGED slotVars
  PROVE  RequestInv'
<1>1. RoundInv /\ RoundInv' /\ SlotShape'
  BY RoundCallInv DEF RequestInv, SlotShape, slotVars
<1>2. CoordinatorTypeOK /\ roundIdByRequestId \in [RequestIds -> RoundIds \cup {0}]
  BY <1>1, RoundInvParts
<1>3. \A q \in RoundIds \ {r} : rounds'[q] = rounds[q]
  BY <1>1, RoundCallEffect
<1>4. CASE /\ Settled(rounds[r], rounds'[r])
           /\ UNCHANGED <<roundIdByRequestId, coordinatorVars>>
  <2>1. ASSUME NEW q \in RoundIds PROVE RoundAsks(q)'
    BY <1>3, <1>4, CoordinatorAssumption DEF RequestInv, RoundAsks, Settled, coordinatorVars
  <2>2. /\ \A d \in DrawIds : DrawAsks(d)'
        /\ TablesUpToDate'
    BY <1>4 DEF RequestInv, DrawAsks, TablesUpToDate, coordinatorVars, slotVars
  <2>3. QED
    BY <1>1, <2>1, <2>2 DEF RequestInv
<1>5. CASE /\ Waiting(rounds'[r]) /\ RequestRandomWords
           /\ roundIdByRequestId' = [roundIdByRequestId EXCEPT ![nextRequestId] = r]
  <2>1. /\ nextRequestId \in RequestIds /\ nextRequestId' = nextRequestId + 1
        /\ answered' = answered /\ nextRequestId \notin answered
    BY <1>2, <1>5, CoordinatorAssumption
    DEF RequestRandomWords, CoordinatorTypeOK, RequestIds
  <2>2. /\ roundIdByRequestId'[nextRequestId] = r
        /\ \A id \in RequestIds :
             id # nextRequestId => roundIdByRequestId'[id] = roundIdByRequestId[id]
    BY <1>2, <1>5, <2>1
  <2>3. RoundAsks(r)'
    BY <1>5, <2>1, <2>2 DEF RoundAsks, Waiting, RequestIds
  <2>4. ASSUME NEW q \in RoundIds \ {r} PROVE RoundAsks(q)'
    BY <1>3, <2>1, <2>2 DEF RequestInv, RoundAsks, RequestIds
  <2>5. ASSUME NEW d \in DrawIds PROVE DrawAsks(d)'
    BY <2>1, <2>2 DEF RequestInv, DrawAsks, RequestIds, slotVars
  <2>6. TablesUpToDate'
    BY <2>1, <2>2 DEF RequestInv, TablesUpToDate, RequestIds, slotVars
  <2>7. QED
    BY <1>1, <2>3, <2>4, <2>5, <2>6 DEF RequestInv
<1>6. QED
  BY <1>1, <1>4, <1>5, RoundCallEffect

(* A call on the per-draw path. *)
LEMMA RequestInvSlotCall ==
  ASSUME RequestInv, NEW a \in Accounts, NEW d \in DrawIds, SlotCall(a, d), UNCHANGED roundVars,
         RoundInv'
  PROVE  RequestInv'
<1>1. RoundInv /\ SlotShape
  BY DEF RequestInv
<1>2. /\ CoordinatorTypeOK
      /\ drawIdByRequestId \in [RequestIds -> DrawIds \cup {0}]
      /\ SlotShape'
      /\ \A e \in DrawIds \ {d} : draws'[e] = draws[e]
  BY <1>1, RoundInvParts, SlotCallEffect DEF SlotShape
<1>3. CASE /\ Settled(draws[d], draws'[d])
           /\ UNCHANGED <<drawIdByRequestId, coordinatorVars>>
  <2>1. ASSUME NEW e \in DrawIds PROVE DrawAsks(e)'
    BY <1>2, <1>3, CoordinatorAssumption
    DEF RequestInv, DrawAsks, Settled, coordinatorVars, roundVars
  <2>2. /\ \A r \in RoundIds : RoundAsks(r)'
        /\ TablesUpToDate'
    BY <1>3 DEF RequestInv, RoundAsks, TablesUpToDate, coordinatorVars, roundVars
  <2>3. QED
    BY <1>2, <2>1, <2>2 DEF RequestInv
<1>4. CASE /\ Waiting(draws'[d]) /\ RequestRandomWords
           /\ drawIdByRequestId' = [drawIdByRequestId EXCEPT ![nextRequestId] = d]
  <2>1. /\ nextRequestId \in RequestIds /\ nextRequestId' = nextRequestId + 1
        /\ answered' = answered /\ nextRequestId \notin answered
    BY <1>2, <1>4, CoordinatorAssumption
    DEF RequestRandomWords, CoordinatorTypeOK, RequestIds
  <2>2. /\ drawIdByRequestId'[nextRequestId] = d
        /\ \A id \in RequestIds :
             id # nextRequestId => drawIdByRequestId'[id] = drawIdByRequestId[id]
        /\ roundIdByRequestId' = roundIdByRequestId /\ roundIdByRequestId[nextRequestId] = 0
    BY <1>2, <1>4, <2>1 DEF roundVars, RequestInv, TablesUpToDate, CoordinatorTypeOK
  <2>3. DrawAsks(d)'
    BY <1>4, <2>1, <2>2 DEF DrawAsks, Waiting, RequestIds
  <2>4. ASSUME NEW e \in DrawIds \ {d} PROVE DrawAsks(e)'
    BY <1>2, <2>1, <2>2 DEF RequestInv, DrawAsks, RequestIds
  <2>5. ASSUME NEW r \in RoundIds PROVE RoundAsks(r)'
    BY <2>1, <2>2 DEF RequestInv, RoundAsks, RequestIds, roundVars
  <2>6. TablesUpToDate'
    BY <2>1, <2>2 DEF RequestInv, TablesUpToDate, RequestIds
  <2>7. QED
    BY <1>2, <2>3, <2>4, <2>5, <2>6 DEF RequestInv
<1>5. QED
  BY <1>1, <1>3, <1>4, SlotCallEffect

(* An accepted answer.  Only the round or draw that the table names waits for
   it, so nobody else's answer is marked. *)
LEMMA RequestInvAnswer ==
  ASSUME RequestInv, NEW id \in RequestIds, NEW word \in Words, RoundInv',
         \/ FulfillRound(id, word) /\ UNCHANGED slotVars
         \/ FulfillDraw(id, word) /\ UNCHANGED roundVars
  PROVE  RequestInv'
<1>1. RoundInv /\ SlotShape
  BY DEF RequestInv
<1>2. CASE FulfillRound(id, word) /\ UNCHANGED slotVars
  <2>1. PICK r \in RoundIds :
          /\ \A q \in RoundIds \ {r} : rounds'[q] = rounds[q]
          /\ Answers(id, rounds[r], rounds'[r])
          /\ roundIdByRequestId[id] = r
          /\ Callback(id) /\ UNCHANGED roundIdByRequestId
    BY <1>1, <1>2, FulfillRoundEffect
  <2>2. r # 0
    BY RoundAssumption
  <2>3. ASSUME NEW q \in RoundIds \ {r} PROVE RoundAsks(q)'
    BY <2>1 DEF RequestInv, RoundAsks, Callback, RequestIds
  <2>4. RoundAsks(r)'
    BY <2>1 DEF RequestInv, RoundAsks, Callback, Answers
  <2>5. ASSUME NEW d \in DrawIds PROVE DrawAsks(d)'
    BY <1>2, <2>1, <2>2 DEF RequestInv, DrawAsks, Callback, slotVars
  <2>6. TablesUpToDate' /\ SlotShape'
    BY <1>1, <1>2, <2>1 DEF RequestInv, TablesUpToDate, SlotShape, Callback, slotVars
  <2>7. QED
    BY <2>3, <2>4, <2>5, <2>6 DEF RequestInv
<1>3. CASE FulfillDraw(id, word) /\ UNCHANGED roundVars
  <2>1. SlotShape'
    BY <1>1, <1>3, FulfillDrawEffect
  <2>2. PICK d \in DrawIds :
          /\ \A e \in DrawIds \ {d} : draws'[e] = draws[e]
          /\ Answers(id, draws[d], draws'[d])
          /\ drawIdByRequestId[id] = d /\ roundIdByRequestId[id] = 0
          /\ Callback(id) /\ UNCHANGED drawIdByRequestId
    BY <1>1, <1>3, FulfillDrawEffect
  <2>3. ASSUME NEW e \in DrawIds \ {d} PROVE DrawAsks(e)'
    BY <1>3, <2>2 DEF RequestInv, DrawAsks, Callback, RequestIds, roundVars
  <2>4. DrawAsks(d)'
    BY <1>3, <2>2 DEF RequestInv, DrawAsks, Callback, Answers, roundVars
  <2>5. ASSUME NEW r \in RoundIds PROVE RoundAsks(r)'
    <3>1. r # 0
      BY RoundAssumption
    <3>2. QED
      BY <1>3, <2>2, <3>1 DEF RequestInv, RoundAsks, Callback, roundVars
  <2>6. TablesUpToDate'
    BY <1>3, <2>2 DEF RequestInv, TablesUpToDate, Callback, roundVars
  <2>7. QED
    BY <2>1, <2>3, <2>4, <2>5, <2>6 DEF RequestInv
<1>4. QED
  BY <1>2, <1>3

LEMMA RequestInvUnchanged ==
  ASSUME RequestInv, RoundInv', UNCHANGED <<coordinatorVars, roundVars, slotVars>>
  PROVE  RequestInv'
BY DEF RequestInv, SlotShape, TablesUpToDate, RoundAsks, DrawAsks,
       coordinatorVars, roundVars, slotVars

LEMMA RequestInvNext == RequestInv /\ [Next]_vars => RequestInv'
<1> SUFFICES ASSUME RequestInv, [Next]_vars PROVE RequestInv'
  OBVIOUS
<1>1. RoundInv'
  BY RoundInvNext DEF RequestInv
<1>2. CASE UNCHANGED <<coordinatorVars, roundVars, slotVars>>
  BY <1>1, <1>2, RequestInvUnchanged
<1>3. ASSUME NEW a \in Accounts, NEW r \in RoundIds, RoundCall(a, r), UNCHANGED slotVars
      PROVE  RequestInv'
  BY <1>3, RequestInvRoundCall
<1>4. ASSUME NEW a \in Accounts, NEW d \in DrawIds, SlotCall(a, d), UNCHANGED roundVars
      PROVE  RequestInv'
  BY <1>1, <1>4, RequestInvSlotCall
<1>5. ASSUME NEW id \in RequestIds, NEW word \in Words, FulfillRandomWords(id, word)
      PROVE  RequestInv'
  BY <1>1, <1>5, RequestInvAnswer DEF FulfillRandomWords
<1>6. QED
  BY <1>2, <1>3, <1>4, <1>5 DEF Next, vars

LEMMA RequestInvHolds == Spec => []RequestInv
BY RequestInvInit, RequestInvNext, PTL DEF Spec

(* Every outstanding request leads back to the one round or draw that made it
   and is waiting for it. *)
THEOREM RequestsCorrect == Spec => []RequestsReachTheirDraw
<1>1. RequestInv => RequestsReachTheirDraw
  BY DEF RequestInv, RoundAsks, DrawAsks, RequestsReachTheirDraw
<1>2. QED
  BY <1>1, RequestInvHolds, PTL

(* A round or draw holds a word exactly when its current request has been
   answered: no late or repeated answer stands in for it. *)
THEOREM AnswersCorrect == Spec => []WordAnswersCurrentRequest
<1>1. RequestInv => WordAnswersCurrentRequest
  BY DEF RequestInv, RoundAsks, DrawAsks, WordAnswersCurrentRequest
<1>2. QED
  BY <1>1, RequestInvHolds, PTL

-----------------------------------------------------------------------------
(* The ranks of numbers in a set, and the scans that look for a rank. *)

(* The remainder of a hash is a rank. *)
LEMMA ModRange == \A h \in Nat, m \in Nat \ {0} : h % m \in 0..(m - 1)
OBVIOUS

(* Over two cycles a hash runs through the remainders twice. *)
LEMMA ModTwice == \A m \in Nat \ {0} : \A h \in 0..(2 * m - 1) : h % m = IF h < m THEN h ELSE h - m
OBVIOUS

(* How many of a set come before an element. *)
Rank(S, t) == Cardinality({u \in S : u < t})

(* The rank of a number in a finite set is a natural number ... *)
LEMMA RankFinite ==
  ASSUME NEW S \in SUBSET Nat, IsFiniteSet(S), NEW t
  PROVE  IsFiniteSet({u \in S : u < t}) /\ Rank(S, t) \in Nat
<1>1. {u \in S : u < t} \subseteq S
  OBVIOUS
<1> QED
  BY <1>1, FS_Subset, FS_CardinalityType DEF Rank

(* ... it grows with the number ... *)
LEMMA RankInOrder ==
  ASSUME NEW S \in SUBSET Nat, IsFiniteSet(S), NEW t \in S, NEW v \in S, t < v
  PROVE  Rank(S, t) < Rank(S, v)
<1> DEFINE below == {u \in S : u < t}
           upTo == below \cup {t}
<1>1. IsFiniteSet(below) /\ IsFiniteSet({u \in S : u < v}) /\ t \notin below
  BY RankFinite
<1>2. upTo \subseteq {u \in S : u < v}
  <2>1. \A u, x, y \in Nat : u < x /\ x < y => u < y
    OBVIOUS
  <2>2. \A u \in S : u < t => u < v
    BY <2>1
  <2> QED
    BY <2>2
<1>3. Cardinality(upTo) = Cardinality(below) + 1
  BY <1>1, FS_AddElement
<1>4. Cardinality(upTo) =< Cardinality({u \in S : u < v})
  BY <1>1, <1>2, FS_Subset
<1> QED
  BY <1>1, <1>3, <1>4, FS_CardinalityType DEF Rank

(* ... and is less than the size of the set. *)
LEMMA RankBelow ==
  ASSUME NEW S \in SUBSET Nat, IsFiniteSet(S), NEW t \in S
  PROVE  Rank(S, t) < Cardinality(S)
<1> DEFINE below == {u \in S : u < t}
<1>1. IsFiniteSet(below) /\ t \notin below /\ below \cup {t} \subseteq S
  BY RankFinite
<1>2. Cardinality(below \cup {t}) = Cardinality(below) + 1
  BY <1>1, FS_AddElement
<1>3. Cardinality(below \cup {t}) =< Cardinality(S)
  BY <1>1, FS_Subset
<1> QED
  BY <1>1, <1>2, <1>3, FS_CardinalityType DEF Rank

(* Without the least element, one comes before fewer. *)
LEMMA RankWithout ==
  ASSUME NEW S \in SUBSET Nat, IsFiniteSet(S), NEW m \in S, NEW t \in S, t # m, \A u \in S : m =< u
  PROVE  Rank(S, t) = Rank(S \ {m}, t) + 1
<1> DEFINE below == {u \in S \ {m} : u < t}
<1>1. IsFiniteSet(below) /\ m \notin below /\ {u \in S : u < t} = below \cup {m}
  <2>1. IsFiniteSet(S \ {m})
    BY FS_Subset
  <2>2. IsFiniteSet(below)
    BY <2>1, FS_Subset
  <2> QED
    BY <2>2
<1> QED
  BY <1>1, FS_AddElement DEF Rank

(* The least element comes first. *)
LEMMA RankOfLeast ==
  ASSUME NEW S \in SUBSET Nat, NEW m \in S, \A u \in S : m =< u
  PROVE  Rank(S, m) = 0
<1>1. \A u \in S : ~ (u < m)
  OBVIOUS
<1>2. {u \in S : u < m} = {}
  BY <1>1
<1> QED
  BY <1>2, FS_EmptySet DEF Rank

(* Every rank is taken. *)
LEMMA RankTaken ==
  ASSUME NEW S \in SUBSET Nat, IsFiniteSet(S), NEW l \in Nat, l < Cardinality(S)
  PROVE  \E t \in S : Rank(S, t) = l
<1> DEFINE G == {T \in SUBSET S : \A k \in Nat : k < Cardinality(T) => \E t \in T : Rank(T, t) = k}
<1>1. ASSUME NEW T \in SUBSET S, \A U \in SUBSET T : U # T => U \in G
      PROVE  T \in G
  <2> SUFFICES ASSUME NEW k \in Nat, k < Cardinality(T)
               PROVE  \E t \in T : Rank(T, t) = k
    OBVIOUS
  <2>1. IsFiniteSet(T) /\ T \in SUBSET Nat /\ Cardinality(T) \in Nat
    BY FS_Subset, FS_CardinalityType
  <2>2. T # {}
    BY FS_EmptySet
  <2>3. PICK m \in T : \A u \in T : m =< u
    BY <2>1, <2>2, NatLeast
  <2>4. CASE k = 0
    BY <2>1, <2>3, <2>4, RankOfLeast
  <2>5. CASE k # 0
    <3>0. Cardinality(T \ {m}) = Cardinality(T) - 1
      BY <2>1, <2>3, FS_RemoveElement
    <3>1. \A j \in Nat : j < Cardinality(T \ {m}) => \E t \in T \ {m} : Rank(T \ {m}, t) = j
      BY <1>1, <2>3
    <3>2. PICK t \in T \ {m} : Rank(T \ {m}, t) = k - 1
      BY <2>1, <2>5, <3>0, <3>1
    <3> QED
      BY <2>1, <2>3, <3>2, RankWithout
  <2> QED
    BY <2>4, <2>5
<1>2. G \in SUBSET SUBSET S
  OBVIOUS
<1> HIDE DEF G
<1>3. S \in G
  BY <1>1, <1>2, SubsetInduction
<1> QED
  BY <1>3 DEF G

(* The tickets (or slots) from c on that are still free. *)
FreeFrom(total, computed, c) == {t \in c..total : ~ Contains(computed, t)}

(* The element of a rank, or `none` if there is none. *)
AnyOf(ranked, none) == IF ranked = {} THEN none ELSE CHOOSE t \in ranked : TRUE

(* What a scan for the free element of rank l finds. *)
Found(S, l, none) == AnyOf({t \in S : Rank(S, t) = l}, none)

(* How the free tickets from c on differ from those from c + 1 on. *)
LEMMA FreeFinite ==
  ASSUME NEW total \in Nat, NEW computed, NEW c \in Nat
  PROVE  /\ FreeFrom(total, computed, c) \in SUBSET Nat /\ IsFiniteSet(FreeFrom(total, computed, c))
         /\ c \in FreeFrom(total, computed, c) =>
              FreeFrom(total, computed, c) \ {c} = FreeFrom(total, computed, c + 1)
         /\ c \notin FreeFrom(total, computed, c) =>
              FreeFrom(total, computed, c) = FreeFrom(total, computed, c + 1)
         /\ \A t \in FreeFrom(total, computed, c) : c =< t
<1>1. IsFiniteSet(c..total) /\ FreeFrom(total, computed, c) \subseteq c..total
  BY FS_Interval DEF FreeFrom
<1>2. IsFiniteSet(FreeFrom(total, computed, c))
  BY <1>1, FS_Subset
<1>3. \A t : t \in c..total <=> t \in (c + 1)..total \/ (t = c /\ c =< total)
  OBVIOUS
<1> QED
  BY <1>2, <1>3 DEF FreeFrom

(* A rank below the size of the set is found ... *)
LEMMA FoundRank ==
  ASSUME NEW S \in SUBSET Nat, IsFiniteSet(S), NEW l \in Nat, l < Cardinality(S), NEW none
  PROVE  Found(S, l, none) \in S /\ Rank(S, Found(S, l, none)) = l
<1> DEFINE ranked == {t \in S : Rank(S, t) = l}
<1>1. ranked # {}
  BY RankTaken
<1>2. Found(S, l, none) \in ranked
  BY <1>1 DEF Found, AnyOf
<1> QED
  BY <1>2

(* ... rank 0 is the least element ... *)
LEMMA FoundFirst ==
  ASSUME NEW S \in SUBSET Nat, IsFiniteSet(S), NEW c \in S, \A t \in S : c =< t, NEW none
  PROVE  Found(S, 0, none) = c
<1>1. Rank(S, c) = 0
  BY RankOfLeast
<1>2. \A t \in S : t # c => Rank(S, c) < Rank(S, t)
  BY RankInOrder
<1>3. {t \in S : Rank(S, t) = 0} = {c}
  <2>1. \A t \in S : t # c => Rank(S, t) # 0
    BY <1>1, <1>2
  <2> QED
    BY <1>1, <2>1
<1>4. AnyOf({c}, none) = c
  BY DEF AnyOf
<1> QED
  BY <1>3, <1>4 DEF Found

(* ... and a later one is an earlier one of the set without its least element. *)
LEMMA FoundLater ==
  ASSUME NEW S \in SUBSET Nat, IsFiniteSet(S), NEW c \in S, \A t \in S : c =< t, NEW l \in Nat \ {0}, NEW none
  PROVE  Found(S, l, none) = Found(S \ {c}, l - 1, none)
<1>1. \A t \in S \ {c} : Rank(S, t) = Rank(S \ {c}, t) + 1 /\ Rank(S \ {c}, t) \in Nat
  <2>1. IsFiniteSet(S \ {c})
    BY FS_Subset
  <2> QED
    BY <2>1, RankWithout, RankFinite
<1>2. Rank(S, c) = 0
  BY RankOfLeast
<1>3. \A t \in S : Rank(S, t) = l <=> t # c /\ Rank(S \ {c}, t) = l - 1
  BY <1>1, <1>2
<1>4. {t \in S : Rank(S, t) = l} = {t \in S \ {c} : Rank(S \ {c}, t) = l - 1}
  BY <1>3
<1> QED
  BY <1>4 DEF Found

(* What the scan of _drawUniqueTicket returns. *)
LEMMA ScanFinds ==
  ASSUME NEW total \in Nat, NEW computed, NEW target \in 0..total
  PROVE  ScanFree(total, computed, target) = Found(FreeFrom(total, computed, 1), target, 0)
<1> DEFINE D == (1..(total + 1)) \X (0..total)
           F(c) == FreeFrom(total, computed, c)
           Solves(f) == f = [at \in D |->
             IF at[1] > total THEN 0
             ELSE IF Contains(computed, at[1]) THEN f[<<at[1] + 1, at[2]>>]
             ELSE IF at[2] = 0 THEN at[1]
             ELSE f[<<at[1] + 1, at[2] - 1>>]]
           h == CHOOSE f : Solves(f)
           g == [at \in D |-> Found(F(at[1]), at[2], 0)]
<1>1. ASSUME NEW c \in 1..(total + 1), NEW l \in 0..total
      PROVE  Found(F(c), l, 0) =
               IF c > total THEN 0
               ELSE IF Contains(computed, c) THEN Found(F(c + 1), l, 0)
               ELSE IF l = 0 THEN c
               ELSE Found(F(c + 1), l - 1, 0)
  <2>1. CASE c > total
    <3>1. F(c) = {}
      BY <2>1 DEF FreeFrom
    <3> QED
      BY <2>1, <3>1 DEF Found, AnyOf
  <2>2. CASE c =< total /\ Contains(computed, c)
    BY <2>2, FreeFinite DEF FreeFrom
  <2>3. CASE c =< total /\ ~ Contains(computed, c)
    <3>1. c \in F(c) /\ F(c) \ {c} = F(c + 1) /\ F(c) \in SUBSET Nat /\ IsFiniteSet(F(c))
          /\ \A t \in F(c) : c =< t
      BY <2>3, FreeFinite DEF FreeFrom
    <3> QED
      BY <2>3, <3>1, FoundFirst, FoundLater
  <2> QED
    BY <2>1, <2>2, <2>3
<1>2. Solves(g)
  <2>1. ASSUME NEW at \in D
        PROVE  g[at] = IF at[1] > total THEN 0
                       ELSE IF Contains(computed, at[1]) THEN g[<<at[1] + 1, at[2]>>]
                       ELSE IF at[2] = 0 THEN at[1]
                       ELSE g[<<at[1] + 1, at[2] - 1>>]
    <3>1. at[1] \in 1..(total + 1) /\ at[2] \in 0..total
      OBVIOUS
    <3>2. at[1] > total \/ <<at[1] + 1, at[2]>> \in D
      BY <3>1
    <3>3. at[1] > total \/ at[2] = 0 \/ <<at[1] + 1, at[2] - 1>> \in D
      BY <3>1
    <3> HIDE DEF F
    <3> QED
      BY <1>1, <3>1, <3>2, <3>3
  <2> QED
    BY <2>1, Zenon
<1>3. Solves(h)
  BY <1>2, Zenon
<1>4. ScanFree(total, computed, target) = h[<<1, target>>]
  BY Zenon DEF ScanFree
<1> HIDE DEF h
<1> DEFINE Agrees == {k \in Nat : k =< total => \A l \in 0..total : h[<<total + 1 - k, l>>] = Found(F(total + 1 - k), l, 0)}
<1>5. \A at \in D : h[at] = IF at[1] > total THEN 0
                           ELSE IF Contains(computed, at[1]) THEN h[<<at[1] + 1, at[2]>>]
                           ELSE IF at[2] = 0 THEN at[1]
                           ELSE h[<<at[1] + 1, at[2] - 1>>]
  BY <1>3, Zenon
<1>6. \A c \in 1..(total + 1), l \in 0..total :
        h[<<c, l>>] = IF c > total THEN 0
                      ELSE IF Contains(computed, c) THEN h[<<c + 1, l>>]
                      ELSE IF l = 0 THEN c
                      ELSE h[<<c + 1, l - 1>>]
  BY <1>5
<1> HIDE DEF F
<1>7. 0 \in Agrees
  <2> SUFFICES ASSUME NEW l \in 0..total
               PROVE  h[<<total + 1 - 0, l>>] = Found(F(total + 1 - 0), l, 0)
    OBVIOUS
  <2> DEFINE c == total + 1
  <2>1. c \in 1..(total + 1) /\ c > total /\ total + 1 - 0 = c
    OBVIOUS
  <2> HIDE DEF c, h, F
  <2>2. h[<<c, l>>] = 0 /\ Found(F(c), l, 0) = 0
    BY <1>1, <1>6, <2>1
  <2> QED
    BY <2>1, <2>2
<1>8. ASSUME NEW k \in Agrees PROVE k + 1 \in Agrees
  <2> SUFFICES ASSUME k + 1 =< total, NEW l \in 0..total
               PROVE  h[<<total + 1 - (k + 1), l>>] = Found(F(total + 1 - (k + 1)), l, 0)
    OBVIOUS
  <2> DEFINE c == total + 1 - (k + 1)
  <2>1. c \in 1..(total + 1) /\ c =< total /\ c + 1 = total + 1 - k /\ total + 1 - (k + 1) = c
    OBVIOUS
  <2>2. \A m \in 0..total : h[<<c + 1, m>>] = Found(F(c + 1), m, 0)
    BY <1>8, <2>1
  <2> HIDE DEF c
  <2>3. h[<<c, l>>] = IF Contains(computed, c) THEN h[<<c + 1, l>>]
                      ELSE IF l = 0 THEN c ELSE h[<<c + 1, l - 1>>]
    BY <1>6, <2>1
  <2>4. Found(F(c), l, 0) = IF Contains(computed, c) THEN Found(F(c + 1), l, 0)
                         ELSE IF l = 0 THEN c ELSE Found(F(c + 1), l - 1, 0)
    BY <1>1, <2>1
  <2>5. l = 0 \/ l - 1 \in 0..total
    OBVIOUS
  <2>6. h[<<c, l>>] = Found(F(c), l, 0)
    BY <2>2, <2>3, <2>4, <2>5
  <2> QED
    BY <2>1, <2>6
<1>9. Agrees = Nat
  <2> HIDE DEF Agrees
  <2> QED
    BY <1>7, <1>8, NatInd DEF Agrees
<1>10. total \in Agrees
  BY <1>9
<1> QED
  <2>1. h[<<total + 1 - total, target>>] = Found(F(total + 1 - total), target, 0)
    BY <1>10
  <2> QED
    BY <1>4, <2>1 DEF F

(* What the scan of _randomUnrevealedPrizeSlot returns. *)
LEMMA ScanFindsSlot ==
  ASSUME NEW slotCount \in Nat \ {0}, NEW revealed, NEW hash,
         hash % (slotCount - Len(revealed)) \in Nat
  PROVE  RandomUnrevealedSlot(slotCount, revealed, hash)
           = Found(FreeFrom(slotCount - 1, revealed, 0), hash % (slotCount - Len(revealed)), slotCount)
<1> DEFINE rank == hash % (slotCount - Len(revealed))
           D == (0..slotCount) \X Nat
           F(c) == FreeFrom(slotCount - 1, revealed, c)
           At(c, seen) == IF seen =< rank THEN Found(F(c), rank - seen, slotCount) ELSE slotCount
           Solves(f) == f = [at \in D |->
             IF at[1] = slotCount THEN slotCount
             ELSE IF Contains(revealed, at[1]) THEN f[<<at[1] + 1, at[2]>>]
             ELSE IF at[2] = rank THEN at[1]
             ELSE f[<<at[1] + 1, at[2] + 1>>]]
           h == CHOOSE f : Solves(f)
           g == [at \in D |-> At(at[1], at[2])]
<1>0. RandomUnrevealedSlot(slotCount, revealed, hash) = h[<<0, 0>>]
  BY Zenon DEF RandomUnrevealedSlot
<1>r. rank \in Nat
  OBVIOUS
<1> HIDE DEF rank
<1>1. ASSUME NEW c \in 0..slotCount, NEW seen \in Nat
      PROVE  At(c, seen) =
               IF c = slotCount THEN slotCount
               ELSE IF Contains(revealed, c) THEN At(c + 1, seen)
               ELSE IF seen = rank THEN c
               ELSE At(c + 1, seen + 1)
  <2>0. seen + 1 \in Nat /\ seen =< rank /\ seen # rank => rank - seen \in Nat \ {0} /\ rank - seen - 1 = rank - (seen + 1)
                            /\ seen + 1 =< rank
    BY <1>r
  <2>1. CASE c = slotCount
    <3>1. F(c) = {}
      BY <2>1 DEF FreeFrom
    <3> QED
      BY <2>1, <3>1 DEF Found, AnyOf
  <2>2. CASE c < slotCount /\ Contains(revealed, c)
    <3>1. F(c) = F(c + 1)
      BY <2>2, FreeFinite DEF FreeFrom
    <3> QED
      BY <2>2, <3>1
  <2>3. CASE c < slotCount /\ ~ Contains(revealed, c)
    <3>1. c \in F(c) /\ F(c) \ {c} = F(c + 1) /\ F(c) \in SUBSET Nat /\ IsFiniteSet(F(c))
          /\ \A t \in F(c) : c =< t
      BY <2>3, FreeFinite DEF FreeFrom
    <3> HIDE DEF F
    <3>2. CASE seen > rank
      BY <2>3, <3>2, <1>r
    <3>3. CASE seen = rank
      <4>1. Found(F(c), 0, slotCount) = c
        BY <3>1, FoundFirst
      <4> QED
        BY <2>3, <3>3, <4>1, <1>r
    <3>4. CASE seen < rank
      <4>1. Found(F(c), rank - seen, slotCount) = Found(F(c + 1), rank - seen - 1, slotCount)
        <5>1. ASSUME NEW T \in SUBSET Nat, IsFiniteSet(T), c \in T, \A t \in T : c =< t, NEW l \in Nat \ {0}
              PROVE  Found(T, l, slotCount) = Found(T \ {c}, l - 1, slotCount)
          BY <5>1, FoundLater
        <5>2. rank - seen \in Nat \ {0}
          BY <3>4, <1>r
        <5> QED
          BY <3>1, <5>1, <5>2
      <4> QED
        BY <2>3, <3>4, <4>1, <1>r
    <3> QED
      BY <3>2, <3>3, <3>4, <1>r
  <2> QED
    BY <2>1, <2>2, <2>3
<1> HIDE DEF At
<1>2. Solves(g)
  <2>1. ASSUME NEW at \in D
        PROVE  g[at] = IF at[1] = slotCount THEN slotCount
                       ELSE IF Contains(revealed, at[1]) THEN g[<<at[1] + 1, at[2]>>]
                       ELSE IF at[2] = rank THEN at[1]
                       ELSE g[<<at[1] + 1, at[2] + 1>>]
    <3>1. at[1] \in 0..slotCount /\ at[2] \in Nat
      OBVIOUS
    <3>2. at[1] = slotCount \/ (<<at[1] + 1, at[2]>> \in D /\ <<at[1] + 1, at[2] + 1>> \in D)
      BY <3>1
    <3> QED
      BY <1>1, <3>1, <3>2
  <2> QED
    BY <2>1, Zenon
<1>3. Solves(h)
  BY <1>2, Zenon
<1> HIDE DEF h
<1>5. \A at \in D : h[at] = IF at[1] = slotCount THEN slotCount
                           ELSE IF Contains(revealed, at[1]) THEN h[<<at[1] + 1, at[2]>>]
                           ELSE IF at[2] = rank THEN at[1]
                           ELSE h[<<at[1] + 1, at[2] + 1>>]
  BY <1>3, Zenon
<1>6. \A c \in 0..slotCount, seen \in Nat :
        h[<<c, seen>>] = IF c = slotCount THEN slotCount
                         ELSE IF Contains(revealed, c) THEN h[<<c + 1, seen>>]
                         ELSE IF seen = rank THEN c
                         ELSE h[<<c + 1, seen + 1>>]
  BY <1>5
<1> DEFINE Agrees == {k \in Nat : k =< slotCount =>
                        \A seen \in Nat : h[<<slotCount - k, seen>>] = At(slotCount - k, seen)}
<1>7. 0 \in Agrees
  <2> SUFFICES ASSUME NEW seen \in Nat
               PROVE  h[<<slotCount - 0, seen>>] = At(slotCount - 0, seen)
    OBVIOUS
  <2>1. slotCount - 0 = slotCount /\ slotCount \in 0..slotCount
    OBVIOUS
  <2>2. h[<<slotCount, seen>>] = slotCount /\ At(slotCount, seen) = slotCount
    BY <1>1, <1>6, <2>1
  <2> QED
    BY <2>1, <2>2
<1>8. ASSUME NEW k \in Agrees PROVE k + 1 \in Agrees
  <2> SUFFICES ASSUME k + 1 =< slotCount, NEW seen \in Nat
               PROVE  h[<<slotCount - (k + 1), seen>>] = At(slotCount - (k + 1), seen)
    OBVIOUS
  <2> DEFINE c == slotCount - (k + 1)
  <2>1. c \in 0..slotCount /\ c # slotCount /\ c + 1 = slotCount - k /\ slotCount - (k + 1) = c
    OBVIOUS
  <2>2. \A m \in Nat : h[<<c + 1, m>>] = At(c + 1, m)
    BY <1>8, <2>1
  <2> HIDE DEF c
  <2>3. h[<<c, seen>>] = IF Contains(revealed, c) THEN h[<<c + 1, seen>>]
                         ELSE IF seen = rank THEN c ELSE h[<<c + 1, seen + 1>>]
    BY <1>6, <2>1
  <2>4. At(c, seen) = IF Contains(revealed, c) THEN At(c + 1, seen)
                      ELSE IF seen = rank THEN c ELSE At(c + 1, seen + 1)
    BY <1>1, <2>1
  <2>6. h[<<c, seen>>] = At(c, seen)
    BY <2>2, <2>3, <2>4
  <2> QED
    BY <2>1, <2>6
<1>9. Agrees = Nat
  <2> HIDE DEF Agrees
  <2> QED
    BY <1>7, <1>8, NatInd DEF Agrees
<1>10. h[<<slotCount - slotCount, 0>>] = At(slotCount - slotCount, 0)
  BY <1>9
<1> QED
  <2>1. slotCount - slotCount = 0 /\ rank - 0 = rank /\ 0 =< rank
    BY <1>r
  <2> QED
    BY <1>0, <1>10, <2>1 DEF At, rank

-----------------------------------------------------------------------------
(* Picks of one ticket. *)

(* After k different picks there are total - k free tickets. *)
LEMMA FreeTickets ==
  ASSUME NEW total \in Nat, NEW computed \in Seq(1..total), IsInjective(computed)
  PROVE  /\ FreeFrom(total, computed, 1) = 1..total \ ToSet(computed)
         /\ FreeFrom(total, computed, 1) \in SUBSET Nat /\ IsFiniteSet(FreeFrom(total, computed, 1))
         /\ Cardinality(FreeFrom(total, computed, 1)) = total - Len(computed)
         /\ total - Len(computed) \in Nat
<1>1. FreeFrom(total, computed, 1) = 1..total \ ToSet(computed)
  <2>1. \A t : Contains(computed, t) <=> t \in ToSet(computed)
    BY DEF Contains, ToSet
  <2> QED
    BY <2>1 DEF FreeFrom
<1>2. IsFiniteSet(1..total) /\ Cardinality(1..total) = total
  BY FS_Interval
<1>3. ToSet(computed) \subseteq 1..total
  BY DEF ToSet
<1>4. (1..total) \cap ToSet(computed) = ToSet(computed)
  BY <1>3
<1>5. Cardinality(ToSet(computed)) = Len(computed)
  BY InjectiveCount
<1>6. IsFiniteSet(1..total \ ToSet(computed)) /\ Cardinality(1..total \ ToSet(computed)) = total - Len(computed)
  <2> DEFINE A == 1..total
             B == ToSet(computed)
  <2>1. IsFiniteSet(A) /\ Cardinality(A) = total /\ A \cap B = B /\ Cardinality(B) = Len(computed)
    BY <1>2, <1>4, <1>5
  <2> HIDE DEF A, B
  <2>2. IsFiniteSet(A \ B) /\ Cardinality(A \ B) = Cardinality(A) - Cardinality(A \cap B)
    BY <2>1, FS_Difference, Zenon
  <2>3. IsFiniteSet(A \ B) /\ Cardinality(A \ B) = total - Len(computed)
    BY <2>1, <2>2
  <2> QED
    BY <2>3 DEF A, B
<1>7. total - Len(computed) \in Nat
  BY <1>6, FS_CardinalityType, Zenon
<1>8. FreeFrom(total, computed, 1) \in SUBSET Nat
  BY <1>1
<1> QED
  BY <1>1, <1>6, <1>7, <1>8

(* A pick is the free ticket of the rank that the hash selects. *)
LEMMA UniqueTicketIsFree ==
  ASSUME NEW total \in Nat, NEW computed \in Seq(1..total), IsInjective(computed),
         Len(computed) < total, NEW hash \in Nat
  PROVE  /\ UniqueTicket(total, computed, hash)
              = Found(FreeFrom(total, computed, 1), hash % (total - Len(computed)), 0)
         /\ UniqueTicket(total, computed, hash) \in 1..total \ ToSet(computed)
<1>1. Len(computed) \in Nat /\ total - Len(computed) \in Nat \ {0}
  OBVIOUS
<1>2. hash % (total - Len(computed)) \in 0..(total - Len(computed) - 1)
  BY <1>1, ModRange
<1>3. UniqueTicket(total, computed, hash)
        = Found(FreeFrom(total, computed, 1), hash % (total - Len(computed)), 0)
  <2> DEFINE l == hash % (total - Len(computed))
  <2>1. l \in 0..total
    BY <1>1, <1>2
  <2> HIDE DEF l
  <2>2. ScanFree(total, computed, l) = Found(FreeFrom(total, computed, 1), l, 0)
    BY <2>1, ScanFinds
  <2> QED
    BY <2>2 DEF UniqueTicket, l
<1>4. Found(FreeFrom(total, computed, 1), hash % (total - Len(computed)), 0) \in FreeFrom(total, computed, 1)
  BY <1>1, <1>2, FreeTickets, FoundRank
<1> QED
  BY <1>3, <1>4, FreeTickets

(* A table of picks that finds the element of the hash's rank, and what comes
   of it over two cycles of the hash: every element twice and nothing else. *)
PicksByRank(S, none, picks) ==
  \A h \in 0..(2 * Cardinality(S) - 1) : picks[h] = Found(S, h % Cardinality(S), none)

Hits(S, picks, t) == {h \in 0..(2 * Cardinality(S) - 1) : picks[h] = t}

LEMMA EachTwice ==
  ASSUME NEW S \in SUBSET Nat, IsFiniteSet(S), NEW none, NEW P, PicksByRank(S, none, P)
  PROVE  /\ \A t \in S : Cardinality(Hits(S, P, t)) = 2
         /\ \A t : t \notin S => Cardinality(Hits(S, P, t)) = 0
<1> DEFINE n == Cardinality(S)
<1>00. \A h \in 0..(2 * n - 1) : P[h] = Found(S, h % n, none)
  BY DEF PicksByRank
<1>0. n \in Nat
  BY FS_CardinalityType
<1>1. ASSUME NEW h \in 0..(2 * n - 1)
      PROVE  P[h] \in S /\ Rank(S, P[h]) = IF h < n THEN h ELSE h - n
  <2>1. n \in Nat \ {0} /\ h \in Nat
    BY <1>0
  <2>2. h % n = (IF h < n THEN h ELSE h - n) /\ h % n \in Nat /\ h % n < n
    <3> HIDE DEF n
    <3> QED
      <4>1. h \in 0..(2 * n - 1)
        OBVIOUS
      <4>2. h % n = (IF h < n THEN h ELSE h - n)
        BY <2>1, <4>1, ModTwice
      <4>3. h % n \in 0..(n - 1)
        BY <2>1, ModRange
      <4> QED
        BY <2>1, <4>2, <4>3
  <2>3. Found(S, h % n, none) \in S /\ Rank(S, Found(S, h % n, none)) = h % n
    BY <2>1, <2>2, FoundRank
  <2> QED
    BY <1>00, <2>2, <2>3
<1>2. ASSUME NEW t \in S
      PROVE  Cardinality({h \in 0..(2 * n - 1) : P[h] = t}) = 2
  <2> DEFINE l == Rank(S, t)
  <2>1. l \in Nat /\ l < n
    BY RankBelow, RankFinite
  <2>2. l \in 0..(2 * n - 1) /\ l + n \in 0..(2 * n - 1) /\ l # l + n
    BY <1>0, <2>1
  <2>3. \A u \in S : Rank(S, u) = l => u = t
    <3>1. \A u \in S : u \in Nat /\ (u < t \/ t < u \/ u = t)
      OBVIOUS
    <3>2. \A u \in S : Rank(S, u) \in Nat
      BY RankFinite
    <3> QED
      BY <3>1, <3>2, RankInOrder
  <2> HIDE DEF l, n
  <2>4. {h \in 0..(2 * n - 1) : P[h] = t} = {l, l + n}
    <3>1. P[l] = t /\ P[l + n] = t
      <4>1. Rank(S, P[l]) = l /\ P[l] \in S
        BY <1>1, <2>1, <2>2
      <4>2. Rank(S, P[l + n]) = l /\ P[l + n] \in S
        <5>1. ~ (l + n < n) /\ (l + n) - n = l
          BY <1>0, <2>1
        <5> QED
          BY <1>1, <2>2, <5>1
      <4> QED
        BY <2>3, <4>1, <4>2
    <3>2. ASSUME NEW h \in 0..(2 * n - 1), P[h] = t PROVE h \in {l, l + n}
      <4>1. l = IF h < n THEN h ELSE h - n
        BY <1>1, <3>2 DEF l
      <4> QED
        BY <4>1, <1>0
    <3> QED
      BY <2>2, <3>1, <3>2
  <2>5. Cardinality({l, l + n}) = 2
    <3>1. IsFiniteSet({l}) /\ Cardinality({l}) = 1
      BY FS_Singleton
    <3>2. l + n \notin {l}
      BY <2>2
    <3>3. Cardinality({l} \cup {l + n}) = 2
      <4>1. Cardinality({l} \cup {l + n}) = Cardinality({l}) + 1
        BY <3>1, <3>2, FS_AddElement, Zenon
      <4> QED
        BY <3>1, <4>1
    <3>4. {l, l + n} = {l} \cup {l + n}
      OBVIOUS
    <3> QED
      BY <3>3, <3>4
  <2> QED
    BY <2>4, <2>5
<1>3. ASSUME NEW t, t \notin S
      PROVE  Cardinality({h \in 0..(2 * n - 1) : P[h] = t}) = 0
  <2>1. {h \in 0..(2 * n - 1) : P[h] = t} = {}
    <3> HIDE DEF n
    <3> QED
      BY <1>1, <1>3
  <2> QED
    BY <2>1, FS_EmptySet
<1> QED
  BY <1>2, <1>3 DEF Hits

-----------------------------------------------------------------------------
(* Picks of many tickets. *)

(* The run of a recursion over 0..n: where it starts and how it goes on. *)
IsRun(f, n, S, a, G) ==
  f \in [0..n -> S] /\ f[0] = a /\ \A k \in 1..n : f[k] = G[<<k, f[k - 1]>>]

(* A recursion over 0..n has a run ... *)
LEMMA IterExists ==
  ASSUME NEW n \in Nat, NEW S, NEW a \in S, NEW G \in [Nat \X S -> S]
  PROVE  \E f : IsRun(f, n, S, a, G)
<1> DEFINE Upto(m) == \E f \in [0..m -> S] : f[0] = a /\ \A k \in 1..m : f[k] = G[<<k, f[k - 1]>>]
           T == {m \in Nat : Upto(m)}
<1>1. Upto(0)
  <2> DEFINE f == [k \in 0..0 |-> a]
  <2>1. f \in [0..0 -> S] /\ f[0] = a /\ \A k \in 1..0 : f[k] = G[<<k, f[k - 1]>>]
    OBVIOUS
  <2> QED
    BY <2>1
<1>2. ASSUME NEW m \in Nat, Upto(m) PROVE Upto(m + 1)
  <2>1. PICK f \in [0..m -> S] : f[0] = a /\ \A k \in 1..m : f[k] = G[<<k, f[k - 1]>>]
    BY <1>2
  <2> DEFINE g == [k \in 0..(m + 1) |-> IF k = m + 1 THEN G[<<m + 1, f[m]>>] ELSE f[k]]
  <2>2. f[m] \in S /\ G[<<m + 1, f[m]>>] \in S
    BY <2>1
  <2>3. g \in [0..(m + 1) -> S]
    BY <2>1, <2>2
  <2>4. g[0] = a
    BY <2>1
  <2>5. ASSUME NEW k \in 1..(m + 1) PROVE g[k] = G[<<k, g[k - 1]>>]
    <3>1. g[k - 1] = f[k - 1]
      OBVIOUS
    <3>2. CASE k = m + 1
      <4>1. g[k] = G[<<m + 1, f[m]>>] /\ k - 1 = m
        BY <3>2
      <4> QED
        BY <3>1, <3>2, <4>1
    <3>3. CASE k # m + 1
      <4>1. k \in 1..m /\ k \in 0..(m + 1)
        BY <3>3
      <4>2. g[k] = f[k]
        BY <3>3
      <4> QED
        BY <2>1, <3>1, <4>1, <4>2
    <3> QED
      BY <3>2, <3>3
  <2> HIDE DEF g
  <2> QED
    BY <2>3, <2>4, <2>5
<1> HIDE DEF Upto
<1>3. T = Nat
  <2>1. 0 \in T /\ \A m \in T : m + 1 \in T
    BY <1>1, <1>2
  <2> HIDE DEF T
  <2>2. T \subseteq Nat
    BY DEF T
  <2> QED
    BY <2>1, <2>2, NatInd
<1>4. Upto(n)
  BY <1>3
<1> QED
  BY <1>4 DEF Upto, IsRun

(* Two runs of the same recursion agree. *)
SameStep(f, h, n) == f[0] = h[0] /\ \A k \in 1..n : f[k - 1] = h[k - 1] => f[k] = h[k]

(* ... and only one. *)
LEMMA IterUnique ==
  ASSUME NEW n \in Nat, NEW f, NEW h, SameStep(f, h, n)
  PROVE  \A k \in 0..n : f[k] = h[k]
<1> USE DEF SameStep
<1> DEFINE T == {m \in Nat : m =< n => f[m] = h[m]}
<1>1. ASSUME NEW m \in T PROVE m + 1 \in T
  <2> SUFFICES ASSUME m + 1 =< n PROVE f[m + 1] = h[m + 1]
    OBVIOUS
  <2>1. (m + 1) \in 1..n /\ (m + 1) - 1 = m /\ f[m] = h[m]
    OBVIOUS
  <2> QED
    BY <2>1
<1>2. 0 \in T /\ T \subseteq Nat
  OBVIOUS
<1> HIDE DEF T
<1>3. T = Nat
  BY <1>1, <1>2, NatInd
<1> QED
  BY <1>3 DEF T

(* A new element keeps a list without repetitions. *)
LEMMA AppendDistinct ==
  ASSUME NEW T, NEW s \in Seq(T), IsInjective(s), NEW t \in T \ ToSet(s)
  PROVE  /\ Append(s, t) \in Seq(T) /\ IsInjective(Append(s, t))
         /\ Len(Append(s, t)) = Len(s) + 1
         /\ ToSet(Append(s, t)) = ToSet(s) \cup {t}
<1>1. /\ Len(Append(s, t)) = Len(s) + 1 /\ Append(s, t) \in Seq(T)
      /\ \A i \in 1..Len(s) : Append(s, t)[i] = s[i]
      /\ Append(s, t)[Len(s) + 1] = t
  OBVIOUS
<1>2. \A i \in 1..Len(s) : s[i] # t
  BY DEF ToSet
<1>3. IsInjective(Append(s, t))
  <2>1. \A i, j \in 1..Len(s) : s[i] = s[j] => i = j
    BY DEF IsInjective
  <2> SUFFICES ASSUME NEW i \in 1..(Len(s) + 1), NEW j \in 1..(Len(s) + 1),
                      Append(s, t)[i] = Append(s, t)[j]
               PROVE  i = j
    BY <1>1 DEF IsInjective
  <2>2. CASE i \in 1..Len(s) /\ j \in 1..Len(s)
    BY <1>1, <2>1, <2>2
  <2>3. CASE i = Len(s) + 1 \/ j = Len(s) + 1
    BY <1>1, <1>2, <2>3
  <2> QED
    BY <2>2, <2>3
<1>4. ToSet(Append(s, t)) = ToSet(s) \cup {t}
  BY <1>1 DEF ToSet
<1> QED
  BY <1>1, <1>3, <1>4

(* The hypothesis of the theorems about tickets: keccak256 of any arguments,
   read as a uint256, is a natural number. *)
HashesAreNumbers == \A packed : Keccak(packed) \in Nat

(* s holds k different tickets of 1..total. *)
Picked(total, k, s) == s \in Seq(1..total) /\ IsInjective(s) /\ Len(s) = k

(* The list after pick k. *)
OneMore(total, k, seed, s) == Append(s, UniqueTicket(total, s, Keccak(Append(seed, k - 1))))

(* One more pick gives one more ticket, as long as one is free. *)
LEMMA OneMorePicked ==
  ASSUME HashesAreNumbers, NEW total \in Nat, NEW k \in 1..total, NEW seed, NEW s, Picked(total, k - 1, s)
  PROVE  Picked(total, k, OneMore(total, k, seed, s))
<1>1. Keccak(Append(seed, k - 1)) \in Nat
  BY DEF HashesAreNumbers
<1>2. UniqueTicket(total, s, Keccak(Append(seed, k - 1))) \in 1..total \ ToSet(s)
  BY <1>1, UniqueTicketIsFree DEF Picked
<1> QED
  BY <1>2, AppendDistinct DEF Picked, OneMore

(* PickTickets picks one ticket after another: the recursion has the solution
   that its CHOOSE looks for, and no other. *)
LEMMA PickTicketsSteps ==
  ASSUME HashesAreNumbers, NEW total \in Nat, NEW seed
  PROVE  /\ PickTickets(total, 0, seed) = <<>>
         /\ \A k \in 1..total :
              PickTickets(total, k, seed) = OneMore(total, k, seed, PickTickets(total, k - 1, seed))
<1> DEFINE S == UNION {{s \in Seq(1..total) : Picked(total, k, s)} : k \in 0..total}
           G == [at \in Nat \X S |->
                  IF OneMore(total, at[1], seed, at[2]) \in S THEN OneMore(total, at[1], seed, at[2]) ELSE at[2]]
<1>1. <<>> \in S /\ Picked(total, 0, <<>>)
  <2>1. <<>> \in Seq(1..total) /\ IsInjective(<<>>) /\ Len(<<>>) = 0
    BY DEF IsInjective
  <2> QED
    BY <2>1 DEF Picked
<1>2. G \in [Nat \X S -> S]
  <2> HIDE DEF S
  <2> QED
    OBVIOUS
<1>3. PICK f \in [0..total -> S] : f[0] = <<>> /\ \A k \in 1..total : f[k] = G[<<k, f[k - 1]>>]
  <2> HIDE DEF S, G
  <2> QED
    <3>1. <<>> \in S
      BY <1>1
    <3>2. \E f : IsRun(f, total, S, <<>>, G)
      BY <1>2, <3>1, IterExists, Zenon
    <3> QED
      BY <3>2 DEF IsRun
<1>4. \A k \in 0..total : Picked(total, k, f[k])
  <2> DEFINE T == {k \in Nat : k =< total => Picked(total, k, f[k])}
  <2>1. ASSUME NEW k \in T PROVE k + 1 \in T
    <3> SUFFICES ASSUME k + 1 =< total PROVE Picked(total, k + 1, f[k + 1])
      OBVIOUS
    <3>1. k + 1 \in 1..total /\ (k + 1) - 1 = k /\ k \in 0..total /\ Picked(total, k, f[k])
      OBVIOUS
    <3>2. Picked(total, k + 1, OneMore(total, k + 1, seed, f[k]))
      BY <3>1, OneMorePicked
    <3>3. OneMore(total, k + 1, seed, f[k]) \in S
      BY <3>1, <3>2 DEF Picked
    <3>4. f[k] \in S
      BY <1>3, <3>1
    <3>5. f[k + 1] = G[<<k + 1, f[k]>>] /\ k + 1 \in Nat
      <4> HIDE DEF G, S
      <4> QED
        BY <1>3, <3>1
    <3> HIDE DEF S
    <3>6. f[k + 1] = OneMore(total, k + 1, seed, f[k])
      BY <3>3, <3>4, <3>5
    <3> QED
      BY <3>2, <3>6
  <2>2. 0 \in T /\ T \subseteq Nat
    BY <1>1, <1>3
  <2> HIDE DEF T
  <2>3. \A k \in Nat : k \in T
    BY <2>1, <2>2, NatInd
  <2> QED
    BY <2>3 DEF T
<1>5. \A k \in 1..total : f[k] = OneMore(total, k, seed, f[k - 1])
  <2> SUFFICES ASSUME NEW k \in 1..total PROVE f[k] = OneMore(total, k, seed, f[k - 1])
    OBVIOUS
  <2>1. k - 1 \in 0..total /\ k \in 0..total /\ k \in Nat
    OBVIOUS
  <2>2. Picked(total, k, OneMore(total, k, seed, f[k - 1]))
    BY <1>4, <2>1, OneMorePicked
  <2>3. OneMore(total, k, seed, f[k - 1]) \in S
    BY <2>1, <2>2 DEF Picked
  <2>4. f[k - 1] \in S
    BY <1>3, <2>1
  <2> HIDE DEF S
  <2> QED
    BY <1>3, <2>1, <2>3, <2>4
<1>6. ASSUME NEW n \in 0..total PROVE PickTickets(total, n, seed) = f[n]
  <2> DEFINE Solves(p) == p = [k \in 0..n |-> IF k = 0 THEN <<>> ELSE OneMore(total, k, seed, p[k - 1])]
             g == [k \in 0..n |-> f[k]]
             h == CHOOSE p : Solves(p)
  <2>1. Solves(g)
    <3>1. ASSUME NEW k \in 0..n
          PROVE  g[k] = IF k = 0 THEN <<>> ELSE OneMore(total, k, seed, g[k - 1])
      <4>1. g[k] = f[k]
        OBVIOUS
      <4>2. CASE k = 0
        BY <1>3, <4>1, <4>2
      <4>3. CASE k # 0
        <5>1. k \in 1..total /\ k - 1 \in 0..n
          BY <4>3
        <5>2. g[k - 1] = f[k - 1] /\ f[k] = OneMore(total, k, seed, f[k - 1])
          BY <1>5, <5>1
        <5> QED
          BY <4>1, <4>3, <5>2
      <4> QED
        BY <4>2, <4>3
    <3> QED
      BY <3>1, Zenon
  <2>2. Solves(h)
    BY <2>1, Zenon
  <2>3. PickTickets(total, n, seed) = h[n]
    BY Zenon DEF PickTickets, OneMore
  <2> HIDE DEF h
  <2>4. \A k \in 0..n : h[k] = IF k = 0 THEN <<>> ELSE OneMore(total, k, seed, h[k - 1])
    BY <2>2, Zenon
  <2>5. SameStep(f, h, n)
    <3> SUFFICES f[0] = h[0] /\ \A k \in 1..n : f[k - 1] = h[k - 1] => f[k] = h[k]
      BY DEF SameStep
    <3>1. 0 \in 0..n /\ \A k \in 1..n : k \in 0..n /\ k # 0 /\ k \in 1..total
      OBVIOUS
    <3> QED
      BY <1>3, <1>5, <2>4, <3>1
  <2>6. \A k \in 0..n : f[k] = h[k]
    <3>1. n \in Nat
      OBVIOUS
    <3> QED
      BY <2>5, <3>1, IterUnique, Zenon
  <2> QED
    <3>1. n \in 0..n
      OBVIOUS
    <3> QED
      BY <2>3, <2>6, <3>1
<1> QED
  <2>1. \A k \in 1..total : k - 1 \in 0..total /\ k \in 0..total
    OBVIOUS
  <2> QED
    BY <1>3, <1>5, <1>6, <2>1

(* So the first k picks are k different tickets of the pool. *)
LEMMA PickTicketsPicked ==
  ASSUME HashesAreNumbers, NEW total \in Nat, NEW seed
  PROVE  \A k \in 0..total : Picked(total, k, PickTickets(total, k, seed))
<1> DEFINE T == {k \in Nat : k =< total => Picked(total, k, PickTickets(total, k, seed))}
<1>1. ASSUME NEW k \in T PROVE k + 1 \in T
  <2> SUFFICES ASSUME k + 1 =< total PROVE Picked(total, k + 1, PickTickets(total, k + 1, seed))
    OBVIOUS
  <2>1. k + 1 \in 1..total /\ (k + 1) - 1 = k /\ Picked(total, k, PickTickets(total, k, seed))
    OBVIOUS
  <2>2. PickTickets(total, k + 1, seed) = OneMore(total, k + 1, seed, PickTickets(total, k, seed))
    <3>1. PickTickets(total, k + 1, seed) = OneMore(total, k + 1, seed, PickTickets(total, (k + 1) - 1, seed))
      BY <2>1, PickTicketsSteps
    <3> QED
      BY <2>1, <3>1
  <2>3. Picked(total, (k + 1) - 1, PickTickets(total, k, seed))
    BY <2>1
  <2> QED
    BY <2>1, <2>2, <2>3, OneMorePicked
<1>2. 0 \in T
  <2>1. <<>> \in Seq(1..total) /\ IsInjective(<<>>) /\ Len(<<>>) = 0
    BY DEF IsInjective
  <2> QED
    BY <2>1, PickTicketsSteps DEF Picked
<1> HIDE DEF T
<1>3. T = Nat
  BY <1>1, <1>2, NatInd DEF T
<1> QED
  BY <1>3 DEF T

(* Picking more tickets does not change those picked before. *)
LEMMA PickTicketsPrefix ==
  ASSUME HashesAreNumbers, NEW total \in Nat, NEW seed, NEW m \in 0..total, NEW i \in 1..m
  PROVE  \A n \in m..total : PickTickets(total, n, seed)[i] = PickTickets(total, m, seed)[i]
<1> DEFINE T == {k \in Nat : m + k =< total =>
                   PickTickets(total, m + k, seed)[i] = PickTickets(total, m, seed)[i]}
<1>1. ASSUME NEW k \in T PROVE k + 1 \in T
  <2> SUFFICES ASSUME m + (k + 1) =< total
               PROVE  PickTickets(total, m + (k + 1), seed)[i] = PickTickets(total, m, seed)[i]
    OBVIOUS
  <2> DEFINE n == m + (k + 1)
  <2>1. n \in 1..total /\ n - 1 = m + k /\ n - 1 \in 0..total /\ i \in 1..(n - 1)
    OBVIOUS
  <2> HIDE DEF n
  <2>2. Picked(total, n - 1, PickTickets(total, n - 1, seed))
    BY <2>1, PickTicketsPicked
  <2>3. PickTickets(total, n, seed) = OneMore(total, n, seed, PickTickets(total, n - 1, seed))
    BY <2>1, PickTicketsSteps
  <2>4. \A s \in Seq(1..total) : \A t : i \in 1..Len(s) => Append(s, t)[i] = s[i]
    OBVIOUS
  <2>5. PickTickets(total, n, seed)[i] = PickTickets(total, n - 1, seed)[i]
    BY <2>1, <2>2, <2>3, <2>4 DEF Picked, OneMore
  <2>6. PickTickets(total, m + k, seed)[i] = PickTickets(total, m, seed)[i]
    BY <2>1
  <2> QED
    BY <2>1, <2>5, <2>6 DEF n
<1>2. 0 \in T
  <2>1. m + 0 = m
    OBVIOUS
  <2> QED
    BY <2>1
<1> HIDE DEF T
<1>3. \A k \in Nat : k \in T
  <2>1. T \subseteq Nat
    BY DEF T
  <2> QED
    BY <1>1, <1>2, <2>1, NatInd
<1> SUFFICES ASSUME NEW n \in m..total
             PROVE  PickTickets(total, n, seed)[i] = PickTickets(total, m, seed)[i]
  OBVIOUS
<1>4. n - m \in Nat /\ m + (n - m) = n
  OBVIOUS
<1>5. n - m \in T
  BY <1>3, <1>4
<1>6. m + (n - m) =< total
  BY <1>4
<1> QED
  BY <1>4, <1>5, <1>6 DEF T

-----------------------------------------------------------------------------
(* The moves of a round and the winners of its matches. *)

(* What the calls and the answer do to one round: finalize, reset, request,
   answer and reveal. *)
Registers(old, new) ==
  \E hash \in LedgerHashes, inputs \in MatchLists :
    /\ old.state \in {"Draft", "LedgerFinalized"}
    /\ hash # 0 /\ inputs # <<>>
    /\ \A i \in DOMAIN inputs : ValidMatchInput(KnownBefore(NoMatches, inputs, i), inputs[i])
    /\ new = FinalizedRound(hash, inputs)

Empties(old, new) == old.state # "RandomnessRequested" /\ new = EmptyRound

Asks(old, new) ==
  \E id \in 0..MaxRequests :
    /\ old.state = "LedgerFinalized"
    /\ new = [old EXCEPT !.requestId = id, !.state = "RandomnessRequested"]

Learns(old, new) ==
  \E word \in Words :
    /\ old.state = "RandomnessRequested"
    /\ new = [old EXCEPT !.randomWord = word, !.revealedMatchCount = 0, !.state = "RandomnessReady"]

Reveals(r, old, new) ==
  \E batch \in SUBSET DOMAIN old.matches :
    /\ old.state = "RandomnessReady"
    /\ batch # {}
    /\ \A m \in batch : ~old.matches[m].revealed
    /\ new = RevealedRound(old, r, batch)

RoundMove(r, old, new) ==
  Registers(old, new) \/ Empties(old, new) \/ Asks(old, new) \/ Learns(old, new) \/ Reveals(r, old, new)

OneRoundMoves ==
  \E r \in RoundIds : \E new : rounds' = [rounds EXCEPT ![r] = new] /\ RoundMove(r, rounds[r], new)

(* Every call on the round path is one of these moves ... *)
LEMMA RoundCallMoves ==
  ASSUME RoundInv, NEW a \in Accounts, NEW r \in RoundIds, RoundCall(a, r)
  PROVE  OneRoundMoves
<1> SUFFICES \E new : rounds' = [rounds EXCEPT ![r] = new] /\ RoundMove(r, rounds[r], new)
  BY DEF OneRoundMoves
<1> DEFINE round == rounds[r]
<1>1. RoundOK(round) /\ CoordinatorTypeOK
  BY RoundInvParts
<1>2. KeptMatches(round) = NoMatches
  BY <1>1, NothingKept DEF RoundOK
<1>3. ASSUME NEW hash \in LedgerHashes, NEW inputs \in MatchLists,
             FinalizeRoundLedger(a, r, hash, inputs)
      PROVE  rounds' = [rounds EXCEPT ![r] = FinalizedRound(hash, inputs)]
             /\ Registers(round, FinalizedRound(hash, inputs))
  BY <1>2, <1>3 DEF FinalizeRoundLedger, FinalizedRound, Registers
<1>4. ASSUME ResetRoundDraft(a, r)
      PROVE  rounds' = [rounds EXCEPT ![r] = EmptyRound] /\ Empties(round, EmptyRound)
  <2>1. [EmptyRound EXCEPT !.matches = NoMatches] = EmptyRound
    BY DEF EmptyRound
  <2> QED
    BY <1>2, <1>4, <2>1 DEF ResetRoundDraft, Empties
<1>5. ASSUME RequestRoundDraw(a, r)
      PROVE  \E new : rounds' = [rounds EXCEPT ![r] = new] /\ Asks(round, new)
  <2>1. nextRequestId \in 0..MaxRequests
    BY <1>1, <1>5, CoordinatorAssumption DEF RequestRoundDraw, RequestRandomWords, CoordinatorTypeOK
  <2> QED
    BY <1>5, <2>1 DEF RequestRoundDraw, Asks
<1>6. ASSUME NEW batch \in SUBSET DOMAIN rounds[r].matches, RevealRoundMatches(a, r, batch)
      PROVE  rounds' = [rounds EXCEPT ![r] = RevealedRound(round, r, batch)]
             /\ Reveals(r, round, RevealedRound(round, r, batch))
  BY <1>6 DEF RevealRoundMatches, RevealedRound, Reveals
<1> QED
  BY <1>3, <1>4, <1>5, <1>6 DEF RoundCall, RoundMove

(* ... an accepted answer is one ... *)
LEMMA FulfillRoundMoves ==
  ASSUME RoundInv, NEW id \in RequestIds, NEW word \in Words, FulfillRound(id, word)
  PROVE  OneRoundMoves
<1>1. roundIdByRequestId[id] \in RoundIds
  BY RoundInvParts DEF FulfillRound
<1> QED
  BY <1>1 DEF FulfillRound, OneRoundMoves, RoundMove, Learns

(* ... and no other step touches a round. *)
LEMMA RoundsMove ==
  ASSUME RoundInv, [Next]_vars
  PROVE  UNCHANGED rounds \/ OneRoundMoves
<1>1. ASSUME NEW a \in Accounts, NEW r \in RoundIds, RoundCall(a, r) PROVE OneRoundMoves
  BY <1>1, RoundCallMoves
<1>2. ASSUME NEW id \in RequestIds, NEW word \in Words, FulfillRandomWords(id, word)
      PROVE  UNCHANGED rounds \/ OneRoundMoves
  BY <1>2, FulfillRoundMoves DEF FulfillRandomWords, roundVars
<1> QED
  BY <1>1, <1>2 DEF Next, vars, roundVars

(* A match of a round: enough tickets in the pool, and once revealed the tickets
   that the round's word gives it. *)
MatchDrawn(word, r, m, match) ==
  /\ match.totalTickets >= match.prizeSlotCount * (match.alternateCount + 1)
  /\ match.tickets = IF match.revealed THEN RoundMatchTickets(word, r, m, match) ELSE <<>>

RoundDrawn(r, round) ==
  \A m \in DOMAIN round.matches : MatchDrawn(round.randomWord, r, m, round.matches[m])

(* A new ledger has enough tickets in every pool and nothing revealed. *)
LEMMA RegistersDrawn ==
  ASSUME NEW r, NEW old, NEW new, Registers(old, new)
  PROVE  RoundDrawn(r, new)
<1>1. PICK hash \in LedgerHashes, inputs \in MatchLists :
        /\ inputs # <<>>
        /\ \A i \in DOMAIN inputs : ValidMatchInput(KnownBefore(NoMatches, inputs, i), inputs[i])
        /\ new = FinalizedRound(hash, inputs)
  BY DEF Registers
<1> SUFFICES ASSUME NEW m \in DOMAIN new.matches
             PROVE  MatchDrawn(new.randomWord, r, m, new.matches[m])
  BY DEF RoundDrawn
<1>2. m \in ToSet(IdsOf(inputs))
      /\ new.matches[m] = NewMatch(inputs[CHOOSE i \in DOMAIN inputs : inputs[i].matchId = m])
  BY <1>1 DEF FinalizedRound, RegisterMatches, NoMatches
<1>3. \E i \in DOMAIN inputs : inputs[i].matchId = m
  <2>1. DOMAIN IdsOf(inputs) = DOMAIN inputs /\ \A i \in DOMAIN inputs : IdsOf(inputs)[i] = inputs[i].matchId
    BY DEF IdsOf
  <2> QED
    BY <1>2, <2>1 DEF ToSet
<1>4. PICK i \in DOMAIN inputs : new.matches[m] = NewMatch(inputs[i])
  BY <1>2, <1>3
<1> QED
  BY <1>1, <1>4 DEF NewMatch, MatchDrawn, ValidMatchInput

(* Every move keeps the matches drawn as the round's word says. *)
LEMMA MoveDrawn ==
  ASSUME NEW r, NEW old, RoundOK(old), RoundDrawn(r, old), NEW new, RoundMove(r, old, new)
  PROVE  RoundDrawn(r, new)
<1>1. old \in RoundRecord(old.matches) /\ InLifecycle(old)
  BY DEF RoundOK, IsRound
<1>2. CASE Empties(old, new)
  <2>1. DOMAIN new.matches = {}
    BY <1>2 DEF Empties, EmptyRound, NoMatches
  <2> QED
    BY <2>1 DEF RoundDrawn
<1>3. CASE Asks(old, new)
  <2>1. new.matches = old.matches /\ new.randomWord = old.randomWord
    BY <1>1, <1>3 DEF Asks, RoundRecord
  <2> QED
    BY <2>1 DEF RoundDrawn
<1>4. CASE Learns(old, new)
  <2>1. new.matches = old.matches
    BY <1>1, <1>4 DEF Learns, RoundRecord
  <2>2. \A m \in DOMAIN old.matches : ~ old.matches[m].revealed
    BY <1>1, <1>4 DEF Learns, InLifecycle, Revealed
  <2> QED
    BY <2>1, <2>2 DEF RoundDrawn, MatchDrawn
<1>5. CASE Reveals(r, old, new)
  <2>1. PICK batch \in SUBSET DOMAIN old.matches :
          (\A m \in batch : ~old.matches[m].revealed) /\ new = RevealedRound(old, r, batch)
    BY <1>5 DEF Reveals
  <2>2. new.randomWord = old.randomWord
        /\ new.matches = [m \in DOMAIN old.matches |->
                            IF m \in batch THEN RevealedMatch(old.randomWord, r, m, old.matches[m])
                            ELSE old.matches[m]]
    BY <1>1, <2>1 DEF RoundRecord, RevealedRound
  <2> SUFFICES ASSUME NEW m \in DOMAIN old.matches
               PROVE  MatchDrawn(new.randomWord, r, m, new.matches[m])
    BY <2>2 DEF RoundDrawn
  <2>3. CASE m \in batch
    <3> DEFINE match == old.matches[m]
               next == new.matches[m]
    <3>1. IsMatch(match) /\ MatchDrawn(old.randomWord, r, m, match) /\ ~ match.revealed
      BY <2>1, <2>3 DEF RoundOK, IsRound, RoundDrawn
    <3>2. next = RevealedMatch(old.randomWord, r, m, match)
      BY <2>2, <2>3
    <3>3. match.tickets = <<>>
      BY <3>1 DEF MatchDrawn
    <3>4. /\ next.totalTickets = match.totalTickets /\ next.prizeSlotCount = match.prizeSlotCount
          /\ next.alternateCount = match.alternateCount /\ next.ledgerHash = match.ledgerHash
          /\ next.revealed = TRUE
          /\ next.tickets = RoundMatchTickets(old.randomWord, r, m, match)
      <4> HIDE DEF match, next
      <4> QED
        BY <3>1, <3>2, <3>3 DEF RevealedMatch, IsMatch
    <3> HIDE DEF match, next
    <3>5. RoundMatchTickets(old.randomWord, r, m, match) = RoundMatchTickets(old.randomWord, r, m, next)
      BY <3>4 DEF RoundMatchTickets
    <3>6. MatchDrawn(old.randomWord, r, m, next)
      BY <3>1, <3>4, <3>5 DEF MatchDrawn
    <3> QED
      BY <2>2, <3>6 DEF next
  <2>4. CASE m \notin batch
    BY <2>2, <2>4 DEF RoundDrawn
  <2> QED
    BY <2>3, <2>4
<1> QED
  BY <1>2, <1>3, <1>4, <1>5, RegistersDrawn DEF RoundMove

(* The inductive invariant of the winners. *)
TicketInv == RoundInv /\ \A r \in RoundIds : RoundDrawn(r, rounds[r])

(* It holds initially ... *)
LEMMA TicketInvInit == Init => TicketInv
<1> SUFFICES ASSUME Init PROVE TicketInv
  OBVIOUS
<1>1. RoundInv
  BY RoundInvInit
<1>2. \A r \in RoundIds : rounds[r] = EmptyRound
  BY DEF Init, RoundInit
<1>3. DOMAIN EmptyRound.matches = {}
  BY DEF EmptyRound, NoMatches
<1> QED
  BY <1>1, <1>2, <1>3 DEF TicketInv, RoundDrawn

(* ... every step keeps it ... *)
LEMMA TicketInvNext == TicketInv /\ [Next]_vars => TicketInv'
<1> SUFFICES ASSUME TicketInv, [Next]_vars PROVE TicketInv'
  OBVIOUS
<1>1. RoundInv /\ RoundInv'
  BY RoundInvNext DEF TicketInv
<1>2. CASE UNCHANGED rounds
  BY <1>1, <1>2 DEF TicketInv
<1>3. CASE OneRoundMoves
  <2>1. PICK r \in RoundIds : \E new : rounds' = [rounds EXCEPT ![r] = new] /\ RoundMove(r, rounds[r], new)
    BY <1>3 DEF OneRoundMoves
  <2>2. PICK new : rounds' = [rounds EXCEPT ![r] = new] /\ RoundMove(r, rounds[r], new)
    BY <2>1
  <2>3. RoundDrawn(r, new)
    BY <1>1, <2>2, MoveDrawn, RoundInvParts DEF TicketInv
  <2>4. \A q \in RoundIds : rounds'[q] = IF q = r THEN new ELSE rounds[q]
    BY <1>1, <2>2, RoundInvParts
  <2> QED
    BY <1>1, <2>3, <2>4 DEF TicketInv
<1> QED
  BY <1>1, <1>2, <1>3, RoundsMove

(* ... so it always holds. *)
LEMMA TicketInvHolds == Spec => []TicketInv
BY TicketInvInit, TicketInvNext, PTL DEF Spec

(* A revealed match has its full list of winners and alternates, all different
   tickets of its own pool, also when the pool is exactly as large as the list. *)
THEOREM MatchTicketsCorrect ==
  ASSUME HashesAreNumbers
  PROVE  Spec => []MatchTicketsValid
<1>1. TicketInv => MatchTicketsValid
  <2> SUFFICES ASSUME TicketInv, NEW r \in RoundIds, NEW m \in DOMAIN rounds[r].matches
               PROVE  LET match == rounds[r].matches[m]
                      IN  IF match.revealed
                          THEN /\ Len(match.tickets) = match.prizeSlotCount * (match.alternateCount + 1)
                               /\ DistinctTickets(match.tickets, match.totalTickets)
                          ELSE match.tickets = <<>>
    BY DEF MatchTicketsValid
  <2> DEFINE match == rounds[r].matches[m]
             n == match.prizeSlotCount * (match.alternateCount + 1)
  <2>1. MatchDrawn(rounds[r].randomWord, r, m, match) /\ IsMatch(match)
    BY RoundInvParts DEF TicketInv, RoundDrawn, RoundOK, IsRound
  <2>2. match.totalTickets \in Nat /\ match.prizeSlotCount \in Nat /\ match.alternateCount \in Nat
    BY <2>1 DEF IsMatch, ValidPrizeSlotCount, ValidAlternateCount, MAX_PRIZE_SLOTS, MIN_ALTERNATE_COUNT, MAX_ALTERNATE_COUNT
  <2>3. n \in Nat
    BY <2>2
  <2> HIDE DEF match, n
  <2>4. CASE match.revealed
    <3>1. PICK seed : match.tickets = PickTickets(match.totalTickets, n, seed)
      BY <2>1, <2>4 DEF MatchDrawn, RoundMatchTickets, n
    <3>2. n \in 0..match.totalTickets
      BY <2>1, <2>2, <2>3 DEF MatchDrawn, n
    <3>3. Picked(match.totalTickets, n, match.tickets)
      BY <2>2, <3>1, <3>2, PickTicketsPicked
    <3> QED
      <4>1. Len(match.tickets) = n /\ IsInjective(match.tickets)
            /\ ToSet(match.tickets) \subseteq 1..match.totalTickets
        <5>1. \A T : \A s \in Seq(T) : ToSet(s) \subseteq T
          BY DEF ToSet
        <5> QED
          BY <3>3, <5>1 DEF Picked
      <4>2. Len(match.tickets) = match.prizeSlotCount * (match.alternateCount + 1)
            /\ DistinctTickets(match.tickets, match.totalTickets)
        BY <4>1 DEF DistinctTickets, n
      <4> QED
        BY <2>4, <4>2 DEF match
  <2>5. CASE ~ match.revealed
    BY <2>1, <2>5 DEF MatchDrawn, match
  <2> QED
    BY <2>4, <2>5
<1> QED
  BY <1>1, TicketInvHolds, PTL

-----------------------------------------------------------------------------
(* Every move of a round is a step of FairDraw. *)

(* What is seen of the rounds when one of them is replaced. *)
LEMMA RoundAbstracted ==
  ASSUME RoundInv, NEW r \in RoundIds, NEW new, rounds' = [rounds EXCEPT ![r] = new]
  PROVE  /\ RoundPhases' = [RoundPhases EXCEPT ![r] = Phase[new.state]]
         /\ RoundLedgers' = [RoundLedgers EXCEPT ![r] = RoundLedgerOf(new)]
         /\ RoundWords' = [RoundWords EXCEPT ![r] = new.randomWord]
         /\ RoundResults' = [RoundResults EXCEPT ![r] = RoundPublished(new)]
<1>1. rounds = [q \in RoundIds |-> rounds[q]]
  BY RoundInvParts
<1>2. rounds'[r] = new /\ \A q \in RoundIds : q # r => rounds'[q] = rounds[q]
  BY <1>1
<1>3. RoundPhases' = [RoundPhases EXCEPT ![r] = Phase[new.state]]
  <2>1. ASSUME NEW q \in RoundIds, q # r
        PROVE  Phase[rounds'[q].state] = Phase[rounds[q].state]
    BY <1>2, <2>1, Zenon
  <2>2. Phase[rounds'[r].state] = Phase[new.state]
    BY <1>2, Zenon
  <2> QED
    BY <2>1, <2>2 DEF RoundPhases
<1>4. RoundLedgers' = [RoundLedgers EXCEPT ![r] = RoundLedgerOf(new)]
  <2>1. ASSUME NEW q \in RoundIds, q # r
        PROVE  RoundLedgerOf(rounds'[q]) = RoundLedgerOf(rounds[q])
    BY <1>2, <2>1, Zenon
  <2>2. RoundLedgerOf(rounds'[r]) = RoundLedgerOf(new)
    BY <1>2, Zenon
  <2> QED
    BY <2>1, <2>2 DEF RoundLedgers
<1>5. RoundWords' = [RoundWords EXCEPT ![r] = new.randomWord]
  <2>1. ASSUME NEW q \in RoundIds, q # r
        PROVE  rounds'[q].randomWord = rounds[q].randomWord
    BY <1>2, <2>1, Zenon
  <2>2. rounds'[r].randomWord = new.randomWord
    BY <1>2, Zenon
  <2> QED
    BY <2>1, <2>2 DEF RoundWords
<1>6. RoundResults' = [RoundResults EXCEPT ![r] = RoundPublished(new)]
  <2>1. ASSUME NEW q \in RoundIds, q # r
        PROVE  RoundPublished(rounds'[q]) = RoundPublished(rounds[q])
    BY <1>2, <2>1, Zenon
  <2>2. RoundPublished(rounds'[r]) = RoundPublished(new)
    BY <1>2, Zenon
  <2> QED
    BY <2>1, <2>2 DEF RoundResults
<1> QED
  BY <1>3, <1>4, <1>5, <1>6

(* Replacing a value by itself changes nothing. *)
LEMMA UnchangedAt ==
  ASSUME NEW S, NEW f, f = [q \in S |-> f[q]], NEW r \in S, NEW v, f[r] = v
  PROVE  [f EXCEPT ![r] = v] = f
OBVIOUS

(* The views of FairDraw, round by round. *)
LEMMA RoundViews ==
  /\ RoundPhases = [r \in RoundIds |-> RoundPhases[r]]
  /\ RoundLedgers = [r \in RoundIds |-> RoundLedgers[r]]
  /\ RoundWords = [r \in RoundIds |-> RoundWords[r]]
  /\ RoundResults = [r \in RoundIds |-> RoundResults[r]]
  /\ \A r \in RoundIds :
       /\ RoundPhases[r] = Phase[rounds[r].state] /\ RoundLedgers[r] = RoundLedgerOf(rounds[r])
       /\ RoundWords[r] = rounds[r].randomWord /\ RoundResults[r] = RoundPublished(rounds[r])
BY DEF RoundPhases, RoundLedgers, RoundWords, RoundResults

(* An empty round is an open draw. *)
LEMMA EmptyRoundSeen ==
  /\ Phase[EmptyRound.state] = "open" /\ RoundLedgerOf(EmptyRound) = NoLedger
  /\ EmptyRound.randomWord = 0 /\ RoundPublished(EmptyRound) = [i \in {} |-> {}]
<1>1. Phase[EmptyRound.state] = "open" /\ RoundLedgerOf(EmptyRound) = NoLedger
      /\ EmptyRound.randomWord = 0
  BY DEF EmptyRound, Phase, RoundLedgerOf
<1>2. Revealed(EmptyRound) = {}
  BY DEF EmptyRound, NoMatches, Revealed
<1> QED
  BY <1>1, <1>2 DEF RoundPublished

(* A round without revealed matches has published nothing. *)
LEMMA NothingRevealed ==
  ASSUME NEW round, Revealed(round) = {}
  PROVE  RoundPublished(round) = [i \in {} |-> {}]
BY DEF RoundPublished

(* Finalizing a round's ledger is FairDraw's Register ... *)
LEMMA RegistersFairly ==
  ASSUME NEW r \in RoundIds, NEW old, RoundOK(old), NEW new, Registers(old, new)
  PROVE  /\ Phase[old.state] \in {"open", "ready"} /\ Phase[new.state] = "ready"
         /\ IsRoundLedger(RoundLedgerOf(new)) /\ new.randomWord = 0
         /\ RoundPublished(new) = [i \in {} |-> {}]
<1>1. RoundOK(new) /\ RoundDrawn(r, new) /\ new.state = "LedgerFinalized" /\ new.randomWord = 0
  <2>1. RoundDrawn(r, new)
    BY RegistersDrawn
  <2>2. RoundOK(new) /\ new.state = "LedgerFinalized" /\ new.randomWord = 0
    BY FinalizedRoundOK DEF Registers, FinalizedRound
  <2> QED
    BY <2>1, <2>2
<1>2. Revealed(new) = {} /\ new.ledgerHash # 0 /\ DOMAIN new.matches # {}
  BY <1>1 DEF RoundOK, InLifecycle
<1>3. RoundLedgerOf(new) = [hash |-> new.ledgerHash,
                            matches |-> [m \in DOMAIN new.matches |-> MatchFigures(new.matches[m])]]
  BY <1>1 DEF RoundLedgerOf
<1>4. RoundLedgerOf(new) # NoLedger
  BY <1>2, <1>3 DEF NoLedger
<1>5. \A m \in DOMAIN new.matches :
        MatchFigures(new.matches[m]).totalTickets >=
          MatchFigures(new.matches[m]).prizeSlotCount * (MatchFigures(new.matches[m]).alternateCount + 1)
  BY <1>1 DEF RoundDrawn, MatchDrawn, MatchFigures
<1>6. IsRoundLedger(RoundLedgerOf(new))
  <2> DEFINE l == RoundLedgerOf(new)
  <2>1. /\ l.hash # 0 /\ DOMAIN l.matches = DOMAIN new.matches
        /\ \A m \in DOMAIN new.matches : l.matches[m] = MatchFigures(new.matches[m])
    BY <1>2, <1>3
  <2> HIDE DEF l
  <2>2. \A m \in DOMAIN l.matches : l.matches[m].totalTickets >=
          l.matches[m].prizeSlotCount * (l.matches[m].alternateCount + 1)
    BY <1>5, <2>1
  <2>3. l # NoLedger
    BY <1>4 DEF l
  <2>4. IsRoundLedger(l)
    BY <1>2, <2>1, <2>2, <2>3 DEF IsRoundLedger
  <2> QED
    BY <2>4 DEF l
<1>7. Phase[old.state] \in {"open", "ready"} /\ Phase[new.state] = "ready"
  BY <1>1 DEF Registers, Phase
<1> QED
  BY <1>1, <1>2, <1>6, <1>7, NothingRevealed

(* ... revealing a batch of matches is its Publish: the tickets of a match depend
   on the word and the ledger only, whatever was revealed before ... *)
LEMMA RevealsFairly ==
  ASSUME NEW r \in RoundIds, NEW old, RoundOK(old), RoundDrawn(r, old), NEW new, Reveals(r, old, new)
  PROVE  LET l == RoundLedgerOf(old) IN
         /\ RoundLedgerOf(new) = l /\ new.randomWord = old.randomWord /\ Phase[old.state] = "drawn"
         /\ \E batch \in SUBSET RoundItems(l) :
              LET all == DOMAIN RoundPublished(old) \cup batch IN
              /\ batch # {} /\ batch \subseteq RoundItems(l) \ DOMAIN RoundPublished(old)
              /\ RoundPublished(new) = [m \in all |-> RoundOutcome(old.randomWord, r, m, l)]
              /\ Phase[new.state] = IF all = RoundItems(l) THEN "complete" ELSE "drawn"
<1> DEFINE l == RoundLedgerOf(old)
<1>1. PICK batch \in SUBSET DOMAIN old.matches :
        /\ batch # {} /\ old.state = "RandomnessReady"
        /\ (\A m \in batch : ~old.matches[m].revealed) /\ new = RevealedRound(old, r, batch)
  BY DEF Reveals
<1>2. old \in RoundRecord(old.matches) /\ InLifecycle(old) /\ \A m \in DOMAIN old.matches : IsMatch(old.matches[m])
  BY DEF RoundOK, IsRound
<1>3. /\ new.randomWord = old.randomWord /\ new.ledgerHash = old.ledgerHash
      /\ new.state \in {"RandomnessReady", "Fulfilled"}
      /\ new.matches = [m \in DOMAIN old.matches |->
                          IF m \in batch THEN RevealedMatch(old.randomWord, r, m, old.matches[m])
                          ELSE old.matches[m]]
  BY <1>1, <1>2 DEF RoundRecord, RevealedRound
<1>4. RoundOK(new) /\ RoundDrawn(r, new)
  <2>1. RoundOK(new)
    BY <1>1, RevealedRoundOK
  <2> QED
    BY <2>1, MoveDrawn DEF RoundMove
<1>5. ASSUME NEW m \in DOMAIN old.matches
      PROVE  /\ MatchFigures(new.matches[m]) = MatchFigures(old.matches[m])
             /\ new.matches[m].revealed <=> (m \in batch \/ old.matches[m].revealed)
  <2>1. IsMatch(old.matches[m])
    BY <1>2
  <2>2. CASE m \in batch
    <3>1. new.matches[m] = RevealedMatch(old.randomWord, r, m, old.matches[m])
      BY <1>3, <2>2
    <3>2. \A match : IsMatch(match) =>
            /\ RevealedMatch(old.randomWord, r, m, match).revealed = TRUE
            /\ MatchFigures(RevealedMatch(old.randomWord, r, m, match)) = MatchFigures(match)
      BY DEF IsMatch, RevealedMatch, MatchFigures
    <3> QED
      BY <2>1, <2>2, <3>1, <3>2
  <2>3. CASE m \notin batch
    BY <1>3, <2>3
  <2> QED
    BY <2>2, <2>3
<1>6. DOMAIN new.matches = DOMAIN old.matches
  BY <1>3
<1>7. RoundLedgerOf(new) = l
  <2>1. [m \in DOMAIN new.matches |-> MatchFigures(new.matches[m])]
          = [m \in DOMAIN old.matches |-> MatchFigures(old.matches[m])]
    BY <1>5, <1>6
  <2> QED
    BY <1>1, <1>3, <2>1 DEF RoundLedgerOf
<1>8. l # NoLedger /\ DOMAIN l.matches = DOMAIN old.matches
      /\ \A m \in DOMAIN old.matches : l.matches[m] = MatchFigures(old.matches[m])
  BY <1>1, <1>2 DEF RoundLedgerOf, NoLedger, InLifecycle
<1> HIDE DEF l
<1>9. RoundItems(l) = DOMAIN old.matches
  BY <1>8 DEF RoundItems
<1>10. DOMAIN RoundPublished(old) = Revealed(old) /\ DOMAIN RoundPublished(new) = Revealed(new)
  BY DEF RoundPublished
<1>11. Revealed(new) = Revealed(old) \cup batch
  BY <1>1, <1>5, <1>6 DEF Revealed
<1>12. batch \subseteq RoundItems(l) \ DOMAIN RoundPublished(old)
  BY <1>1, <1>9, <1>10 DEF Revealed
<1>13. ASSUME NEW m \in Revealed(new)
       PROVE  new.matches[m].tickets = RoundOutcome(old.randomWord, r, m, l)
  <2>1. m \in DOMAIN old.matches /\ m \in DOMAIN new.matches /\ new.matches[m].revealed
    BY <1>6, <1>13 DEF Revealed
  <2>2. new.matches[m].tickets = RoundMatchTickets(old.randomWord, r, m, new.matches[m])
    BY <1>3, <1>4, <2>1 DEF RoundDrawn, MatchDrawn
  <2>3. l.matches[m] = MatchFigures(new.matches[m])
    BY <1>5, <1>8, <2>1
  <2>4. RoundMatchTickets(old.randomWord, r, m, new.matches[m])
          = RoundMatchTickets(old.randomWord, r, m, MatchFigures(new.matches[m]))
    BY DEF RoundMatchTickets, MatchFigures
  <2> QED
    BY <2>2, <2>3, <2>4 DEF RoundOutcome
<1>14. RoundPublished(new) = [m \in Revealed(new) |-> RoundOutcome(old.randomWord, r, m, l)]
  BY <1>13 DEF RoundPublished
<1>15. Phase[new.state] = IF Revealed(new) = RoundItems(l) THEN "complete" ELSE "drawn"
  <2>1. InLifecycle(new)
    BY <1>4 DEF RoundOK
  <2>2. CASE new.state = "Fulfilled"
    BY <1>6, <1>9, <2>1, <2>2 DEF InLifecycle, Phase
  <2>3. CASE new.state = "RandomnessReady"
    BY <1>6, <1>9, <2>1, <2>3 DEF InLifecycle, Phase
  <2> QED
    BY <1>3, <2>2, <2>3
<1>16. Phase[old.state] = "drawn"
  BY <1>1 DEF Phase
<1> QED
  BY <1>1, <1>3, <1>7, <1>9, <1>10, <1>11, <1>12, <1>14, <1>15, <1>16 DEF l

(* ... and so every move of a round is a step of FairDraw. *)
LEMMA RoundStepIsFair ==
  ASSUME TicketInv, NEW r \in RoundIds, NEW new, rounds' = [rounds EXCEPT ![r] = new],
         RoundMove(r, rounds[r], new)
  PROVE  RoundAsFairDraw!Next
<1> DEFINE old == rounds[r]
<1>1. RoundOK(old) /\ RoundDrawn(r, old)
  BY RoundInvParts DEF TicketInv
<1>2. old.state \in DrawState /\ InLifecycle(old) /\ old \in RoundRecord(old.matches)
  BY <1>1 DEF RoundOK, IsRound, RoundRecord
<1>3. /\ RoundPhases[r] = Phase[old.state] /\ RoundLedgers[r] = RoundLedgerOf(old)
      /\ RoundWords[r] = old.randomWord /\ RoundResults[r] = RoundPublished(old)
  BY RoundViews
<1>4. /\ RoundPhases' = [RoundPhases EXCEPT ![r] = Phase[new.state]]
      /\ RoundLedgers' = [RoundLedgers EXCEPT ![r] = RoundLedgerOf(new)]
      /\ RoundWords' = [RoundWords EXCEPT ![r] = new.randomWord]
      /\ RoundResults' = [RoundResults EXCEPT ![r] = RoundPublished(new)]
  BY RoundAbstracted DEF TicketInv
<1>5. /\ [RoundLedgers EXCEPT ![r] = RoundLedgerOf(old)] = RoundLedgers
      /\ [RoundWords EXCEPT ![r] = old.randomWord] = RoundWords
      /\ [RoundResults EXCEPT ![r] = RoundPublished(old)] = RoundResults
  BY RoundViews, UnchangedAt
<1>6. RoundMove(r, old, new)
  OBVIOUS
<1> HIDE DEF old
<1>7. CASE Registers(old, new)
  <2>1. /\ Phase[old.state] \in {"open", "ready"} /\ Phase[new.state] = "ready"
        /\ IsRoundLedger(RoundLedgerOf(new)) /\ new.randomWord = 0
        /\ RoundPublished(new) = [i \in {} |-> {}]
    BY <1>1, <1>7, RegistersFairly
  <2>2. RoundLedgers'[r] = RoundLedgerOf(new)
    BY <1>4, RoundViews
  <2>3. RoundAsFairDraw!Register(r)
    BY <1>3, <1>4, <2>1, <2>2 DEF RoundAsFairDraw!Register, RoundAsFairDraw!NothingPublished
  <2> QED
    BY <2>3 DEF RoundAsFairDraw!Next
<1>8. CASE Empties(old, new)
  <2>1. Phase[old.state] # "sealed"
    BY <1>2, <1>8 DEF Phase, DrawState, Empties
  <2>2. new = EmptyRound
    BY <1>8 DEF Empties
  <2>3. RoundAsFairDraw!Discard(r)
    BY <1>3, <1>4, <2>1, <2>2, EmptyRoundSeen DEF RoundAsFairDraw!Discard, RoundAsFairDraw!NothingPublished
  <2> QED
    BY <2>3 DEF RoundAsFairDraw!Next
<1>9. CASE Asks(old, new)
  <2>1. /\ old.state = "LedgerFinalized" /\ new.state = "RandomnessRequested"
        /\ new.matches = old.matches /\ new.ledgerHash = old.ledgerHash /\ new.randomWord = old.randomWord
    BY <1>2, <1>9 DEF Asks, RoundRecord
  <2>2. RoundLedgerOf(new) = RoundLedgerOf(old) /\ RoundPublished(new) = RoundPublished(old)
        /\ Phase[old.state] = "ready" /\ Phase[new.state] = "sealed"
    BY <2>1 DEF RoundLedgerOf, RoundPublished, Revealed, Phase
  <2>3. RoundLedgers' = RoundLedgers /\ RoundWords' = RoundWords /\ RoundResults' = RoundResults
    BY <1>4, <1>5, <2>1, <2>2
  <2>4. RoundAsFairDraw!Seal(r)
    BY <1>3, <1>4, <2>2, <2>3 DEF RoundAsFairDraw!Seal
  <2> QED
    BY <2>4 DEF RoundAsFairDraw!Next
<1>10. CASE Learns(old, new)
  <2>1. PICK word \in Words :
          /\ old.state = "RandomnessRequested" /\ new.state = "RandomnessReady"
          /\ new.matches = old.matches /\ new.ledgerHash = old.ledgerHash /\ new.randomWord = word
    BY <1>2, <1>10 DEF Learns, RoundRecord
  <2>2. RoundLedgerOf(new) = RoundLedgerOf(old) /\ RoundPublished(new) = RoundPublished(old)
        /\ Phase[old.state] = "sealed" /\ Phase[new.state] = "drawn"
    BY <2>1 DEF RoundLedgerOf, RoundPublished, Revealed, Phase
  <2>3. RoundLedgers' = RoundLedgers /\ RoundResults' = RoundResults
    BY <1>4, <1>5, <2>2
  <2>4. RoundAsFairDraw!Draw(r, word)
    BY <1>3, <1>4, <2>1, <2>2, <2>3 DEF RoundAsFairDraw!Draw
  <2> QED
    BY <2>4 DEF RoundAsFairDraw!Next
<1>11. CASE Reveals(r, old, new)
  <2> DEFINE l == RoundLedgerOf(old)
  <2>1. /\ RoundLedgerOf(new) = l /\ new.randomWord = old.randomWord /\ Phase[old.state] = "drawn"
        /\ \E batch \in SUBSET RoundItems(l) :
             LET all == DOMAIN RoundPublished(old) \cup batch IN
             /\ batch # {} /\ batch \subseteq RoundItems(l) \ DOMAIN RoundPublished(old)
             /\ RoundPublished(new) = [m \in all |-> RoundOutcome(old.randomWord, r, m, l)]
             /\ Phase[new.state] = IF all = RoundItems(l) THEN "complete" ELSE "drawn"
    BY <1>1, <1>11, RevealsFairly
  <2> HIDE DEF l
  <2>2. PICK batch \in SUBSET RoundItems(l) :
             LET all == DOMAIN RoundPublished(old) \cup batch IN
             /\ batch # {} /\ batch \subseteq RoundItems(l) \ DOMAIN RoundPublished(old)
             /\ RoundPublished(new) = [m \in all |-> RoundOutcome(old.randomWord, r, m, l)]
             /\ Phase[new.state] = IF all = RoundItems(l) THEN "complete" ELSE "drawn"
    BY <2>1
  <2>3. RoundLedgers' = RoundLedgers /\ RoundWords' = RoundWords
    BY <1>4, <1>5, <2>1 DEF l
  <2>4. RoundLedgers[r] = l
    BY <1>3 DEF l
  <2>5. RoundAsFairDraw!Publish(r, batch)
    BY <1>3, <1>4, <2>1, <2>2, <2>3, <2>4 DEF RoundAsFairDraw!Publish
  <2> QED
    BY <2>4, <2>5 DEF RoundAsFairDraw!Next
<1> QED
  BY <1>6, <1>7, <1>8, <1>9, <1>10, <1>11 DEF RoundMove

(* The round-level path implements FairDraw. *)
THEOREM RoundsImplementFairDraw == Spec => RoundsAreFair
<1>1. Init => RoundAsFairDraw!Init
  <2> SUFFICES ASSUME Init PROVE RoundAsFairDraw!Init
    OBVIOUS
  <2>1. \A r \in RoundIds : rounds[r] = EmptyRound
    BY DEF Init, RoundInit
  <2> QED
    BY <2>1, EmptyRoundSeen
    DEF RoundPhases, RoundLedgers, RoundWords, RoundResults, RoundAsFairDraw!Init,
        RoundAsFairDraw!NothingPublished
<1>2. TicketInv /\ [Next]_vars => [RoundAsFairDraw!Next]_(RoundAsFairDraw!fairVars)
  <2> SUFFICES ASSUME TicketInv, [Next]_vars
               PROVE  RoundAsFairDraw!Next \/ UNCHANGED RoundAsFairDraw!fairVars
    OBVIOUS
  <2>1. CASE UNCHANGED rounds
    BY <2>1 DEF RoundPhases, RoundLedgers, RoundWords, RoundResults, RoundAsFairDraw!fairVars
  <2>2. CASE OneRoundMoves
    BY <2>2, RoundStepIsFair DEF OneRoundMoves
  <2> QED
    BY <2>1, <2>2, RoundsMove DEF TicketInv
<1> QED
  BY <1>1, <1>2, TicketInvHolds, PTL DEF Spec, RoundsAreFair, RoundAsFairDraw!Spec
=============================================================================
