------------------------------ MODULE RoundDraw -----------------------------
(***************************************************************************)
(* The round-level draw of RenaissLuckyDraw: one ledger of matches, one    *)
(* random word, and a reveal of each match.  Every external function of    *)
(* the contract is an action; a call that reverts is no step.  Identifiers *)
(* and hashes are numbers and 0 is bytes32(0).                             *)
(***************************************************************************)
EXTENDS DrawAccess, VrfCoordinator, TicketPick

CONSTANTS
  RoundIds,       \* round identifiers (a call with the zero id reverts)
  LedgerHashes,   \* the ledger hashes an admin may submit, 0 among them
  MatchLists      \* the lists of match inputs an admin may submit

ASSUME RoundAssumption ==
  /\ RoundIds \subseteq Nat \ {0}
  /\ LedgerHashes \subseteq Nat
  /\ \A inputs \in MatchLists :
       inputs \in Seq([matchId : Nat, ledgerHash : Nat, totalTickets : Nat,
                       prizeSlotCount : Nat, alternateCount : Nat])

VARIABLES
  rounds,               \* s_rounds
  roundIdList,          \* s_roundIds: the rounds ever registered, in that order
  roundIdByRequestId    \* s_roundIdByRequestId, 0 where nothing was stored

roundVars == <<rounds, roundIdList, roundIdByRequestId>>

MIN_ALTERNATE_COUNT == 2
MAX_ALTERNATE_COUNT == 16

DrawState == {"Draft", "LedgerFinalized", "RandomnessRequested", "RandomnessReady", "Fulfilled"}

NoMatches == [m \in {} |-> {}]

EmptyRound ==
  [state |-> "Draft", ledgerHash |-> 0, matchIds |-> <<>>, matches |-> NoMatches,
   requestId |-> 0, randomWord |-> 0, revealedMatchCount |-> 0]

RoundInit ==
  /\ rounds = [r \in RoundIds |-> EmptyRound]
  /\ roundIdList = <<>>
  /\ roundIdByRequestId = [id \in RequestIds |-> 0]

-----------------------------------------------------------------------------
(* Helpers. *)

(* _rememberRoundId, _rememberDrawId *)
Remember(list, id) == IF Contains(list, id) THEN list ELSE Append(list, id)

(* Mutant of KeptMatches: the reset clears matchIds but no match. *)
KeptMatchesUncleared(round) == round.matches

(* _resetRoundStorage deletes the matches listed in matchIds: what is left. *)
KeptMatches(round) ==
  [m \in DOMAIN round.matches \ ToSet(round.matchIds) |-> round.matches[m]]

ValidAlternateCount(n) == n \in MIN_ALTERNATE_COUNT..MAX_ALTERNATE_COUNT

(* Mutant of ValidMatchInput: a match may be listed twice. *)
ValidMatchInputRepeated(known, input) ==
  /\ input.matchId # 0 /\ input.ledgerHash # 0 /\ input.totalTickets # 0
  /\ ValidPrizeSlotCount(input.prizeSlotCount)
  /\ ValidAlternateCount(input.alternateCount)
  /\ input.totalTickets >= input.prizeSlotCount * (input.alternateCount + 1)

(* _validateRoundMatchInput, with the matches known when the input is reached. *)
ValidMatchInput(known, input) ==
  /\ input.matchId # 0 /\ input.ledgerHash # 0 /\ input.totalTickets # 0
  /\ input.matchId \notin known
  /\ ValidPrizeSlotCount(input.prizeSlotCount)
  /\ ValidAlternateCount(input.alternateCount)
  /\ input.totalTickets >= input.prizeSlotCount * (input.alternateCount + 1)

IdsOf(inputs) == [i \in DOMAIN inputs |-> inputs[i].matchId]

(* The matches known before the i-th input is validated. *)
KnownBefore(kept, inputs, i) == DOMAIN kept \cup {inputs[j].matchId : j \in 1..(i - 1)}

(* A registered match: the input's figures, nothing revealed. *)
NewMatch(input) ==
  [ledgerHash |-> input.ledgerHash, totalTickets |-> input.totalTickets,
   prizeSlotCount |-> input.prizeSlotCount, alternateCount |-> input.alternateCount,
   revealed |-> FALSE, tickets |-> <<>>]

RegisterMatches(kept, inputs) ==
  [m \in DOMAIN kept \cup ToSet(IdsOf(inputs)) |->
     IF m \in ToSet(IdsOf(inputs))
     THEN NewMatch(inputs[CHOOSE i \in DOMAIN inputs : inputs[i].matchId = m])
     ELSE kept[m]]

(* What _revealRoundMatch makes of a match; tickets already computed stay. *)
RevealedMatch(word, r, m, match) ==
  [match EXCEPT !.revealed = TRUE,
                !.tickets = IF match.tickets # <<>> THEN match.tickets
                            ELSE RoundMatchTickets(word, r, m, match)]

-----------------------------------------------------------------------------
(* The contract's functions. *)

FinalizeRoundLedger(a, r, hash, inputs) ==
  LET round == rounds[r]
      kept  == KeptMatches(round)
  IN  /\ IsDrawAdmin(a)
      /\ hash # 0 /\ inputs # <<>>
      /\ round.state \in {"Draft", "LedgerFinalized"}
      /\ \A i \in DOMAIN inputs : ValidMatchInput(KnownBefore(kept, inputs, i), inputs[i])
      /\ rounds' = [rounds EXCEPT ![r] =
           [state |-> "LedgerFinalized", ledgerHash |-> hash,
            matchIds |-> IdsOf(inputs), matches |-> RegisterMatches(kept, inputs),
            requestId |-> 0, randomWord |-> 0, revealedMatchCount |-> 0]]
      /\ roundIdList' = Remember(roundIdList, r)
      /\ UNCHANGED <<roundIdByRequestId, coordinatorVars>>

(* Mutant of ResetRoundDraft: a round may be abandoned while it waits. *)
ResetRoundDraftUnguarded(a, r) ==
  /\ IsDrawAdmin(a)
  /\ rounds' = [rounds EXCEPT ![r] =
       [EmptyRound EXCEPT !.matches = KeptMatches(rounds[r])]]
  /\ UNCHANGED <<roundIdList, roundIdByRequestId, coordinatorVars>>

ResetRoundDraft(a, r) ==
  /\ IsDrawAdmin(a)
  /\ rounds[r].state # "RandomnessRequested"
  /\ rounds' = [rounds EXCEPT ![r] =
       [EmptyRound EXCEPT !.matches = KeptMatches(rounds[r])]]
  /\ UNCHANGED <<roundIdList, roundIdByRequestId, coordinatorVars>>

(* Mutant of RequestRoundDraw: the request is not entered in the table. *)
RequestRoundDrawUnrecorded(a, r) ==
  /\ IsDrawAdmin(a)
  /\ rounds[r].state = "LedgerFinalized"
  /\ UsableVrfConfig(vrfConfig)
  /\ RequestRandomWords
  /\ rounds' = [rounds EXCEPT ![r] =
       [rounds[r] EXCEPT !.requestId = nextRequestId, !.state = "RandomnessRequested"]]
  /\ UNCHANGED <<roundIdList, roundIdByRequestId>>

RequestRoundDraw(a, r) ==
  LET round == rounds[r]
  IN  /\ IsDrawAdmin(a)
      /\ round.state = "LedgerFinalized"
      /\ round.matchIds # <<>> /\ round.ledgerHash # 0
      /\ UsableVrfConfig(vrfConfig)
      /\ RequestRandomWords
      /\ rounds' = [rounds EXCEPT ![r] =
           [round EXCEPT !.requestId = nextRequestId, !.state = "RandomnessRequested"]]
      /\ roundIdByRequestId' = [roundIdByRequestId EXCEPT ![nextRequestId] = r]
      /\ UNCHANGED roundIdList

(* Mutant of FulfillRound: the answer to any request of the round will do. *)
FulfillRoundAnyRequest(id, word) ==
  LET r == roundIdByRequestId[id]
  IN  /\ Callback(id)
      /\ r # 0
      /\ rounds[r].state = "RandomnessRequested"
      /\ rounds' = [rounds EXCEPT ![r] =
           [rounds[r] EXCEPT !.randomWord = word, !.revealedMatchCount = 0,
                             !.state = "RandomnessReady"]]
      /\ UNCHANGED <<roundIdList, roundIdByRequestId>>

(* fulfillRandomWords for a request that belongs to a round. *)
FulfillRound(id, word) ==
  LET r == roundIdByRequestId[id]
  IN  /\ Callback(id)
      /\ r # 0
      /\ rounds[r].state = "RandomnessRequested" /\ rounds[r].requestId = id
      /\ rounds' = [rounds EXCEPT ![r] =
           [rounds[r] EXCEPT !.randomWord = word, !.revealedMatchCount = 0,
                             !.state = "RandomnessReady"]]
      /\ UNCHANGED <<roundIdList, roundIdByRequestId>>

(* revealRoundMatches; revealRoundMatch is the batch of one.  The tickets of
   a match depend on no other match, so the order of the list is left out; a
   list with an unknown, revealed or repeated match reverts as a whole. *)
RevealRoundMatches(a, r, batch) ==
  LET round == rounds[r]
      count == round.revealedMatchCount + Cardinality(batch)
  IN  /\ IsDrawAdmin(a)
      /\ round.state = "RandomnessReady"
      /\ batch # {}
      /\ batch \subseteq DOMAIN round.matches
      /\ \A m \in batch : ~round.matches[m].revealed
      /\ rounds' = [rounds EXCEPT ![r] =
           [round EXCEPT
              !.matches = [m \in DOMAIN round.matches |->
                             IF m \in batch
                             THEN RevealedMatch(round.randomWord, r, m, round.matches[m])
                             ELSE round.matches[m]],
              !.revealedMatchCount = count,
              !.state = IF count = Len(round.matchIds) THEN "Fulfilled" ELSE "RandomnessReady"]]
      /\ UNCHANGED <<roundIdList, roundIdByRequestId, coordinatorVars>>

RoundCall(a, r) ==
  \/ \E hash \in LedgerHashes, inputs \in MatchLists : FinalizeRoundLedger(a, r, hash, inputs)
  \/ ResetRoundDraft(a, r)
  \/ RequestRoundDraw(a, r)
  \/ \E batch \in SUBSET DOMAIN rounds[r].matches : RevealRoundMatches(a, r, batch)
=============================================================================
