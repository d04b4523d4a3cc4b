----------------------------- MODULE MatchRunner -----------------------------
(***************************************************************************)
(* The script that carries one draw of the per-draw path through: it reads *)
(* the ledger row of its match, looks at the contract, sends the calls     *)
(* that are still missing, reveals the slots in its own order, batch by    *)
(* batch, and writes the winners file.  It runs from a shell against the   *)
(* contract of LuckyDraw itself, beside other admins who reveal slots too; *)
(* it can be killed anywhere and what it has sent is then still mined.     *)
(***************************************************************************)
EXTENDS LuckyDraw

CONSTANTS
  MatchRuns,      \* the processes that may run the script
  MatchLedgers,   \* the contents the ledger row of the match may have
  RevealOrder,    \* --reveal-order; slots it does not name follow
  SlotBatch,      \* --batch-size
  MaxDeaths       \* bound: runs killed half-way

VARIABLES
  row,        \* the match's row in the draw ledger file
  match,      \* per run, where it is and what it remembers
  pending,    \* the calls sent and not yet mined, oldest first
  announced,  \* the winners file
  deaths,     \* how many runs were killed
  quiet       \* history: no build came between a run or a call and its end

matchVars == <<row, match, pending, announced, deaths, quiet>>

ASSUME MatchRunnerAssumption ==
  /\ MatchLedgers \subseteq [hash : Nat \ {0}, tickets : Nat \ {0}, slots : Nat \ {0}]
  /\ \A l \in MatchLedgers : l.tickets >= l.slots
  /\ \A l \in MatchLedgers : RevealOrder \in Seq(0..(l.slots - 1))
  /\ IsInjective(RevealOrder) /\ SlotBatch \in Nat \ {0} /\ MaxDeaths \in Nat
  /\ "nobody" \notin MatchRuns /\ DrawIds # {}

TheDraw == CHOOSE d \in DrawIds : TRUE
Chain == draws[TheDraw]
NoRow == [hash |-> 0, tickets |-> 0, slots |-> 0]
Resting == [pc |-> "idle", broadcast |-> FALSE, row |-> NoRow, count |-> 0, seen |-> <<>>]
NotAnnounced == [row |-> NoRow, winners |-> <<>>]

MatchInit ==
  /\ row \in MatchLedgers
  /\ match = [p \in MatchRuns |-> Resting]
  /\ pending = <<>>
  /\ announced = NotAnnounced
  /\ deaths = 0 /\ quiet = TRUE

Is(p, pc) == match[p].pc = pc
MoveTo(p, pc) == match' = [match EXCEPT ![p].pc = pc]
Ends(p) == match' = [match EXCEPT ![p] = Resting]
Looks == UNCHANGED <<vars, row, pending, announced, deaths, quiet>>

(* The ledger file is read once. *)
StartMatchRun(p, broadcast) ==
  /\ Is(p, "idle")
  /\ match' = [match EXCEPT ![p] =
       [pc |-> "status", broadcast |-> broadcast, row |-> row, count |-> 0, seen |-> <<>>]]
  /\ Looks

(* Mutant of HoldsOwnRow: the figures of a finalized draw are not compared. *)
HoldsAnyRow(p) == Chain.state # "Draft"

(* The ledger hash, tickets and prize slots the contract holds. *)
ChainRow ==
  [hash |-> Chain.ledgerHash, tickets |-> Chain.totalTickets, slots |-> Chain.prizeSlotCount]

(* They are those of the row. *)
HoldsOwnRow(p) == ChainRow = match[p].row

(* Where a run goes on from the status it sees; "idle" ends it. *)
Continues(p) ==
  IF Chain.state # "Draft" /\ ~ HoldsOwnRow(p) THEN "idle"
  ELSE IF ~ match[p].broadcast
  THEN IF Chain.state = "Fulfilled" THEN "winners" ELSE "idle"
  ELSE [Draft |-> "finalize", LedgerFinalized |-> "request", RandomnessRequested |-> "await",
        RandomnessReady |-> "count", Fulfilled |-> "count"][Chain.state]

(* The status at the start, and again when the finalize call is mined.     *)
SeeStatus(p) ==
  /\ Is(p, "status")
  /\ IF Continues(p) = "idle" THEN Ends(p) ELSE MoveTo(p, Continues(p))
  /\ Looks

(* A request is mined, or the wait polls: the word is there, it is not, or *)
(* the wait takes too long.                                                *)
AwaitWord(p) ==
  /\ Is(p, "await")
  /\ IF Chain.state \in {"RandomnessReady", "Fulfilled"} THEN MoveTo(p, "count") ELSE Ends(p)
  /\ Looks

(* Two calls, one after the other: how many slots are revealed, and which. *)
SeeCount(p) ==
  /\ Is(p, "count")
  /\ IF Chain.state = "Fulfilled" THEN MoveTo(p, "winners")
     ELSE match' = [match EXCEPT ![p].pc = "slots", ![p].count = Len(Chain.revealedPrizeSlots)]
  /\ Looks

SeeSlots(p) ==
  /\ Is(p, "slots")
  /\ match' = [match EXCEPT ![p].pc = "reveal", ![p].seen = Chain.revealedPrizeSlots]
  /\ Looks

-----------------------------------------------------------------------------
(* Calls.  All runs sign with the deployer's wallet. *)

Call(tx) ==
  \/ tx.call = "finalize" /\ FinalizeLedger(Deployer, TheDraw, tx.row.hash, tx.row.tickets, tx.row.slots)
  \/ tx.call = "request" /\ RequestDraw(Deployer, TheDraw)
  \/ tx.call = "reveal" /\ DrawPrizeSlots(Deployer, TheDraw, tx.slots)

(* The call would not revert now. *)
MayCall(tx) == ENABLED Call(tx)

(* A call that would revert now is not sent, and the run ends.             *)
SendCall(p, call, slots) ==
  LET tx == [call |-> call, by |-> p, row |-> match[p].row, slots |-> slots]
  IN  /\ IF MayCall(tx)
         THEN pending' = Append(pending, tx) /\ MoveTo(p, "mining")
         ELSE UNCHANGED pending /\ Ends(p)
      /\ UNCHANGED <<vars, row, announced, deaths, quiet>>

SendFirst(p) ==
  \E call \in {"finalize", "request"} : Is(p, call) /\ SendCall(p, call, <<>>)

Lesser(a, b) == IF a < b THEN a ELSE b

(* Every slot of the row, those of --reveal-order first.                   *)
Order(p) ==
  RevealOrder \o SelectSeq([i \in 1..match[p].row.slots |-> i - 1],
                           LAMBDA s : ~ Contains(RevealOrder, s))

(* The next slots nobody has revealed, as far as the last two calls tell.  *)
NextBatch(p) ==
  LET left == SelectSeq(Order(p), LAMBDA s : ~ Contains(match[p].seen, s))
  IN  SubSeq(left, 1, Lesser(Len(left), Lesser(SlotBatch, match[p].row.slots - match[p].count)))

SendSlots(p) ==
  /\ Is(p, "reveal")
  /\ IF NextBatch(p) = <<>> THEN Ends(p) /\ Looks ELSE SendCall(p, "reveal", NextBatch(p))

After(call) == [finalize |-> "status", request |-> "await", reveal |-> "count"][call]

(* Whether a call worked is told to the run that sent it, if that still runs. *)
Told(tx, pc) ==
  IF tx.by \notin MatchRuns THEN UNCHANGED match
  ELSE IF pc = "idle" THEN Ends(tx.by) ELSE MoveTo(tx.by, pc)

(* The oldest call is mined. *)
MineCall ==
  /\ pending # <<>>
  /\ LET tx == Head(pending)
     IN  \/ Call(tx) /\ Told(tx, After(tx.call))
         \/ ~ MayCall(tx) /\ Told(tx, "idle") /\ UNCHANGED <<draws, drawIdList, drawIdByRequestId, coordinatorVars>>
  /\ pending' = Tail(pending)
  /\ UNCHANGED <<accessVars, roundVars, row, announced, deaths, quiet>>

-----------------------------------------------------------------------------

(* What the script demands of the winners before it writes them.           *)
Consistent(draw, l) ==
  /\ Len(draw.allComputedTickets) = l.slots
  /\ Len(draw.revealedTickets) = l.slots /\ Len(draw.revealedPrizeSlots) = l.slots
  /\ IsInjective(draw.allComputedTickets)
  /\ ToSet(draw.allComputedTickets) \subseteq 1..l.tickets
  /\ \A i \in 1..l.slots :
       draw.revealedTickets[i] = draw.allComputedTickets[draw.revealedPrizeSlots[i] + 1]

Announce(p) ==
  /\ Is(p, "winners")
  /\ announced' = IF match[p].broadcast => Consistent(Chain, match[p].row)
                  THEN [row |-> match[p].row, winners |-> Chain.allComputedTickets] ELSE announced
  /\ Ends(p)
  /\ UNCHANGED <<vars, row, pending, deaths, quiet>>

(* A new build of the draw ledger writes the row, whoever runs the script   *)
(* meanwhile: no lock keeps the builder and the script apart.               *)
RebuildRow(l) ==
  /\ l # row /\ row' = l
  /\ quiet' = (quiet /\ pending = <<>> /\ \A p \in MatchRuns : Is(p, "idle"))
  /\ UNCHANGED <<vars, match, pending, announced, deaths>>

Die(p) ==
  /\ ~ Is(p, "idle") /\ deaths < MaxDeaths /\ deaths' = deaths + 1
  /\ pending' = [i \in DOMAIN pending |->
                   IF pending[i].by = p THEN [pending[i] EXCEPT !.by = "nobody"] ELSE pending[i]]
  /\ Ends(p)
  /\ UNCHANGED <<vars, row, announced, quiet>>

(* The coordinator's answer, and another admin who reveals. *)
OtherCalls ==
  /\ \/ \E id \in RequestIds, word \in Words : FulfillDraw(id, word)
     \/ \E a \in Accounts : DrawNext(a, TheDraw) \/ DrawRandomPrizeSlot(a, TheDraw)
  /\ UNCHANGED <<accessVars, roundVars, matchVars>>

MatchRunSteps ==
  \/ \E p \in MatchRuns :
       \/ \E broadcast \in BOOLEAN : StartMatchRun(p, broadcast)
       \/ SeeStatus(p) \/ AwaitWord(p) \/ SeeCount(p) \/ SeeSlots(p) \/ SendFirst(p) \/ SendSlots(p)
       \/ Announce(p) \/ Die(p)
  \/ MineCall
  \/ \E l \in MatchLedgers : RebuildRow(l)
  \/ OtherCalls

MatchSpec == Init /\ MatchInit /\ [][MatchRunSteps]_<<vars, matchVars>>

-----------------------------------------------------------------------------

(* Whatever runs were killed or overtaken, by each other, by calls of      *)
(* killed runs, by builds or by admins who reveal out of turn, the winners *)
(* file lists every prize slot of a drawn match, and the ticket it gives a *)
(* slot is the one the contract's ledger and word determine.  The ledger   *)
(* it names is the contract's, unless a build has rewritten the row while  *)
(* a run or a call already sent still carried the old one.                 *)
AnnouncedIsTheDraw ==
  announced # NotAnnounced =>
    /\ Chain.state = "Fulfilled"
    /\ announced.winners =
         PickTickets(Chain.totalTickets, Chain.prizeSlotCount, <<Chain.randomWord, TheDraw>>)
    /\ quiet => announced.row.hash = Chain.ledgerHash

(* What the script says of the ledger it announces, "Contract ledger hash  *)
(* ... does not match ..." being an error, without that exception: the     *)
(* ledger of the winners file is the one the contract drew from.           *)
AnnouncedLedgerIsDrawn ==
  announced # NotAnnounced => announced.row.hash = Chain.ledgerHash
=============================================================================
