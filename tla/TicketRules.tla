---------------------------- MODULE TicketRules ----------------------------
(***************************************************************************)
(* ticketEligibility.js: which of a wallet's tickets count in which round. *)
(* A ledger entry holds buyback (raw), carryover, practice and insider     *)
(* tickets.  round32 takes only the practice tickets; the later rounds     *)
(* share one pool of everything else.  Both sides of the vote use these    *)
(* rules: the store, when it accepts a vote, and the draw ledger build,    *)
(* when it checks all votes again.                                         *)
(***************************************************************************)
EXTENDS Integers, FiniteSetsExt

SharedRounds == {"round16", "quarterFinal", "semiFinal", "final"}
Rounds == {"round32"} \cup SharedRounds

EntryFields == {"raw", "carryover", "practice", "taskReward", "insiderGrant"}

(* A task reward replaces a smaller insider grant, it does not add to it. *)
InsiderGrant(entry) == Max({entry.taskReward, entry.insiderGrant})

BaseTickets(entry, round) ==
  IF round = "round32" THEN 0 ELSE entry.raw + entry.carryover

UsableTickets(entry, round) ==
  BaseTickets(entry, round)
    + (IF round = "round32" THEN entry.practice ELSE 0)
    + (IF round \in SharedRounds THEN InsiderGrant(entry) ELSE 0)

(* used[r]: the tickets a wallet has placed in round r. *)
SharedPoolUsed(used) == SumFunctionOnSet(used, SharedRounds)

SharedGrantUsed(used, entry) ==
  Max({0, SharedPoolUsed(used) - BaseTickets(entry, "round16")})
=============================================================================
