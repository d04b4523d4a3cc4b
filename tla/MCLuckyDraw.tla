----------------------------- MODULE MCLuckyDraw ----------------------------
(***************************************************************************)
(* Constants of the LuckyDraw runs.  The hash is a mixed-radix digit of    *)
(* the seed, so that a few words already reach many different outcomes.    *)
(***************************************************************************)
EXTENDS LuckyDraw

Place(k) == CASE k = 0 -> 1 [] k = 1 -> 4 [] k = 2 -> 12 [] OTHER -> 24

MCKeccak(x) ==
  IF Len(x) = 2 THEN x[1] \div Place(x[2])                  \* <<seed, pick index>>
  ELSE IF Len(x) = 3 THEN x[1] \div Place(x[3]) + x[2]      \* <<word, draw, pick index>>
  ELSE x[1] + 5 * x[2] + 7 * x[4]                           \* round seeds and prize slots

Input(id, hash, total, slots, alternates) ==
  [matchId |-> id, ledgerHash |-> hash, totalTickets |-> total,
   prizeSlotCount |-> slots, alternateCount |-> alternates]

(* One match with a pool of exactly the tickets it needs, two matches, and
   lists the contract refuses: a repeated match, a pool one ticket short, too
   few and too many alternates, and no match at all. *)
MCMatchLists ==
  {<<Input(1, 1, 3, 1, 2)>>,
   <<Input(2, 2, 4, 1, 2), Input(1, 2, 4, 1, 3)>>,
   <<Input(1, 1, 3, 1, 2), Input(1, 2, 4, 1, 2)>>,
   <<Input(1, 1, 2, 1, 2)>>, <<Input(1, 1, 4, 1, 1)>>,
   <<Input(2, 2, 20, 1, 17)>>, <<>>}

MCVrfConfigs ==
  {[keyHash |-> 1, subscriptionId |-> 1, callbackGasLimit |-> 1],
   [keyHash |-> 0, subscriptionId |-> 1, callbackGasLimit |-> 1]}
=============================================================================
