------------------------------- MODULE MCDraws ------------------------------
(* LuckyDraw in three views: the rounds, every call of the per-draw path in *)
(* any order, and the script that draws one match beside admins who reveal  *)
(* slots themselves and builds that rewrite its ledger row.                 *)
EXTENDS MCLuckyDraw, MatchRunner

VARIABLE view

drawsVars == <<vars, matchVars, view>>

Row(hash, tickets, slots) == [hash |-> hash, tickets |-> tickets, slots |-> slots]
TwoRows == {Row(1, 3, 2), Row(2, 3, 2)}
SecondFirst == <<1>>

DrawsInit ==
  /\ Init /\ MatchInit
  /\ view \in {"rounds", "calls", "script"}
  /\ view # "script" => row = Row(1, 3, 2)

(* Words and requests that tell the cases of each view apart. *)
InRounds == \A r \in RoundIds : rounds'[r].randomWord \in {0, 17}
InCalls == nextRequestId' =< 3
InScript == InCalls /\ (Chain'.state = "RandomnessReady" => Chain'.randomWord = 17)

(* The runs of the script differ in nothing. *)
AnyRun == Permutations(MatchRuns)

DrawsNext ==
  /\ view' = view
  /\ \/ /\ view = "rounds" /\ Next /\ InRounds
        /\ UNCHANGED <<accessVars, slotVars, matchVars>>
     \/ /\ view = "calls" /\ Next /\ InCalls
        /\ UNCHANGED <<accessVars, roundVars, matchVars>>
     \/ view = "script" /\ MatchRunSteps /\ InScript

DrawsSpec == DrawsInit /\ [][DrawsNext]_drawsVars
=============================================================================
