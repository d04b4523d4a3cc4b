----------------------------- MODULE MCDrawDay -----------------------------
(* Two views of DrawDay, each small enough for TLC: two operators at their  *)
(* pages drawing one round and its redraw, and a reader of the board while *)
(* two rounds are drawn by calls of the API.                               *)
EXTENDS DrawDay, TLC

CONSTANTS p1, b1

VARIABLE view

TwoRounds == <<"round16", "quarterFinal">>

mcVars == <<vars, view>>

MCInit ==
  /\ Init
  /\ \/ view = "operators" /\ nodeUp = TRUE /\ locked \in {{}, {d \in Draws : d.round = RoundSeq[1]}}
     \/ view = "public" /\ locked = {Base(r) : r \in Rounds}

MCNext ==
  /\ view' = view
  /\ \/ view = "operators" /\ UNCHANGED boardVars
        /\ \/ (WorldSteps \/ SyncFinals) /\ UNCHANGED roomVars
           \/ \E p \in Pages : RoomSteps(p)
        /\ finals' \subseteq {RoundSeq[1]}
     \/ view = "public" /\ UNCHANGED roomVars
        /\ \/ ApiSteps({Base(r) : r \in Rounds})
           \/ WorldSteps /\ UNCHANGED boardVars
           \/ BoardSteps
     \/ Restart

MCSpec == MCInit /\ [][MCNext]_mcVars /\ Fairness

=============================================================================
