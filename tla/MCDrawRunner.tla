---------------------------- MODULE MCDrawRunner ----------------------------
(* Two views of DrawRunner: two runners in every mode at the same time, and *)
(* one at a time that broadcasts, as the draw-admin API starts them.        *)
EXTENDS DrawRunner, TLC

CONSTANTS r1, r2, m1, m2, m3

ASSUME ViewAssumption == r1 \in Runners

VARIABLE view

mcVars == <<vars, view>>

TwoRunners == {r1, r2}
ThreeMatches == {m1, m2, m3}

MCInit == Init /\ view \in {"together", "alone"}

MCNext ==
  /\ Next
  /\ view' = view
  /\ view = "together" => kills' =< 2
  /\ view = "alone" =>
       /\ \A r \in Runners \ {r1} : run'[r].pc = "idle"
       /\ run'[r1].pc # "idle" => run'[r1].mode = "broadcast"

MCSpec == MCInit /\ [][MCNext]_mcVars /\ Fairness(r1)

(* With one runner at a time, which is what the API's flag ensures, a       *)
(* winners file labelled revealed is never followed by one labelled         *)
(* partial, whatever transactions of killed runs land late.                 *)
LabelNeverRegresses ==
  [][view = "alone" /\ snapshot # NoSnapshot /\ snapshot.fulfilled
       => snapshot'.fulfilled]_<<view, snapshot>>

(* If somebody keeps running the script, the round ends with a winners file *)
(* labelled revealed, although runs are killed at their worst moments; or   *)
(* the ledger file was replaced after it was finalized, which stops every   *)
(* later run.                                                               *)
RoundGetsPublished ==
  view = "alone" =>
    <>(\/ snapshot # NoSnapshot /\ snapshot.fulfilled
       \/ phase # "open" /\ ledger # file)
=============================================================================
