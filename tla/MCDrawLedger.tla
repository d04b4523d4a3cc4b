---------------------------- MODULE MCDrawLedger ----------------------------
(* Constants for checking DrawLedger with TLC. *)
EXTENDS DrawLedger, TLC

CONSTANTS alice, bob

TwoMatches == <<"round16", "round16">>
OneMatch == <<"round16">>

(* Draw 2 is a redraw of round16. *)
BaseAndRedraw == <<"round16", "round16">>

Entry(raw) ==
  [raw |-> raw, carryover |-> 0, practice |-> 0, taskReward |-> 0, insiderGrant |-> 0]

Ballot(wallet, match, team, tickets) ==
  [wallet |-> wallet, match |-> match, team |-> team, tickets |-> tickets]

Placed == <<Ballot(alice, 1, 1, 3), Ballot(bob, 2, 1, 3)>>
Late == {Ballot(bob, 1, 1, 1), Ballot(bob, 1, 2, 3)}
BothTeams == <<Ballot(alice, 1, 1, 3), Ballot(bob, 1, 2, 3)>>

PlacedAndLate == {Placed[i] : i \in DOMAIN Placed} \cup Late
BothTeamsBallots == {BothTeams[i] : i \in DOMAIN BothTeams}

(* Bob's tickets do not cover both of his late votes. *)
ShortLedger == alice :> Entry(3) @@ bob :> Entry(6)
=============================================================================
