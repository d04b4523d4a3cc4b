----------------------------- MODULE MCVotesApi -----------------------------
(* Three views of VotesApi, each small enough for TLC.  Two handlers spend  *)
(* the pool that the later rounds share.  One handler at a time sees the    *)
(* matches open, close and get their results.  Two handlers see teams come  *)
(* up in calendars that overtake each other or leave out a row.             *)
EXTENDS VotesApi, TLC

CONSTANTS alice, bob, h1, h2

VARIABLE view

mcVars == <<vars, view>>

(* The matches by number.  The round32 match comes before those of round16, *)
(* so that their numbers and their positions differ.                        *)
ThreeRounds == <<"round32", "round16", "round16", "quarterFinal">>
TwoOfRound16 == <<"round16", "round16">>

AllRows == {DOMAIN RoundOf}
RowMissing == {DOMAIN RoundOf, {2}}
SecondMissing == {DOMAIN RoundOf, DOMAIN RoundOf \ {2}}

Open == {[m \in DOMAIN RoundOf |-> "open"]}
PoolOpen == <<"final", "open", "final", "open">>
Opening == <<"final", "unknown", "unknown", "final">>
PoolOrOpening == {PoolOpen, Opening}

Entry(raw, carryover, practice, reward, grant) ==
  [raw |-> raw, carryover |-> carryover, practice |-> practice,
   taskReward |-> reward, insiderGrant |-> grant]

PoorLedger == {alice :> Entry(1, 0, 0, 0, 0)}
Rich == alice :> Entry(0, 1, 1, 1, 1) @@ bob :> Entry(0, 0, 0, 0, 0)
Two == alice :> Entry(1, 0, 0, 0, 0) @@ bob :> Entry(0, 0, 0, 1, 0)
RichOrTwo == {Rich, Two}

Ballot(id, wallet, match, team, tickets) ==
  [id |-> id, wallet |-> wallet, match |-> match, team |-> <<team, 1>>, tickets |-> tickets]

PoolBallots == {Ballot(1, alice, 2, 2, 1), Ballot(2, alice, 4, 4, 2)}
(* The last ballot of each set is for a team of another match, which the    *)
(* app may show there.                                                      *)
CalendarBallots == {Ballot(3, alice, 2, 2, 1), Ballot(4, alice, 3, 3, 1), Ballot(7, alice, 2, 3, 1)}
OpeningBallots ==
  {Ballot(3, alice, 2, 2, 1), Ballot(4, alice, 3, 3, 1), Ballot(5, bob, 3, 3, 1), Ballot(6, bob, 3, 2, 1)}
Round16Ballots ==
  {Ballot(1, alice, 1, 1, 1), Ballot(2, alice, 2, 2, 1), Ballot(3, alice, 1, 2, 1)}
ViewBallots == PoolBallots \cup CalendarBallots \cup OpeningBallots

MCInit ==
  /\ Init
  /\ \/ view = "pool" /\ stage = PoolOpen /\ ledger = Rich
     \/ view \in {"opening", "calendar"} /\ stage = Opening /\ ledger = Two

Busy == {h \in Handlers : req'[h].pc # "idle"}
Voted(ballots) == \A h \in Busy : req'[h].ballot \in ballots
WholeAnswers == \A h \in Busy : req'[h].fixtures.listed \in {{}, Matches}

MCNext ==
  /\ Next
  /\ view' = view
  /\ \/ /\ view = "pool"
        /\ Voted(PoolBallots) /\ WholeAnswers
        /\ ledger' = ledger
        /\ stage'[2] = "open" /\ results' \subseteq {4}
     \/ /\ view = "opening"
        /\ Voted(OpeningBallots) /\ WholeAnswers
        /\ Cardinality(Busy) =< 1
        /\ results' \subseteq {2, 3}
     \/ /\ view = "calendar"
        /\ Voted(CalendarBallots)
        /\ \A m \in {2, 3} : stage'[m] \in {"unknown", "open"}
        /\ ledger' = ledger
        /\ results' = {}

MCSpec == MCInit /\ [][MCNext]_mcVars

(* Everything at once, for a single handler. *)
AllSpec == (Init /\ view = "all") /\ [][Next /\ view' = view]_mcVars

SymHandlers == Permutations(Handlers)
=============================================================================
