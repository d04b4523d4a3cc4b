------------------------------- MODULE MCSite -------------------------------
(* What lies around the votes and the draws, in views that TLC checks side *)
(* by side: visitors who log in, voters who show that they may vote, one   *)
(* of them twice, the two views of the page, the server's data, the scan   *)
(* for tickets and the ledger made of them, the results of the matches,    *)
(* and the store of the votes.                                             *)
EXTENDS VoteGate, Page, ServerData, TicketScan, TicketLedger, MatchResults, VoteStore, TLC

CONSTANTS w1, w2, w3, w4, x1, x2, b1, b2, u2, m1, m2, argentina, france

VARIABLE view

(* Three owners who played before, one with a wallet that the resolver     *)
(* knows as w4's.                                                          *)
ThreeOwners ==
  {[wallet |-> w1, sources |-> {w1}, tickets |-> 4],
   [wallet |-> w2, sources |-> {w2}, tickets |-> 2],
   [wallet |-> w4, sources |-> {w3, w4}, tickets |-> 3]}
OneGrant == w1 :> [practice |-> 1, grant |-> 1]
OneJoined == w1 :> w1 @@ w2 :> w2 @@ w3 :> w4 @@ w4 :> w4

(* Who may move: either way between two, on from one of them to a wallet   *)
(* that the resolver joins with another, and from such a one to them.      *)
FourMoves == {<<w1, w2>>, <<w2, w1>>, <<w2, w4>>, <<w3, w1>>}

(* A match found by its id, and one of the calendar whose teams the map    *)
(* does not name; pages of it before the end, with a winner who is not yet *)
(* official, with one who is, with the other, and of another match.        *)
TwoMatches == <<m1, m2>>
OnlyFirstNamed == m1 :> {argentina, france} @@ m2 :> {}
PageOf(away, winner, final, official) ==
  [home |-> argentina, away |-> away, winner |-> winner, final |-> final, official |-> official]
FivePages ==
  {PageOf(france, "none", FALSE, FALSE), PageOf(france, "home", TRUE, FALSE),
   PageOf(france, "home", TRUE, TRUE), PageOf(france, "away", TRUE, TRUE),
   PageOf(Unnamed, "home", TRUE, TRUE)}

(* Votes of an earlier version, on a match by both of its ids, and on two. *)
Renamed == "m73" :> "M89" @@ "m74" :> "M90"
OldVote(by, m) == [by |-> by, match |-> m]
OldVotes ==
  {<<>>, <<OldVote(w1, "m73"), OldVote(w2, "m73")>>,
   <<OldVote(w1, "m73"), OldVote(w1, "M89"), OldVote(w2, "m74")>>}

siteVars ==
  <<accountVars, gateVars, voteViewVars, winnersViewVars, dataVars, scanVars,
    ticketLedgerVars, resultsVars, storeVars, view>>

(* Two voters who have logged in: one has connected the X account on file, *)
(* the other has shown in an earlier session that hers follows.            *)
TwoVoters ==
  /\ challenges = << [provider |-> "renaiss", open |-> FALSE, connect |-> 0],
                     [provider |-> "renaiss", open |-> FALSE, connect |-> 0],
                     [provider |-> "x", open |-> FALSE, connect |-> 1] >>
  /\ sessions = << [wallet |-> w1, live |-> TRUE, by |-> 1],
                   [wallet |-> w2, live |-> TRUE, by |-> 2] >>
  /\ tokens = << [x |-> x1, fresh |-> TRUE, by |-> 3], NoToken >>
  /\ profile = (w1 :> x1 @@ w2 :> x2)
  /\ queue = <<>>
  /\ cookie = (b1 :> 1 @@ b2 :> 2)
  /\ state = [b \in Browsers |-> [provider \in Providers |-> 0]]
  /\ call = [c \in Calls |-> NoCall]
  /\ follow = (w1 :> [status |-> None, x |-> None] @@ w2 :> [status |-> "verified", x |-> x2])
  /\ checks = [k \in Wallets \X XIds |-> [eligible |-> FALSE, uid |-> None]]

(* A voter in two browsers, one session gone by her old X account, which she *)
(* connected there, and one by the account her last login named, with which *)
(* she had followed before; that login is not in her profile yet.           *)
OneVoterTwice ==
  /\ challenges = << [provider |-> "renaiss", open |-> FALSE, connect |-> 0],
                     [provider |-> "x", open |-> FALSE, connect |-> 1],
                     [provider |-> "renaiss", open |-> FALSE, connect |-> 0] >>
  /\ sessions = << [wallet |-> w1, live |-> TRUE, by |-> 1],
                   [wallet |-> w1, live |-> TRUE, by |-> 3] >>
  /\ tokens = << [x |-> x1, fresh |-> TRUE, by |-> 2], NoToken >>
  /\ profile = (w1 :> x1 @@ w2 :> None)
  /\ queue = << <<w1, x2>> >>
  /\ cookie = (b1 :> 1 @@ b2 :> 2)
  /\ state = [b \in Browsers |-> [provider \in Providers |-> 0]]
  /\ call = [c \in Calls |-> NoCall]
  /\ follow = (w1 :> [status |-> "verified", x |-> x2] @@ w2 :> [status |-> None, x |-> None])
  /\ checks = [k \in Wallets \X XIds |-> [eligible |-> FALSE, uid |-> None]]

(* The page when nothing is asked for. *)
VoteViewClosed ==
  /\ session = Nobody /\ posting = Nobody /\ answers = 0 /\ posts = 0 /\ errors = 0
  /\ selected = CHOOSE w \in Voters : TRUE
  /\ request = [k \in Kinds |-> [of |-> For(k, selected), status |-> "ready"]]
  /\ flights = [k \in Kinds |-> {}]

WinnersViewClosed ==
  /\ visible = FALSE /\ network = "mainnet" /\ fetching = Idle /\ polling = Idle
  /\ board = [n \in Networks |-> 0] /\ cache = [n \in Networks |-> Unread]
  /\ seen = [n \in Networks |-> Unread]
  /\ shown = [network |-> "mainnet", version |-> 0]

ResultsStill ==
  /\ told = [m \in Mapped |-> <<>>]
  /\ syncRunning = FALSE
  /\ child = [c \in Children |-> NoSync]
  /\ file = NoRows

StoreStill ==
  /\ form = "json" /\ placed = [k \in Keys |-> 0] /\ events = <<>> /\ answered = {}
  /\ process = [p \in Processes |-> Closed]
  /\ submitting = NoVote

MCInit ==
  /\ view \in {"logins", "voters", "one voter", "vote view", "winners view", "data", "scan", "ledger",
              "results", "store"}
  /\ CASE view = "voters" -> TwoVoters
       [] view = "one voter" -> OneVoterTwice
       [] OTHER -> AccountsInit /\ GateInit
  /\ IF view = "vote view" THEN VoteViewInit ELSE VoteViewClosed
  /\ IF view = "winners view" THEN WinnersViewInit ELSE WinnersViewClosed
  /\ DataInit
  /\ view # "data" => mode = "sqlite"
  /\ ScanInit
  /\ TicketLedgerInit
  /\ IF view = "results" THEN ResultsInit ELSE ResultsStill
  /\ IF view = "store" THEN StoreInit ELSE StoreStill

MCNext ==
  /\ view' = view
  /\ \/ /\ \/ view = "logins" /\ AccountSteps /\ UNCHANGED gateVars
           \/ view = "voters" /\ GateNext /\ \A k \in DOMAIN checks : checks'[k].uid # u2
           \/ view = "one voter" /\ GateNext
        /\ UNCHANGED <<voteViewVars, winnersViewVars, dataVars, scanVars, ticketLedgerVars,
                       resultsVars, storeVars>>
     \/ /\ view = "vote view" /\ VoteViewSteps
        /\ UNCHANGED <<accountVars, gateVars, winnersViewVars, dataVars, scanVars, ticketLedgerVars,
                       resultsVars, storeVars>>
     \/ /\ view = "winners view" /\ WinnersViewSteps
        /\ UNCHANGED <<accountVars, gateVars, voteViewVars, dataVars, scanVars, ticketLedgerVars,
                       resultsVars, storeVars>>
     \/ /\ view = "data" /\ DataSteps
        /\ UNCHANGED <<accountVars, gateVars, voteViewVars, winnersViewVars, scanVars,
                       ticketLedgerVars, resultsVars, storeVars>>
     \/ /\ view = "scan" /\ ScanSteps
        /\ UNCHANGED <<accountVars, gateVars, voteViewVars, winnersViewVars, dataVars,
                       ticketLedgerVars, resultsVars, storeVars>>
     \/ /\ view = "ledger" /\ TicketLedgerSteps
        /\ \A w \in DOMAIN migrations' : <<w, migrations'[w]>> \in FourMoves
        /\ UNCHANGED <<accountVars, gateVars, voteViewVars, winnersViewVars, dataVars, scanVars,
                       resultsVars, storeVars>>
     \/ /\ view = "results" /\ ResultsSteps
        /\ UNCHANGED <<accountVars, gateVars, voteViewVars, winnersViewVars, dataVars, scanVars,
                       ticketLedgerVars, storeVars>>
     \/ /\ view = "store" /\ StoreSteps
        /\ UNCHANGED <<accountVars, gateVars, voteViewVars, winnersViewVars, dataVars, scanVars,
                       ticketLedgerVars, resultsVars>>

MCSpec ==
  MCInit /\ [][MCNext]_siteVars /\ VoteViewFairness /\ WinnersViewFairness /\ DataFairness

=============================================================================
