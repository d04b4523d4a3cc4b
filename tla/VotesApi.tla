------------------------------ MODULE VotesApi ------------------------------
(***************************************************************************)
(* POST /api/votes on the SQLite vote store.  A handler reads the ticket   *)
(* ledger and the match results, then awaits the FIFA calendar, which may  *)
(* come from the server's cache, and only then submits the vote in one     *)
(* transaction.  Meanwhile other handlers run, calendar answers arrive in  *)
(* any order, matches close, results are synced and the ledger grows.      *)
(*                                                                         *)
(* The ids of the app's matches are their official numbers.  The calendar  *)
(* does not name them: a round's rows are put on its matches by position.  *)
(***************************************************************************)
EXTENDS TicketRules, Sequences, FiniteSetsExt

CONSTANTS
  Handlers,     \* requests that can be in progress at the same time
  Ballots,      \* the votes users submit, each with its own requestId
  RoundOf,      \* the round of each match
  Listings,     \* the sets of matches an answer of the calendar may contain
  StartStages,  \* the stages of the matches when the server starts
  StartLedgers, \* the ticket ledgers at that time
  MaxRaw        \* bound: buyback tickets of a wallet

Matches == DOMAIN RoundOf
Wallets == UNION {DOMAIN L : L \in StartLedgers}
Stages == {"unknown", "open", "closed", "final"}

ASSUME VotesAssumption ==
  /\ Matches \subseteq Nat \ {0} /\ IsFiniteSet(Matches)
  /\ RoundOf \in [Matches -> Rounds]
  /\ StartStages \subseteq [Matches -> Stages]
  /\ StartLedgers \subseteq [Wallets -> [EntryFields -> Nat]]
  /\ \A L \in Listings : /\ L \subseteq Matches /\ L # {}
                         /\ {m \in Matches : RoundOf[m] = "round32"} \subseteq L
  /\ IsFiniteSet(Ballots)
  /\ \A b \in Ballots : /\ b.wallet \in Wallets /\ b.match \in Matches
                        /\ b.team \in Matches \X {1, 2} /\ b.tickets \in Nat \ {0}

VARIABLES
  stage,     \* FIFA: teams unknown, open for votes, past the cutoff, official
  results,   \* match-results.json: the matches with a confirmed winner
  ledger,    \* lucky-draw-ledger.json: the entry of each wallet
  cache,     \* the server's last calendar answer
  req,       \* the requests in progress
  alloc,     \* vote_allocations: tickets per wallet, match and team
  events,    \* vote_events, oldest first
  shifted,   \* history: the wallets with a vote taken on a calendar with gaps
  forgotten  \* history: those with one taken on a calendar without their teams

worldVars == <<stage, results, ledger>>
dbVars == <<alloc, events, shifted, forgotten>>
vars == <<worldVars, cache, req, dbVars>>

-----------------------------------------------------------------------------
(* The calendar. *)

NoFixtures == [listed |-> {}, stage |-> [m \in Matches |-> "unknown"]]

Rank(m, S) == Cardinality({x \in S : x =< m})

(* Mutant of RowsFor: positions are counted over the rows of all rounds. *)
RowsForAnyRound(fixtures, m) ==
  LET same == {x \in Matches : RoundOf[x] = RoundOf[m]}
  IN  {n \in fixtures.listed : Rank(n, fixtures.listed) = Rank(m, same)}

(* The rows shown on match m: none or one.  round32 goes by match code,    *)
(* the later rounds by position among the rows that came.                  *)
RowsFor(fixtures, m) ==
  LET same == {x \in Matches : RoundOf[x] = RoundOf[m]}
      rows == fixtures.listed \cap same
  IN  IF RoundOf[m] = "round32" THEN rows \cap {m}
      ELSE {n \in rows : Rank(n, rows) = Rank(m, same)}

Confirmed(fixtures, n) == fixtures.stage[n] # "unknown"

(* The teams of match m in the app; a team is named by its real match. *)
TeamsOf(fixtures, m) ==
  {n \in RowsFor(fixtures, m) : Confirmed(fixtures, n)} \X {1, 2}

InRound(r) == {m \in Matches : RoundOf[m] = r}

(* A calendar without gaps: all rows of a round are in it, or none.        *)
RowsInPlace(fixtures) == \A r \in Rounds : InRound(r) \cap fixtures.listed \in {{}, InRound(r)}

(* The teams of match n are in the calendar, in whatever place. *)
HasTeams(fixtures, n) == n \in fixtures.listed /\ Confirmed(fixtures, n)

-----------------------------------------------------------------------------
(* Votes and allocations. *)

KeyOf(b) == [wallet |-> b.wallet, match |-> b.match, team |-> b.team]
Keys == {KeyOf(b) : b \in Ballots}

IsActive(fixtures, k) == k.team \in TeamsOf(fixtures, k.match)

PlacedIn(w, r, K) ==
  SumFunctionOnSet(alloc, {k \in K : k.wallet = w /\ RoundOf[k.match] = r})

IdleRequest ==
  [pc |-> "idle", ballot |-> CHOOSE b \in Ballots : TRUE, entry |-> [f \in EntryFields |-> 0],
   results |-> {}, cached |-> NoFixtures, fixtures |-> NoFixtures]

Init ==
  /\ stage \in StartStages
  /\ results = {}
  /\ ledger \in StartLedgers
  /\ cache = NoFixtures
  /\ req = [h \in Handlers |-> IdleRequest]
  /\ alloc = [k \in Keys |-> 0]
  /\ events = <<>>
  /\ shifted = {}
  /\ forgotten = {}

(* Mutant of IsOpen: the cutoff is compared with the cached stage. *)
IsOpenAsCached(r) ==
  LET b == r.ballot
  IN  /\ b.team \in TeamsOf(r.fixtures, b.match)
      /\ b.match \notin r.results
      /\ \A n \in RowsFor(r.fixtures, b.match) : r.fixtures.stage[n] = "open"

(* assertVoteInput: the match is in the calendar with that team, it has no *)
(* result, and its cutoff, one hour before the kickoff shown, is ahead.    *)
IsOpen(r) ==
  LET b == r.ballot
  IN  /\ b.team \in TeamsOf(r.fixtures, b.match)
      /\ b.match \notin r.results
      /\ \A n \in RowsFor(r.fixtures, b.match) :
           /\ r.fixtures.stage[n] # "final"
           /\ stage[n] = "open"

(* What the wallet would have placed per round, counting only allocations  *)
(* whose match still shows their team.                                     *)
PlacedWith(r) ==
  LET b == r.ballot
      active == {k \in Keys : IsActive(r.fixtures, k)}
  IN  [round \in Rounds |->
         IF round = RoundOf[b.match]
         THEN PlacedIn(b.wallet, round, active \ {KeyOf(b)}) + alloc[KeyOf(b)] + b.tickets
         ELSE PlacedIn(b.wallet, round, active)]

(* Mutant of WithinBalance: the shared pool is computed without this vote. *)
WithinBalanceBefore(r) ==
  LET round == RoundOf[r.ballot.match]
      used == [x \in Rounds |-> PlacedIn(r.ballot.wallet, x, Keys)]
  IN  /\ PlacedWith(r)[round] =< UsableTickets(r.entry, round)
      /\ round \in SharedRounds => SharedGrantUsed(used, r.entry) =< InsiderGrant(r.entry)

WithinBalance(r) ==
  LET round == RoundOf[r.ballot.match]
      used == PlacedWith(r)
  IN  /\ used[round] =< UsableTickets(r.entry, round)
      /\ round \in SharedRounds => SharedGrantUsed(used, r.entry) =< InsiderGrant(r.entry)

(* Mutant of IsNewRequestId: a repeated delivery counts again. *)
IsNewRequestIdNot(r) == r.ballot \in Ballots

IsNewRequestId(r) == \A i \in DOMAIN events : events[i].ballot # r.ballot

-----------------------------------------------------------------------------
(* The handler. *)

(* The body has arrived: ledger and results are read, and a calendar that  *)
(* is still fresh is taken from the cache.                                 *)
ReceiveWithCache(h, b) ==
  /\ req[h].pc = "idle"
  /\ cache # NoFixtures
  /\ req' = [req EXCEPT ![h] =
               [pc |-> "ready", ballot |-> b, entry |-> ledger[b.wallet],
                results |-> results, cached |-> NoFixtures, fixtures |-> cache]]
  /\ UNCHANGED <<worldVars, cache, dbVars>>

(* The cache is empty or too old: the calendar is asked. *)
ReceiveAndFetch(h, b) ==
  /\ req[h].pc = "idle"
  /\ req' = [req EXCEPT ![h] =
               [pc |-> "fetching", ballot |-> b, entry |-> ledger[b.wallet],
                results |-> results, cached |-> cache, fixtures |-> NoFixtures]]
  /\ UNCHANGED <<worldVars, cache, dbVars>>

CalendarAnswers(h) ==
  /\ req[h].pc = "fetching"
  /\ \E listed \in Listings :
       req' = [req EXCEPT ![h].pc = "answered",
                          ![h].fixtures = [listed |-> listed, stage |-> stage]]
  /\ UNCHANGED <<worldVars, cache, dbVars>>

(* The answer arrives and replaces whatever the cache holds by now. *)
FetchLands(h) ==
  /\ req[h].pc = "answered"
  /\ cache' = req[h].fixtures
  /\ req' = [req EXCEPT ![h].pc = "ready", ![h].cached = NoFixtures]
  /\ UNCHANGED <<worldVars, dbVars>>

(* A failed fetch falls back on the snapshot cached when it began. *)
FetchFails(h) ==
  /\ req[h].pc \in {"fetching", "answered"}
  /\ IF req[h].cached = NoFixtures
     THEN req' = [req EXCEPT ![h] = IdleRequest]
     ELSE req' = [req EXCEPT ![h].pc = "ready", ![h].fixtures = req[h].cached,
                             ![h].cached = NoFixtures]
  /\ UNCHANGED <<worldVars, cache, dbVars>>

(* The transaction: the event and the allocation, or nothing.  The history *)
(* keeps which wallets it was misled about: the rows it went by had a gap, *)
(* or lacked teams the wallet has tickets on.                              *)
Submit(h) ==
  LET r == req[h]
      k == KeyOf(r.ballot)
      next == alloc[k] + r.ballot.tickets
      lost == {j \in Keys : alloc[j] > 0 /\ ~ HasTeams(r.fixtures, j.team[1])}
  IN  /\ r.pc = "ready"
      /\ IsOpen(r) /\ IsNewRequestId(r) /\ WithinBalance(r)
      /\ events' = Append(events, [ballot |-> r.ballot, next |-> next])
      /\ alloc' = [alloc EXCEPT ![k] = next]
      /\ shifted' = IF RowsInPlace(r.fixtures) THEN shifted ELSE shifted \cup {k.wallet}
      /\ forgotten' = IF \E j \in lost : j.wallet = k.wallet THEN forgotten \cup {k.wallet} ELSE forgotten
      /\ req' = [req EXCEPT ![h] = IdleRequest]
      /\ UNCHANGED <<worldVars, cache>>

Refuse(h) ==
  /\ req[h].pc = "ready"
  /\ ~ (IsOpen(req[h]) /\ IsNewRequestId(req[h]) /\ WithinBalance(req[h]))
  /\ req' = [req EXCEPT ![h] = IdleRequest]
  /\ UNCHANGED <<worldVars, cache, dbVars>>

(* The server restarts: requests and cache are gone, the database is not. *)
Restart ==
  /\ req' = [h \in Handlers |-> IdleRequest]
  /\ cache' = NoFixtures
  /\ UNCHANGED <<worldVars, dbVars>>

-----------------------------------------------------------------------------
(* What happens around it. *)

(* FIFA: the teams become known, the cutoff passes, the result is official. *)
Following == [s \in {"unknown", "open", "closed"} |->
                CASE s = "unknown" -> "open" [] s = "open" -> "closed" [] s = "closed" -> "final"]

MatchMovesOn(m) ==
  /\ stage[m] # "final"
  /\ stage' = [stage EXCEPT ![m] = Following[@]]
  /\ UNCHANGED <<results, ledger, cache, req, dbVars>>

(* sync-fifa-results writes all results anew; a match whose request failed *)
(* loses the winner it had.                                                *)
SyncResults ==
  /\ \E failed \in SUBSET Matches :
       results' = {m \in Matches : stage[m] = "final"} \ failed
  /\ UNCHANGED <<stage, ledger, cache, req, dbVars>>

(* A ledger refresh finds another buyback. *)
GrowLedger(w) ==
  /\ ledger[w].raw < MaxRaw
  /\ ledger' = [ledger EXCEPT ![w].raw = @ + 1]
  /\ UNCHANGED <<stage, results, cache, req, dbVars>>

Next ==
  \/ \E h \in Handlers :
       \/ \E b \in Ballots : ReceiveWithCache(h, b) \/ ReceiveAndFetch(h, b)
       \/ CalendarAnswers(h) \/ FetchLands(h) \/ FetchFails(h)
       \/ Submit(h) \/ Refuse(h)
  \/ Restart
  \/ \E m \in Matches : MatchMovesOn(m)
  \/ SyncResults
  \/ \E w \in Wallets : GrowLedger(w)

Spec == Init /\ [][Next]_vars

-----------------------------------------------------------------------------
(* Properties. *)

Counted(k) == {b \in Ballots : KeyOf(b) = k /\ \E i \in DOMAIN events : events[i].ballot = b}

(* An allocation is the sum of the ballots the log holds for it, each      *)
(* counted once however often its request is delivered, and the latest     *)
(* event of the key repeats it (the audit trail of vote_events against the *)
(* balances in vote_allocations).                                          *)
AllocationsAreTheBallots ==
  \A k \in Keys :
    LET mine == {i \in DOMAIN events : KeyOf(events[i].ballot) = k}
    IN  /\ alloc[k] = SumFunctionOnSet([b \in Ballots |-> b.tickets], Counted(k))
        /\ mine # {} => events[Max(mine)].next = alloc[k]

(* validateWalletRoundCapacity: the wallet has placed no more than the     *)
(* ledger gives it, per round and over the pool of the later rounds.       *)
HasCapacity(w) ==
  LET used == [r \in Rounds |-> PlacedIn(w, r, Keys)]
  IN  /\ \A r \in Rounds : used[r] =< UsableTickets(ledger[w], r)
      /\ SharedPoolUsed(used) =< UsableTickets(ledger[w], "round16")

(* The draw ledger of every round is refused when one wallet is over its   *)
(* capacity, so the vote API should never accept a vote that takes it      *)
(* there.  It accepts some: RestHasCapacity says which.                    *)
TheBuildAccepts == \A w \in Wallets : HasCapacity(w)

(* A vote may take a wallet over its capacity only if it was accepted on a *)
(* calendar that had a gap or lacked a team that wallet has tickets on (an *)
(* answer that is older than another one, or a row or a round that FIFA    *)
(* left out).  Nothing else does it: not an entry read before the calendar *)
(* was awaited, not two requests of the wallet at once, not a repeated     *)
(* delivery, and not votes over the pool of several rounds.                *)
RestHasCapacity == \A w \in Wallets \ (shifted \cup forgotten) : HasCapacity(w)

(* Every accepted vote is for a team that really plays the match it is     *)
(* stored under: the draw pool of a match takes the votes for its winner,  *)
(* so a vote stored under another match can never win.  Calendars that are *)
(* old, failed or lack a whole round do no harm; one with a gap may.       *)
VotesNameTheirTeams ==
  \A k \in Keys : alloc[k] > 0 /\ k.wallet \notin shifted => k.team[1] = k.match

(* No vote is accepted for a match whose winner is already on file, though *)
(* the handler read the results before it awaited the calendar; nor one    *)
(* for a team whose own match has its winner, whatever the calendar.       *)
NoVoteOnAKnownWinner ==
  [][\A k \in Keys : alloc'[k] # alloc[k] =>
        /\ k.team[1] \notin results
        /\ k.wallet \notin shifted' => k.match \notin results]_vars

=============================================================================
