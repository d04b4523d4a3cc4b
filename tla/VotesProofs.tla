---------------------------- MODULE VotesProofs ----------------------------
(***************************************************************************)
(* The vote API, for any number of requests in progress, ballots, matches, *)
(* wallets and calendar answers, with restarts at any moment: the balances *)
(* are the sum of the log; votes stay under the match their team plays     *)
(* unless they came in on a calendar with a gap; none comes in once the    *)
(* winner is on file; and a wallet goes over its capacity only by a vote   *)
(* on a calendar that had a gap or lacked its teams.  Nobody gets such a   *)
(* vote if the calendars are whole, and requests do not overlap while      *)
(* teams come up.                                                          *)
(***************************************************************************)
EXTENDS VotesApi, SumProofs

-----------------------------------------------------------------------------
(* The types. *)

(* What a snapshot of the calendar, an entry of the ledger, a request in   *)
(* progress and an event of the log look like.                             *)
Fixtures == [listed : {{}} \cup Listings, stage : [Matches -> Stages]]
Entry == [EntryFields -> Nat]
Request == [pc : {"fetching", "answered", "ready"}, ballot : Ballots, entry : Entry,
            results : SUBSET Matches, cached : Fixtures, fixtures : Fixtures]
Event == [ballot : Ballots, next : Nat]

(* The types, and what ties the results to the stages: a winner on file is *)
(* official at FIFA.                                                       *)
VotesTyped ==
  /\ stage \in [Matches -> Stages]
  /\ results \subseteq {m \in Matches : stage[m] = "final"}
  /\ ledger \in [Wallets -> Entry]
  /\ cache \in Fixtures
  /\ req = [h \in Handlers |-> req[h]]
  /\ \A h \in Handlers : req[h].pc = "idle" \/ req[h] \in Request
  /\ alloc \in [Keys -> Nat]
  /\ events \in Seq(Event)

(* The empty snapshot is one. *)
LEMMA NoFixturesTyped == NoFixtures \in Fixtures
BY DEF NoFixtures, Fixtures, Stages

(* What the assumption on the ballots says of their keys. *)
LEMMA BallotTyped ==
  \A b \in Ballots : /\ b.wallet \in Wallets /\ b.match \in Matches /\ b.tickets \in Nat \ {0}
                     /\ b.team[1] \in Matches /\ b.team[2] \in {1, 2}
                     /\ KeyOf(b) \in Keys /\ KeyOf(b).wallet = b.wallet /\ KeyOf(b).match = b.match
                     /\ KeyOf(b).team = b.team
BY VotesAssumption DEF KeyOf, Keys

(* The types hold in the initial states. *)
LEMMA TypedInit == Init => VotesTyped
<1> SUFFICES ASSUME Init PROVE VotesTyped
  OBVIOUS
<1>1. stage \in [Matches -> Stages] /\ ledger \in [Wallets -> Entry]
  BY VotesAssumption DEF Init, Entry
<1>2. events \in Seq(Event)
  BY DEF Init
<1> QED
  BY <1>1, <1>2, NoFixturesTyped DEF Init, VotesTyped, IdleRequest

(* A handler gets on, or gives up. *)
LEMMA HandlerTyped ==
  ASSUME VotesTyped, NEW h \in Handlers, NEW r, r.pc = "idle" \/ r \in Request,
         req' = [req EXCEPT ![h] = r], cache' \in Fixtures, UNCHANGED <<worldVars, dbVars>>
  PROVE  VotesTyped'
BY DEF VotesTyped, worldVars, dbVars

(* A request that begins is typed. *)
LEMMA ReceiveTyped ==
  ASSUME VotesTyped, NEW h \in Handlers, NEW b \in Ballots,
         ReceiveWithCache(h, b) \/ ReceiveAndFetch(h, b)
  PROVE  VotesTyped'
<1>1. ledger[b.wallet] \in Entry
  BY BallotTyped DEF VotesTyped
<1>2. CASE ReceiveWithCache(h, b)
  <2> DEFINE r == [pc |-> "ready", ballot |-> b, entry |-> ledger[b.wallet],
                   results |-> results, cached |-> NoFixtures, fixtures |-> cache]
  <2>1. r \in Request
    BY <1>1, NoFixturesTyped DEF Request, VotesTyped
  <2>2. req' = [req EXCEPT ![h] = r] /\ cache' \in Fixtures /\ UNCHANGED <<worldVars, dbVars>>
    BY <1>2 DEF ReceiveWithCache, VotesTyped
  <2> HIDE DEF r
  <2> QED
    BY <2>1, <2>2, HandlerTyped
<1>3. CASE ReceiveAndFetch(h, b)
  <2> DEFINE r == [pc |-> "fetching", ballot |-> b, entry |-> ledger[b.wallet],
                   results |-> results, cached |-> cache, fixtures |-> NoFixtures]
  <2>1. r \in Request
    BY <1>1, NoFixturesTyped DEF Request, VotesTyped
  <2>2. req' = [req EXCEPT ![h] = r] /\ cache' \in Fixtures /\ UNCHANGED <<worldVars, dbVars>>
    BY <1>3 DEF ReceiveAndFetch, VotesTyped
  <2> HIDE DEF r
  <2> QED
    BY <2>1, <2>2, HandlerTyped
<1> QED
  BY <1>2, <1>3

(* What a request keeps and what changes when it gets on. *)
Resumed(r, s, pc, cached, fixtures) ==
  /\ s.pc = pc /\ s.cached = cached /\ s.fixtures = fixtures
  /\ s.ballot = r.ballot /\ s.entry = r.entry /\ s.results = r.results
  /\ r \in Request /\ cached \in Fixtures /\ fixtures \in Fixtures => s \in Request

(* A calendar answer changes a request's snapshot only. *)
LEMMA CalendarMoves ==
  ASSUME VotesTyped, NEW h \in Handlers, CalendarAnswers(h)
  PROVE  \E listed \in Listings :
           /\ Resumed(req[h], req'[h], "answered", req[h].cached, [listed |-> listed, stage |-> stage])
           /\ req' = [req EXCEPT ![h] = req'[h]]
<1>1. req[h] \in Request
  BY DEF CalendarAnswers, VotesTyped
<1>2. PICK listed \in Listings :
        req' = [req EXCEPT ![h].pc = "answered", ![h].fixtures = [listed |-> listed, stage |-> stage]]
  BY DEF CalendarAnswers
<1> DEFINE f == [listed |-> listed, stage |-> stage]
<1>3. req'[h] = [req[h] EXCEPT !.pc = "answered", !.fixtures = f]
  BY <1>2 DEF VotesTyped
<1>4. req' = [req EXCEPT ![h] = req'[h]]
  BY <1>2, <1>3
<1> HIDE DEF f
<1>5. Resumed(req[h], req'[h], "answered", req[h].cached, f)
  BY <1>1, <1>3 DEF Resumed, Request
<1> QED
  BY <1>4, <1>5 DEF f

(* An answer that lands makes its request ready. *)
LEMMA LandMoves ==
  ASSUME VotesTyped, NEW h \in Handlers, FetchLands(h)
  PROVE  /\ Resumed(req[h], req'[h], "ready", NoFixtures, req[h].fixtures)
         /\ req' = [req EXCEPT ![h] = req'[h]]
<1>1. req[h] \in Request
  BY DEF FetchLands, VotesTyped
<1>2. req' = [req EXCEPT ![h].pc = "ready", ![h].cached = NoFixtures]
  BY DEF FetchLands
<1>3. req'[h] = [req[h] EXCEPT !.pc = "ready", !.cached = NoFixtures]
  BY <1>2 DEF VotesTyped
<1>4. req' = [req EXCEPT ![h] = req'[h]]
  BY <1>2, <1>3
<1> QED
  BY <1>1, <1>3, <1>4 DEF Resumed, Request

(* A failed fetch ends the request or falls back on what it had cached. *)
LEMMA FailMoves ==
  ASSUME VotesTyped, NEW h \in Handlers, FetchFails(h)
  PROVE  /\ req' = [req EXCEPT ![h] = req'[h]]
         /\ \/ req'[h] = IdleRequest
            \/ /\ req[h].cached # NoFixtures
               /\ Resumed(req[h], req'[h], "ready", NoFixtures, req[h].cached)
<1>1. req[h] \in Request
  BY DEF FetchFails, VotesTyped
<1>2. CASE req[h].cached = NoFixtures
  BY <1>2 DEF FetchFails, VotesTyped
<1>3. CASE req[h].cached # NoFixtures
  <2>1. req' = [req EXCEPT ![h].pc = "ready", ![h].fixtures = req[h].cached, ![h].cached = NoFixtures]
    BY <1>3 DEF FetchFails
  <2>2. req'[h] = [req[h] EXCEPT !.pc = "ready", !.fixtures = req[h].cached, !.cached = NoFixtures]
    BY <2>1 DEF VotesTyped
  <2>3. req' = [req EXCEPT ![h] = req'[h]]
    BY <2>1, <2>2
  <2> QED
    BY <1>1, <1>3, <2>2, <2>3 DEF Resumed, Request
<1> QED
  BY <1>2, <1>3

(* A request stays typed while its fetch gets on. *)
LEMMA FetchTyped ==
  ASSUME VotesTyped, NEW h \in Handlers, CalendarAnswers(h) \/ FetchLands(h) \/ FetchFails(h)
  PROVE  VotesTyped'
<1>1. req[h] \in Request
  BY DEF CalendarAnswers, FetchLands, FetchFails, VotesTyped
<1>2. req[h].cached \in Fixtures /\ req[h].fixtures \in Fixtures
  BY <1>1 DEF Request
<1>3. CASE CalendarAnswers(h)
  <2>1. \A listed \in Listings : [listed |-> listed, stage |-> stage] \in Fixtures
    BY DEF Fixtures, VotesTyped
  <2>2. req'[h] \in Request /\ req' = [req EXCEPT ![h] = req'[h]]
    BY <1>1, <1>2, <1>3, <2>1, CalendarMoves DEF Resumed
  <2> QED
    BY <1>3, <2>2, HandlerTyped DEF CalendarAnswers, VotesTyped
<1>4. CASE FetchLands(h)
  <2>1. req'[h] \in Request /\ req' = [req EXCEPT ![h] = req'[h]]
    BY <1>1, <1>2, <1>4, NoFixturesTyped, LandMoves DEF Resumed
  <2> QED
    BY <1>2, <1>4, <2>1, HandlerTyped DEF FetchLands
<1>5. CASE FetchFails(h)
  <2>1. req'[h].pc = "idle" \/ req'[h] \in Request
    <3>1. IdleRequest.pc = "idle"
      BY DEF IdleRequest
    <3>2. req'[h] = IdleRequest \/ Resumed(req[h], req'[h], "ready", NoFixtures, req[h].cached)
      BY <1>5, FailMoves
    <3> QED
      BY <1>1, <1>2, <3>1, <3>2, NoFixturesTyped DEF Resumed
  <2>2. req' = [req EXCEPT ![h] = req'[h]] /\ cache' \in Fixtures /\ UNCHANGED <<worldVars, dbVars>>
    BY <1>5, FailMoves DEF FetchFails, VotesTyped
  <2> QED
    BY <2>1, <2>2, HandlerTyped
<1> QED
  BY <1>3, <1>4, <1>5

(* The transaction keeps the types of the allocations and the log. *)
LEMMA SubmitTyped ==
  ASSUME VotesTyped, NEW h \in Handlers, Submit(h)
  PROVE  VotesTyped'
<1> DEFINE b == req[h].ballot
           k == KeyOf(b)
           next == alloc[k] + b.tickets
<1>1. b \in Ballots
  BY DEF Submit, VotesTyped, Request
<1>2. k \in Keys /\ next \in Nat
  BY <1>1, BallotTyped DEF VotesTyped
<1>3. /\ events' = Append(events, [ballot |-> b, next |-> next])
      /\ alloc' = [alloc EXCEPT ![k] = next] /\ req' = [req EXCEPT ![h] = IdleRequest]
      /\ UNCHANGED <<stage, results, ledger, cache>>
  BY DEF Submit, worldVars
<1> HIDE DEF b, k, next
<1>4. events' \in Seq(Event)
  <2>1. [ballot |-> b, next |-> next] \in Event
    BY <1>1, <1>2 DEF Event
  <2> QED
    BY <1>3, <2>1 DEF VotesTyped
<1> QED
  BY <1>2, <1>3, <1>4 DEF VotesTyped, IdleRequest

(* FIFA, the result sync and the ledger refresh keep the types. *)
LEMMA WorldTyped ==
  ASSUME VotesTyped, \/ \E m \in Matches : MatchMovesOn(m)
                     \/ SyncResults
                     \/ \E w \in Wallets : GrowLedger(w)
  PROVE  VotesTyped'
<1>1. ASSUME NEW m \in Matches, MatchMovesOn(m) PROVE VotesTyped'
  <2>1. stage[m] \in {"unknown", "open", "closed"}
    BY <1>1 DEF MatchMovesOn, VotesTyped, Stages
  <2>2. Following[stage[m]] \in Stages
    BY <2>1 DEF Following, Stages
  <2>3. stage' = [stage EXCEPT ![m] = Following[stage[m]]] /\ stage[m] # "final"
        /\ UNCHANGED <<results, ledger, cache, req, alloc, events>>
    BY <1>1 DEF MatchMovesOn, dbVars
  <2> QED
    BY <2>2, <2>3 DEF VotesTyped
<1>2. CASE SyncResults
  BY <1>2 DEF SyncResults, VotesTyped, dbVars
<1>3. ASSUME NEW w \in Wallets, GrowLedger(w) PROVE VotesTyped'
  <2>1. ledger' = [ledger EXCEPT ![w] = [ledger[w] EXCEPT !.raw = ledger[w].raw + 1]]
    BY <1>3 DEF GrowLedger, VotesTyped
  <2>2. [ledger[w] EXCEPT !.raw = ledger[w].raw + 1] \in Entry
    <3>1. ledger[w] \in Entry /\ "raw" \in EntryFields
      BY DEF VotesTyped, EntryFields
    <3>2. \A e \in Entry, n \in Nat : [e EXCEPT !.raw = n] \in Entry
      BY DEF Entry
    <3>3. ledger[w].raw + 1 \in Nat
      BY <3>1 DEF Entry
    <3> QED
      BY <3>1, <3>2, <3>3
  <2> QED
    BY <1>3, <2>1, <2>2 DEF GrowLedger, VotesTyped, dbVars
<1> QED
  BY <1>1, <1>2, <1>3

(* Every step keeps the types. *)
LEMMA TypedNext == VotesTyped /\ [Next]_vars => VotesTyped'
<1> SUFFICES ASSUME VotesTyped, [Next]_vars PROVE VotesTyped'
  OBVIOUS
<1>1. CASE UNCHANGED vars
  BY <1>1 DEF vars, worldVars, dbVars, VotesTyped
<1>2. ASSUME NEW h \in Handlers, Refuse(h) PROVE VotesTyped'
  BY <1>2, HandlerTyped DEF Refuse, IdleRequest, VotesTyped
<1>3. CASE Restart
  BY <1>3, NoFixturesTyped DEF Restart, VotesTyped, worldVars, dbVars, IdleRequest
<1> QED
  BY <1>1, <1>2, <1>3, ReceiveTyped, FetchTyped, SubmitTyped, WorldTyped DEF Next

-----------------------------------------------------------------------------
(* Votes and the matches they are stored under. *)

(* A rank tells the members of a set apart. *)
LEMMA RankTells ==
  ASSUME NEW S \in SUBSET Nat, IsFiniteSet(S), NEW m \in S, NEW n \in S, Rank(m, S) = Rank(n, S)
  PROVE  m = n
<1>1. ASSUME NEW x \in S, NEW y \in S, x < y, Rank(x, S) = Rank(y, S) PROVE FALSE
  <2> DEFINE A == {u \in S : u =< x}
             B == {u \in S : u =< y}
  <2>1. A \in SUBSET B /\ y \in B /\ y \notin A
    <3>1. x \in Nat /\ y \in Nat
      OBVIOUS
    <3>2. \A u \in S : u =< x => u =< y
      BY <1>1, <3>1
    <3>3. ~ (y =< x) /\ y =< y
      BY <1>1, <3>1
    <3> QED
      BY <3>2, <3>3
  <2>2. IsFiniteSet(B)
    BY FS_Subset
  <2>3. Cardinality(A) = Cardinality(B)
    BY <1>1 DEF Rank
  <2> HIDE DEF A, B
  <2> QED
    BY <2>1, <2>2, <2>3, FS_Subset
<1> QED
  BY <1>1

(* In a calendar without gaps each match shows its own row. *)
LEMMA RowsAreOwn ==
  ASSUME NEW f \in Fixtures, RowsInPlace(f), NEW m \in Matches
  PROVE  RowsFor(f, m) \subseteq {m}
<1> SUFFICES ASSUME NEW n \in RowsFor(f, m) PROVE n = m
  OBVIOUS
<1> DEFINE same == {x \in Matches : RoundOf[x] = RoundOf[m]}
           rows == f.listed \cap same
<1>1. CASE RoundOf[m] = "round32"
  BY <1>1 DEF RowsFor
<1>2. CASE RoundOf[m] # "round32"
  <2>1. n \in rows /\ Rank(n, rows) = Rank(m, same)
    BY <1>2 DEF RowsFor
  <2>2. RoundOf[m] \in Rounds
    BY VotesAssumption
  <2>3. rows = same
    <3>1. same \cap f.listed \in {{}, same}
      BY <2>2 DEF RowsInPlace, InRound
    <3> QED
      BY <2>1, <3>1
  <2>4. same \in SUBSET Nat /\ IsFiniteSet(same) /\ m \in same
    BY VotesAssumption, FS_Subset
  <2> HIDE DEF rows, same
  <2> QED
    BY <2>1, <2>3, <2>4, RankTells
<1> QED
  BY <1>1, <1>2

(* FIFA says that the team of an accepted vote has its match open; and in a *)
(* calendar without gaps that is the match the vote is stored under.       *)
LEMMA OpenFor ==
  ASSUME VotesTyped, NEW h \in Handlers, Submit(h)
  PROVE  /\ req[h] \in Request
         /\ stage[req[h].ballot.team[1]] = "open"
         /\ RowsInPlace(req[h].fixtures) => req[h].ballot.team[1] = req[h].ballot.match
<1> DEFINE r == req[h]
           b == r.ballot
<1>1. r \in Request /\ IsOpen(r)
  BY DEF Submit, VotesTyped
<1>2. r.fixtures \in Fixtures /\ b \in Ballots
  BY <1>1 DEF Request
<1>3. b.team \in TeamsOf(r.fixtures, b.match) /\ \A n \in RowsFor(r.fixtures, b.match) : stage[n] = "open"
  BY <1>1 DEF IsOpen
<1> HIDE DEF r
<1>4. PICK n \in RowsFor(r.fixtures, b.match), i \in {1, 2} : b.team = <<n, i>>
  BY <1>3 DEF TeamsOf
<1>5. RowsInPlace(r.fixtures) => n = b.match
  BY <1>2, BallotTyped, RowsAreOwn
<1> QED
  BY <1>1, <1>3, <1>4, <1>5 DEF r

(* The allocations and the log change in the transaction only. *)
LEMMA OnlySubmitAllocates ==
  ASSUME [Next]_vars
  PROVE  UNCHANGED dbVars \/ \E h \in Handlers : Submit(h)
BY DEF Next, vars, dbVars, ReceiveWithCache, ReceiveAndFetch, CalendarAnswers, FetchLands, FetchFails,
       Refuse, Restart, MatchMovesOn, SyncResults, GrowLedger

(* A submit adds to one allocation. *)
LEMMA SubmitAdds ==
  ASSUME VotesTyped, NEW h \in Handlers, Submit(h)
  PROVE  /\ req[h].ballot \in Ballots /\ KeyOf(req[h].ballot) \in Keys
         /\ \A k \in Keys : alloc'[k] = IF k = KeyOf(req[h].ballot) THEN alloc[k] + req[h].ballot.tickets
                                        ELSE alloc[k]
<1>1. req[h].ballot \in Ballots
  BY DEF Submit, VotesTyped, Request
<1> QED
  BY <1>1, BallotTyped DEF Submit, VotesTyped

(* What the history says of a wallet whose vote was just accepted. *)
LEMMA SubmitTells ==
  ASSUME NEW h \in Handlers, Submit(h)
  PROVE  /\ shifted \subseteq shifted' /\ forgotten \subseteq forgotten'
         /\ KeyOf(req[h].ballot).wallet \notin shifted' => RowsInPlace(req[h].fixtures)
         /\ KeyOf(req[h].ballot).wallet \notin forgotten' =>
              \A j \in Keys : alloc[j] > 0 /\ j.wallet = KeyOf(req[h].ballot).wallet
                               => HasTeams(req[h].fixtures, j.team[1])
BY DEF Submit

(* Every step keeps the votes under their teams' matches. *)
LEMMA NamesNext ==
  ASSUME VotesTyped, VotesNameTheirTeams, [Next]_vars
  PROVE  VotesNameTheirTeams'
<1>1. CASE UNCHANGED dbVars
  BY <1>1 DEF dbVars, VotesNameTheirTeams
<1>2. ASSUME NEW h \in Handlers, Submit(h) PROVE VotesNameTheirTeams'
  <2> DEFINE b == req[h].ballot
  <2>1. b \in Ballots
    BY <1>2, SubmitAdds
  <2>2. \A k \in Keys : alloc'[k] = IF k = KeyOf(b) THEN alloc[k] + b.tickets ELSE alloc[k]
    BY <1>2, SubmitAdds
  <2>3. shifted \subseteq shifted' /\ (KeyOf(b).wallet \notin shifted' => b.team[1] = b.match)
    BY <1>2, OpenFor, SubmitTells
  <2> HIDE DEF b
  <2>4. KeyOf(b).team = b.team /\ KeyOf(b).match = b.match
    BY <2>1, BallotTyped
  <2> QED
    BY <2>2, <2>3, <2>4 DEF VotesNameTheirTeams
<1> QED
  BY <1>1, <1>2, OnlySubmitAllocates

(* No vote, no wrong one. *)
LEMMA NamesInit == Init => VotesNameTheirTeams
BY DEF Init, VotesNameTheirTeams

(* However calendar answers, restarts and requests interleave: a vote is   *)
(* stored under the match its team really plays (the calendar's rows are put *)
(* on matches by position), unless its wallet had one accepted on a calendar *)
(* with a gap.                                                             *)
THEOREM NamesCorrect == Spec => []VotesNameTheirTeams
<1>1. Init => VotesTyped /\ VotesNameTheirTeams
  BY TypedInit, NamesInit
<1>2. VotesTyped /\ VotesNameTheirTeams /\ [Next]_vars => (VotesTyped /\ VotesNameTheirTeams)'
  BY TypedNext, NamesNext
<1> QED
  BY <1>1, <1>2, PTL DEF Spec

(* A step stores a vote only for an open match. *)
StoresInTime ==
  \A k \in Keys : alloc'[k] # alloc[k] => /\ k.team[1] \notin results
                                          /\ k.wallet \notin shifted' => k.match \notin results

LEMMA WinnersStep ==
  ASSUME VotesTyped, [Next]_vars
  PROVE  [StoresInTime]_vars
<1> SUFFICES ASSUME Next, NEW k \in Keys, alloc'[k] # alloc[k]
             PROVE  k.team[1] \notin results /\ (k.wallet \notin shifted' => k.match \notin results)
  BY DEF StoresInTime
<1>1. PICK h \in Handlers : Submit(h)
  BY OnlySubmitAllocates DEF dbVars
<1>2. k = KeyOf(req[h].ballot) /\ req[h].ballot \in Ballots
  BY <1>1, SubmitAdds
<1>3. k.team = req[h].ballot.team /\ k.match = req[h].ballot.match
  BY <1>2, BallotTyped
<1>4. stage[k.team[1]] = "open" /\ (k.wallet \notin shifted' => k.team[1] = k.match)
  BY <1>1, <1>2, <1>3, OpenFor, SubmitTells
<1>5. k.team[1] \notin results
  BY <1>4 DEF VotesTyped
<1> QED
  BY <1>4, <1>5

(* submitVoteInDatabase never adds to a match with a confirmed winner,     *)
(* though its handler read the results before it awaited the calendar: the *)
(* cutoff it compares at the end has passed by then.  Nor does it add, on  *)
(* a calendar with a gap, for a team whose own match has its winner.       *)
THEOREM WinnersCorrect == Spec => NoVoteOnAKnownWinner
<1>1. Spec => []VotesTyped
  BY TypedInit, TypedNext, PTL DEF Spec
<1>2. VotesTyped /\ [Next]_vars => [StoresInTime]_vars
  BY WinnersStep
<1>3. Spec => [][StoresInTime]_vars
  <2> HIDE DEF StoresInTime
  <2> QED
    BY <1>1, <1>2, PTL DEF Spec
<1> QED
  BY <1>3, PTL DEF NoVoteOnAKnownWinner, StoresInTime

-----------------------------------------------------------------------------
(* The balances and the log. *)

(* What a ballot is worth, and the events of a key by their position. *)
Tickets == [b \in Ballots |-> b.tickets]
EventsOf(k) == {i \in DOMAIN events : KeyOf(events[i].ballot) = k}

(* The audit trail, key by key. *)
Audited(k) ==
  /\ alloc[k] = Sum(Tickets, Counted(k))
  /\ EventsOf(k) # {} => events[Max(EventsOf(k))].next = alloc[k]

(* Key by key is all of it. *)
LEMMA AuditIsAll == (\A k \in Keys : Audited(k)) <=> AllocationsAreTheBallots
BY DEF Audited, AllocationsAreTheBallots, EventsOf, Tickets, Sum

(* The last position is the greatest. *)
LEMMA LastIsMax ==
  ASSUME NEW n \in Nat, NEW S \in SUBSET (1..n), n \in S
  PROVE  Max(S) = n
<1>1. \A y \in S : n >= y
  OBVIOUS
<1>2. \A x \in S : (\A y \in S : x >= y) => x = n
  OBVIOUS
<1> QED
  BY <1>1, <1>2 DEF Max

(* Positions have a greatest. *)
LEMMA GreatestExists ==
  ASSUME NEW n \in Nat, NEW S \in SUBSET (1..n), S # {}
  PROVE  \E x \in S : \A y \in S : x >= y
<1> DEFINE T == {n - x : x \in S}
<1>1. T \in SUBSET Nat /\ T # {}
  <2>1. \A x \in S : n - x \in Nat
    OBVIOUS
  <2>2. PICK x \in S : TRUE
    OBVIOUS
  <2>3. n - x \in T
    OBVIOUS
  <2>4. \A t \in T : t \in Nat
    BY <2>1
  <2> QED
    BY <2>3, <2>4
<1>2. PICK t \in T : \A u \in T : t =< u
  BY <1>1, NatLeast
<1>3. PICK x \in S : t = n - x
  OBVIOUS
<1>4. \A y \in S : n - y \in T
  OBVIOUS
<1>5. \A y \in S : n - x =< n - y
  BY <1>2, <1>3, <1>4
<1> QED
  BY <1>5

(* No vote, no event. *)
LEMMA AuditInit == Init => AllocationsAreTheBallots
<1> SUFFICES ASSUME Init, NEW k \in Keys PROVE Audited(k)
  BY AuditIsAll
<1>1. Counted(k) = {} /\ EventsOf(k) = {} /\ alloc[k] = 0
  BY DEF Init, Counted, EventsOf
<1> QED
  BY <1>1, SumEmpty DEF Audited

(* The transaction adds the same to the balance and to the sum of the log, *)
(* and only once for a requestId.                                          *)
LEMMA AuditSubmit ==
  ASSUME VotesTyped, AllocationsAreTheBallots, NEW h \in Handlers, Submit(h)
  PROVE  AllocationsAreTheBallots'
<1> DEFINE b == req[h].ballot
           n == Len(events)
           e == [ballot |-> b, next |-> alloc[KeyOf(b)] + b.tickets]
<1>1. b \in Ballots /\ KeyOf(b) \in Keys
  BY SubmitAdds
<1>2. \A k \in Keys : alloc'[k] = IF k = KeyOf(b) THEN alloc[k] + b.tickets ELSE alloc[k]
  BY SubmitAdds
<1>3. events' = Append(events, e) /\ \A i \in DOMAIN events : events[i].ballot # b
  BY DEF Submit, IsNewRequestId
<1>4. e.ballot = b /\ e.next = alloc[KeyOf(b)] + b.tickets
  OBVIOUS
<1> HIDE DEF b, e
<1>5. /\ n \in Nat /\ DOMAIN events = 1..n /\ DOMAIN events' = 1..(n + 1)
      /\ events'[n + 1] = e /\ \A i \in 1..n : events'[i] = events[i]
  BY <1>3 DEF VotesTyped
<1> HIDE DEF n
<1> SUFFICES ASSUME NEW k \in Keys PROVE Audited(k)'
  <2>1. (\A k \in Keys : Audited(k)') => AllocationsAreTheBallots'
    BY DEF Audited, AllocationsAreTheBallots, EventsOf, Tickets, Sum
  <2> QED
    BY <2>1
<1>6. Audited(k)
  BY AuditIsAll
<1>7. CASE k = KeyOf(b)
  <2>1. Counted(k)' = Counted(k) \cup {b} /\ b \notin Counted(k)
    BY <1>1, <1>3, <1>4, <1>5, <1>7 DEF Counted
  <2>2. IsFiniteSet(Counted(k) \cup {b}) /\ \A x \in Counted(k) \cup {b} : Tickets[x] \in Nat
    BY <1>1, VotesAssumption, FS_Subset DEF Counted, Tickets
  <2>3. (Counted(k) \cup {b}) \ {b} = Counted(k)
    BY <2>1
  <2>4. Sum(Tickets, Counted(k) \cup {b}) = Sum(Tickets, Counted(k)) + Tickets[b]
    BY <2>2, <2>3, SumTakes
  <2>5. Tickets[b] = b.tickets
    BY <1>1 DEF Tickets
  <2>6. alloc'[k] = Sum(Tickets, Counted(k)')
    BY <1>2, <1>6, <1>7, <2>1, <2>4, <2>5 DEF Audited
  <2>7. EventsOf(k)' \in SUBSET (1..(n + 1)) /\ n + 1 \in EventsOf(k)'
    BY <1>4, <1>5, <1>7 DEF EventsOf
  <2>8. Max(EventsOf(k)') = n + 1
    BY <1>5, <2>7, LastIsMax
  <2>9. events'[Max(EventsOf(k)')].next = alloc'[k]
    BY <1>2, <1>4, <1>5, <1>7, <2>8
  <2> QED
    BY <2>6, <2>9 DEF Audited, Tickets
<1>8. CASE k # KeyOf(b)
  <2>1. Counted(k)' = Counted(k)
    BY <1>1, <1>4, <1>5, <1>8 DEF Counted
  <2>2. EventsOf(k)' = EventsOf(k) /\ \A i \in EventsOf(k) : events'[i] = events[i]
    BY <1>4, <1>5, <1>8 DEF EventsOf
  <2>3. EventsOf(k) # {} => Max(EventsOf(k)) \in EventsOf(k)
    <3> SUFFICES ASSUME EventsOf(k) # {} PROVE Max(EventsOf(k)) \in EventsOf(k)
      OBVIOUS
    <3>1. EventsOf(k) \in SUBSET (1..n)
      BY <1>5 DEF EventsOf
    <3>2. PICK x \in EventsOf(k) : \A y \in EventsOf(k) : x >= y
      BY <1>5, <3>1, GreatestExists
    <3> QED
      BY <3>2 DEF Max
  <2> QED
    BY <1>2, <1>6, <1>8, <2>1, <2>2, <2>3 DEF Audited, Tickets
<1> QED
  BY <1>7, <1>8

(* Every step keeps balances and log together. *)
LEMMA AuditNext ==
  ASSUME VotesTyped, AllocationsAreTheBallots, [Next]_vars
  PROVE  AllocationsAreTheBallots'
<1>1. CASE UNCHANGED dbVars
  BY <1>1 DEF dbVars, AllocationsAreTheBallots, Counted
<1> QED
  BY <1>1, AuditSubmit, OnlySubmitAllocates

(* The balances of vote_allocations are what the events of vote_events add *)
(* up to, each requestId counted once, and the last event of a key repeats *)
(* its balance: for any requests, repeated deliveries and restarts.        *)
THEOREM AuditCorrect == Spec => []AllocationsAreTheBallots
<1>1. Init => VotesTyped /\ AllocationsAreTheBallots
  BY TypedInit, AuditInit
<1>2. VotesTyped /\ AllocationsAreTheBallots /\ [Next]_vars => (VotesTyped /\ AllocationsAreTheBallots)'
  BY TypedNext, AuditNext
<1> QED
  BY <1>1, <1>2, PTL DEF Spec

-----------------------------------------------------------------------------
(* What the calendar snapshots know. *)

(* When no vote is accepted on a calendar that has a gap or lacks a team:  *)
(* the answers have all rows, and either the teams are known from the start *)
(* or no two requests overlap.                                             *)
CalendarIsWhole == \A L \in Listings : L = Matches
TeamsAreKnown == \A s \in StartStages, m \in Matches : s[m] # "unknown"
OneAtATime == \A g, h \in Handlers : g = h

(* What a calendar snapshot shows while the allocations are al. *)
Knows(al, f) ==
  \/ f = NoFixtures
  \/ /\ f.listed = Matches
     /\ TeamsAreKnown => \A m \in Matches : f.stage[m] # "unknown"
     /\ \A k \in Keys : al[k] > 0 => f.stage[k.match] # "unknown"

(* What request r holds while the cache holds c. *)
RequestKnows(al, c, r) ==
  r.pc # "idle" =>
    /\ Knows(al, r.cached) /\ Knows(al, r.fixtures)
    /\ r.pc # "fetching" => r.fixtures # NoFixtures
    /\ OneAtATime => IF r.pc = "ready" THEN r.fixtures = c ELSE r.cached = c

(* FIFA itself knows the teams of every match that has votes. *)
StagesKnow(al, s) ==
  /\ TeamsAreKnown => \A m \in Matches : s[m] # "unknown"
  /\ \A k \in Keys : al[k] > 0 => s[k.match] # "unknown"

(* So does every snapshot a request may decide on. *)
CalendarsKnow ==
  /\ StagesKnow(alloc, stage)
  /\ Knows(alloc, cache)
  /\ \A h \in Handlers : RequestKnows(alloc, cache, req[h])

(* A calendar with all rows has no gap. *)
LEMMA WholeIsWhole == ASSUME CalendarIsWhole, NEW f \in Fixtures PROVE RowsInPlace(f)
<1>1. f.listed = {} \/ f.listed = Matches
  BY DEF CalendarIsWhole, Fixtures
<1> QED
  BY <1>1 DEF RowsInPlace, InRound

(* Without votes every snapshot knows enough. *)
LEMMA KnowsInit == Init => CalendarsKnow
<1> SUFFICES ASSUME Init PROVE CalendarsKnow
  OBVIOUS
<1>1. StagesKnow(alloc, stage)
  BY DEF Init, StagesKnow, TeamsAreKnown
<1>2. Knows(alloc, cache) /\ \A h \in Handlers : req[h].pc = "idle"
  BY DEF Init, Knows, IdleRequest
<1> QED
  BY <1>1, <1>2 DEF CalendarsKnow, RequestKnows

(* One request gets on; the others keep what they know, and if there is    *)
(* only one it keeps up with the cache.                                    *)
LEMMA HandlerKnows ==
  ASSUME VotesTyped, CalendarsKnow, NEW h \in Handlers, NEW r, req' = [req EXCEPT ![h] = r],
         UNCHANGED <<stage, alloc>>,
         cache' = cache \/ Knows(alloc, cache'), RequestKnows(alloc, cache', r)
  PROVE  CalendarsKnow'
<1>1. StagesKnow(alloc', stage') /\ Knows(alloc', cache')
  BY DEF CalendarsKnow
<1>2. ASSUME NEW g \in Handlers PROVE RequestKnows(alloc', cache', req'[g])
  <2>1. CASE g = h
    BY <2>1 DEF VotesTyped
  <2>2. CASE g # h
    <3>1. req'[g] = req[g] /\ ~ OneAtATime
      BY <2>2 DEF VotesTyped, OneAtATime
    <3>2. RequestKnows(alloc, cache, req[g])
      BY DEF CalendarsKnow
    <3> QED
      BY <3>1, <3>2 DEF RequestKnows
  <2> QED
    BY <2>1, <2>2
<1> QED
  BY <1>1, <1>2 DEF CalendarsKnow

(* A request begins with what the cache knows. *)
LEMMA ReceiveKnows ==
  ASSUME VotesTyped, CalendarsKnow, NEW h \in Handlers, NEW b \in Ballots,
         ReceiveWithCache(h, b) \/ ReceiveAndFetch(h, b)
  PROVE  CalendarsKnow'
<1>0. Knows(alloc, NoFixtures)
  BY DEF Knows
<1>1. CASE ReceiveWithCache(h, b)
  <2> DEFINE r == [pc |-> "ready", ballot |-> b, entry |-> ledger[b.wallet],
                   results |-> results, cached |-> NoFixtures, fixtures |-> cache]
  <2>1. RequestKnows(alloc, cache, r)
    BY <1>0, <1>1 DEF RequestKnows, ReceiveWithCache, CalendarsKnow
  <2>2. req' = [req EXCEPT ![h] = r] /\ UNCHANGED <<cache, stage, alloc>>
    BY <1>1 DEF ReceiveWithCache, worldVars, dbVars
  <2> HIDE DEF r
  <2> QED
    BY <2>1, <2>2, HandlerKnows
<1>2. CASE ReceiveAndFetch(h, b)
  <2> DEFINE r == [pc |-> "fetching", ballot |-> b, entry |-> ledger[b.wallet],
                   results |-> results, cached |-> cache, fixtures |-> NoFixtures]
  <2>1. RequestKnows(alloc, cache, r)
    BY <1>0 DEF RequestKnows, CalendarsKnow
  <2>2. req' = [req EXCEPT ![h] = r] /\ UNCHANGED <<cache, stage, alloc>>
    BY <1>2 DEF ReceiveAndFetch, worldVars, dbVars
  <2> HIDE DEF r
  <2> QED
    BY <2>1, <2>2, HandlerKnows
<1> QED
  BY <1>1, <1>2

(* A fetch ends with what FIFA knows or with what the request had cached. *)
LEMMA FetchKnows ==
  ASSUME CalendarIsWhole, VotesTyped, CalendarsKnow, NEW h \in Handlers,
         CalendarAnswers(h) \/ FetchLands(h) \/ FetchFails(h)
  PROVE  CalendarsKnow'
<1>0. Knows(alloc, NoFixtures)
  BY DEF Knows
<1>1. RequestKnows(alloc, cache, req[h]) /\ req[h] \in Request /\ UNCHANGED <<stage, alloc>>
  BY DEF CalendarsKnow, CalendarAnswers, FetchLands, FetchFails, VotesTyped, worldVars, dbVars
<1>2. CASE CalendarAnswers(h)
  <2>1. PICK listed \in Listings :
          /\ Resumed(req[h], req'[h], "answered", req[h].cached, [listed |-> listed, stage |-> stage])
          /\ req' = [req EXCEPT ![h] = req'[h]]
    BY <1>2, CalendarMoves
  <2> DEFINE f == [listed |-> listed, stage |-> stage]
  <2>2. Knows(alloc, f)
    BY DEF Knows, CalendarsKnow, StagesKnow, CalendarIsWhole
  <2>3. f # NoFixtures
    BY VotesAssumption DEF NoFixtures
  <2>4. Resumed(req[h], req'[h], "answered", req[h].cached, f)
    BY <2>1
  <2> HIDE DEF f
  <2>5. RequestKnows(alloc, cache, req'[h])
    BY <1>1, <1>2, <2>2, <2>3, <2>4 DEF RequestKnows, Resumed, CalendarAnswers
  <2>6. cache' = cache
    BY <1>2 DEF CalendarAnswers
  <2> QED
    BY <1>1, <2>1, <2>5, <2>6, HandlerKnows
<1>3. CASE FetchLands(h)
  <2>1. req[h].pc = "answered" /\ cache' = req[h].fixtures
    BY <1>3 DEF FetchLands
  <2>2. Resumed(req[h], req'[h], "ready", NoFixtures, req[h].fixtures) /\ req' = [req EXCEPT ![h] = req'[h]]
    BY <1>3, LandMoves
  <2>3. Knows(alloc, cache') /\ cache' # NoFixtures
    BY <1>1, <2>1 DEF RequestKnows
  <2>4. RequestKnows(alloc, cache', req'[h])
    BY <1>0, <2>1, <2>2, <2>3 DEF RequestKnows, Resumed
  <2> QED
    BY <1>1, <2>2, <2>3, <2>4, HandlerKnows
<1>4. CASE FetchFails(h)
  <2>1. req' = [req EXCEPT ![h] = req'[h]] /\ cache' = cache /\ req[h].pc \in {"fetching", "answered"}
    BY <1>4, FailMoves DEF FetchFails
  <2>2. CASE req'[h] = IdleRequest
    <3>1. RequestKnows(alloc, cache, req'[h])
      BY <2>2 DEF RequestKnows, IdleRequest
    <3> QED
      BY <1>1, <2>1, <3>1, HandlerKnows
  <2>3. CASE req'[h] # IdleRequest
    <3>1. /\ req[h].cached # NoFixtures
          /\ Resumed(req[h], req'[h], "ready", NoFixtures, req[h].cached)
      BY <1>4, <2>3, FailMoves
    <3>2. RequestKnows(alloc, cache, req'[h])
      BY <1>0, <1>1, <2>1, <3>1 DEF RequestKnows, Resumed
    <3> QED
      BY <1>1, <2>1, <3>2, HandlerKnows
  <2> QED
    BY <2>2, <2>3
<1> QED
  BY <1>2, <1>3, <1>4

(* Keys name matches and wallets. *)
LEMMA KeyTyped == \A k \in Keys : k.match \in Matches /\ k.wallet \in Wallets
BY BallotTyped DEF Keys

(* If the teams are known, new votes ask nothing more of a snapshot. *)
LEMMA KnowsMore ==
  ASSUME TeamsAreKnown, NEW al, NEW bl, NEW f, Knows(al, f)
  PROVE  Knows(bl, f)
BY KeyTyped DEF Knows

(* The team of an accepted vote is confirmed in the calendar of its request. *)
LEMMA ConfirmedFor ==
  ASSUME CalendarIsWhole, VotesTyped, NEW h \in Handlers, Submit(h)
  PROVE  req[h].fixtures.stage[req[h].ballot.match] # "unknown"
<1> DEFINE r == req[h]
           b == r.ballot
<1>1. r \in Request /\ IsOpen(r)
  BY DEF Submit, VotesTyped
<1>2. r.fixtures \in Fixtures /\ b \in Ballots
  BY <1>1 DEF Request
<1>3. b.team \in TeamsOf(r.fixtures, b.match)
  BY <1>1 DEF IsOpen
<1> HIDE DEF r
<1>4. PICK n \in RowsFor(r.fixtures, b.match) : Confirmed(r.fixtures, n)
  BY <1>3 DEF TeamsOf
<1>5. n = b.match
  BY <1>2, BallotTyped, RowsAreOwn, WholeIsWhole
<1> QED
  BY <1>4, <1>5 DEF r, Confirmed

(* A vote is accepted on a snapshot that knows its match; no other request *)
(* holds an older one.                                                     *)
LEMMA SubmitKnows ==
  ASSUME CalendarIsWhole, TeamsAreKnown \/ OneAtATime,
         VotesTyped, CalendarsKnow, NEW h \in Handlers, Submit(h)
  PROVE  CalendarsKnow'
<1> DEFINE r == req[h]
           m == r.ballot.match
<1>1. stage[m] = "open" /\ r.fixtures.stage[m] # "unknown"
  <2>1. RowsInPlace(r.fixtures)
    BY OpenFor, WholeIsWhole DEF Request
  <2> QED
    BY <2>1, OpenFor, ConfirmedFor
<1>2. \A k \in Keys : k.match # m => alloc'[k] = alloc[k]
  BY SubmitAdds, BallotTyped
<1>3. r.pc = "ready" /\ UNCHANGED <<stage, cache>> /\ req' = [req EXCEPT ![h] = IdleRequest]
  BY DEF Submit, worldVars
<1>4. RequestKnows(alloc, cache, r) /\ Knows(alloc, cache) /\ StagesKnow(alloc, stage)
  BY DEF CalendarsKnow
<1> HIDE DEF r, m
<1>5. StagesKnow(alloc', stage')
  BY <1>1, <1>2, <1>3, <1>4 DEF StagesKnow
<1>6. Knows(alloc', cache')
  <2>1. CASE TeamsAreKnown
    BY <1>3, <1>4, <2>1, KnowsMore
  <2>2. CASE OneAtATime
    <3>1. cache.stage[m] # "unknown"
      BY <1>1, <1>3, <1>4, <2>2 DEF RequestKnows
    <3> QED
      BY <1>2, <1>3, <1>4, <3>1 DEF Knows
  <2> QED
    BY <2>1, <2>2
<1>7. ASSUME NEW g \in Handlers PROVE RequestKnows(alloc', cache', req'[g])
  <2>1. CASE g = h
    BY <1>3, <2>1 DEF VotesTyped, RequestKnows, IdleRequest
  <2>2. CASE g # h
    <3>1. req'[g] = req[g] /\ TeamsAreKnown /\ ~ OneAtATime
      BY <1>3, <2>2 DEF VotesTyped, OneAtATime
    <3>2. RequestKnows(alloc, cache, req[g])
      BY DEF CalendarsKnow
    <3> QED
      BY <3>1, <3>2, KnowsMore DEF RequestKnows
  <2> QED
    BY <2>1, <2>2
<1> QED
  BY <1>5, <1>6, <1>7 DEF CalendarsKnow

(* Known teams stay known. *)
LEMMA WorldKnows ==
  ASSUME VotesTyped, CalendarsKnow, \/ \E m \in Matches : MatchMovesOn(m)
                                    \/ SyncResults
                                    \/ \E w \in Wallets : GrowLedger(w)
  PROVE  CalendarsKnow'
<1>1. UNCHANGED <<alloc, cache, req>>
  BY DEF MatchMovesOn, SyncResults, GrowLedger, dbVars
<1>2. \A m \in Matches : stage[m] # "unknown" => stage'[m] # "unknown"
  <2>1. ASSUME NEW m \in Matches, MatchMovesOn(m) PROVE stage'[m] # "unknown" /\ \A n \in Matches \ {m} : stage'[n] = stage[n]
    <3>1. stage[m] \in {"unknown", "open", "closed"}
      BY <2>1 DEF MatchMovesOn, VotesTyped, Stages
    <3>2. Following[stage[m]] # "unknown"
      BY <3>1 DEF Following
    <3>3. stage' = [stage EXCEPT ![m] = Following[stage[m]]]
      BY <2>1 DEF MatchMovesOn
    <3> QED
      BY <3>2, <3>3 DEF VotesTyped
  <2> QED
    BY <2>1 DEF SyncResults, GrowLedger
<1>3. StagesKnow(alloc', stage')
  BY <1>1, <1>2, KeyTyped DEF StagesKnow, CalendarsKnow
<1> QED
  BY <1>1, <1>3 DEF CalendarsKnow

(* Every step keeps the snapshots good enough. *)
LEMMA KnowsNext ==
  ASSUME CalendarIsWhole, TeamsAreKnown \/ OneAtATime, VotesTyped, CalendarsKnow, [Next]_vars
  PROVE  CalendarsKnow'
<1>1. CASE UNCHANGED vars
  BY <1>1 DEF vars, worldVars, dbVars, CalendarsKnow
<1>2. ASSUME NEW h \in Handlers, Refuse(h) PROVE CalendarsKnow'
  <2>1. req' = [req EXCEPT ![h] = IdleRequest] /\ UNCHANGED <<stage, alloc, cache>>
    BY <1>2 DEF Refuse, worldVars, dbVars
  <2>2. RequestKnows(alloc, cache, IdleRequest)
    BY DEF RequestKnows, IdleRequest
  <2> QED
    BY <2>1, <2>2, HandlerKnows
<1>3. CASE Restart
  <2>1. /\ cache' = NoFixtures /\ UNCHANGED <<stage, alloc>>
        /\ \A h \in Handlers : req'[h].pc = "idle"
    BY <1>3 DEF Restart, worldVars, dbVars, IdleRequest
  <2> QED
    BY <2>1 DEF CalendarsKnow, RequestKnows, Knows
<1> QED
  BY <1>1, <1>2, <1>3, ReceiveKnows, FetchKnows, SubmitKnows, WorldKnows DEF Next

(* A vote decided on such a snapshot misleads nobody. *)
LEMMA MisledNobody ==
  ASSUME CalendarIsWhole, VotesTyped, VotesNameTheirTeams, CalendarsKnow, shifted = {}, forgotten = {}, [Next]_vars
  PROVE  shifted' = {} /\ forgotten' = {}
<1>1. CASE UNCHANGED dbVars
  BY <1>1 DEF dbVars
<1>2. ASSUME NEW h \in Handlers, Submit(h) PROVE shifted' = {} /\ forgotten' = {}
  <2> DEFINE f == req[h].fixtures
  <2>1. f \in Fixtures
    BY <1>2, OpenFor DEF Request
  <2>2. RowsInPlace(f)
    BY <2>1, WholeIsWhole
  <2>3. Knows(alloc, f) /\ f # NoFixtures
    BY <1>2 DEF Submit, CalendarsKnow, RequestKnows
  <2>4. ASSUME NEW j \in Keys, alloc[j] > 0 PROVE HasTeams(f, j.team[1])
    <3>1. j.team[1] = j.match /\ j.match \in Matches
      BY <2>4, KeyTyped DEF VotesNameTheirTeams
    <3> HIDE DEF f
    <3> QED
      BY <2>3, <2>4, <3>1 DEF Knows, HasTeams, Confirmed
  <2>5. /\ shifted' = IF RowsInPlace(f) THEN shifted ELSE shifted \cup {KeyOf(req[h].ballot).wallet}
        /\ (\A j \in Keys : alloc[j] > 0 => HasTeams(f, j.team[1])) => forgotten' = forgotten
    BY <1>2 DEF Submit
  <2> HIDE DEF f
  <2> QED
    BY <2>2, <2>4, <2>5
<1> QED
  BY <1>1, <1>2, OnlySubmitAllocates

(* When the calendar's answers are whole, and either its teams are known    *)
(* from the start or requests do not overlap, no vote is accepted on a     *)
(* calendar that has a gap or lacks teams of the wallet: failed fetches,   *)
(* old caches and restarts alone never cause it.                           *)
THEOREM NobodyIsMisled ==
  ASSUME CalendarIsWhole, TeamsAreKnown \/ OneAtATime
  PROVE  Spec => [](shifted = {} /\ forgotten = {})
<1> DEFINE Inv == VotesTyped /\ VotesNameTheirTeams /\ CalendarsKnow /\ shifted = {} /\ forgotten = {}
<1>1. Init => Inv
  BY TypedInit, NamesInit, KnowsInit DEF Init
<1>2. Inv /\ [Next]_vars => Inv'
  BY TypedNext, NamesNext, KnowsNext, MisledNobody
<1> QED
  BY <1>1, <1>2, PTL DEF Spec

-----------------------------------------------------------------------------
(* What a wallet has placed. *)

(* The keys of wallet w in round x. *)
In(w, x, K) == {k \in K : k.wallet = w /\ RoundOf[k.match] = x}

(* What wallet w has placed per round, when the allocations are al. *)
UsedBy(al, w) == [x \in Rounds |-> Sum(al, In(w, x, Keys))]

(* Wallet w fits entry e. *)
Fits(al, w, e) ==
  /\ \A x \in Rounds : UsedBy(al, w)[x] =< UsableTickets(e, x)
  /\ SharedPoolUsed(UsedBy(al, w)) =< UsableTickets(e, "round16")

(* A wallet has capacity if it fits its entry. *)
LEMMA CapacityIsFits == \A w : HasCapacity(w) <=> Fits(alloc, w, ledger[w])
BY DEF HasCapacity, Fits, UsedBy, PlacedIn, In, Sum

(* There are finitely many keys. *)
LEMMA KeysFinite == IsFiniteSet(Keys)
<1> DEFINE key == [b \in Ballots |-> KeyOf(b)]
<1>1. key \in Surjection(Ballots, Keys)
  BY DEF Keys, Surjection
<1> QED
  BY <1>1, VotesAssumption, FS_Surjection

(* So there are of a wallet and a round. *)
LEMMA InFinite ==
  ASSUME NEW w, NEW x, NEW K \in SUBSET Keys
  PROVE  In(w, x, K) \subseteq Keys /\ IsFiniteSet(In(w, x, K))
<1>1. In(w, x, K) \subseteq Keys
  BY DEF In
<1> QED
  BY <1>1, KeysFinite, FS_Subset

(* What is placed are naturals, per round and in the shared pool. *)
LEMMA UsedTyped ==
  ASSUME NEW al \in [Keys -> Nat], NEW w
  PROVE  /\ UsedBy(al, w) \in [Rounds -> Nat]
         /\ SharedPoolUsed(UsedBy(al, w)) \in Nat
<1>1. \A x \in Rounds : Sum(al, In(w, x, Keys)) \in Nat
  BY InFinite, SumTakes
<1>2. UsedBy(al, w) \in [Rounds -> Nat]
  BY <1>1 DEF UsedBy
<1>3. IsFiniteSet(SharedRounds)
  <2>1. IsFiniteSet({"round16"} \cup {"quarterFinal"} \cup {"semiFinal"} \cup {"final"})
    BY FS_Singleton, FS_Union
  <2>2. SharedRounds = {"round16"} \cup {"quarterFinal"} \cup {"semiFinal"} \cup {"final"}
    BY DEF SharedRounds
  <2> QED
    BY <2>1, <2>2
<1>4. Sum(UsedBy(al, w), SharedRounds) \in Nat
  BY <1>2, <1>3, SumTakes DEF Rounds
<1> QED
  BY <1>2, <1>4 DEF SharedPoolUsed, Sum

(* The greater of two numbers. *)
LEMMA MaxOfTwo == \A i, j \in Int : Max({i, j}) = IF i >= j THEN i ELSE j
<1> SUFFICES ASSUME NEW i \in Int, NEW j \in Int PROVE Max({i, j}) = IF i >= j THEN i ELSE j
  OBVIOUS
<1>1. CASE i >= j
  <2>1. \A x \in {i, j} : (\A y \in {i, j} : x >= y) <=> x = i
    BY <1>1
  <2> QED
    BY <1>1, <2>1 DEF Max
<1>2. CASE ~ (i >= j)
  <2>1. \A x \in {i, j} : (\A y \in {i, j} : x >= y) <=> x = j
    BY <1>2
  <2> QED
    BY <1>2, <2>1 DEF Max
<1> QED
  BY <1>1, <1>2

(* Entry d grants no more than entry e, field by field. *)
AtMost(d, e) == \A f \in EntryFields : d[f] =< e[f]

(* The fields of an entry are naturals. *)
LEMMA EntryFieldsAre ==
  ASSUME NEW e \in Entry
  PROVE  /\ e.raw \in Nat /\ e.carryover \in Nat /\ e.practice \in Nat
         /\ e.taskReward \in Nat /\ e.insiderGrant \in Nat
BY DEF Entry, EntryFields

(* More tickets in the ledger never mean fewer usable ones. *)
LEMMA UsableMore ==
  ASSUME NEW d \in Entry, NEW e \in Entry, AtMost(d, e), NEW x \in Rounds
  PROVE  /\ UsableTickets(d, x) \in Nat /\ UsableTickets(e, x) \in Nat
         /\ UsableTickets(d, x) =< UsableTickets(e, x)
<1>1. /\ InsiderGrant(d) \in Nat /\ InsiderGrant(e) \in Nat
      /\ InsiderGrant(d) =< InsiderGrant(e)
  BY EntryFieldsAre, MaxOfTwo DEF InsiderGrant, AtMost, EntryFields
<1>2. /\ BaseTickets(d, x) \in Nat /\ BaseTickets(e, x) \in Nat
      /\ BaseTickets(d, x) =< BaseTickets(e, x)
  BY EntryFieldsAre DEF BaseTickets, AtMost, EntryFields
<1>3. d.practice \in Nat /\ e.practice \in Nat /\ d.practice =< e.practice
  BY EntryFieldsAre DEF AtMost, EntryFields
<1> QED
  BY <1>1, <1>2, <1>3 DEF UsableTickets

(* A wallet that fits an entry fits a greater one. *)
LEMMA FitsMore ==
  ASSUME NEW al \in [Keys -> Nat], NEW w, NEW d \in Entry, NEW e \in Entry,
         AtMost(d, e), Fits(al, w, d)
  PROVE  Fits(al, w, e)
<1>1. "round16" \in Rounds
  BY DEF Rounds, SharedRounds
<1>2. \A x \in Rounds : /\ UsedBy(al, w)[x] \in Nat
                        /\ UsableTickets(d, x) \in Nat /\ UsableTickets(e, x) \in Nat
                        /\ UsableTickets(d, x) =< UsableTickets(e, x)
  BY UsedTyped, UsableMore
<1>3. SharedPoolUsed(UsedBy(al, w)) \in Nat
  BY UsedTyped
<1> QED
  BY <1>1, <1>2, <1>3 DEF Fits

(* An allocation under the right match is active in a calendar without     *)
(* gaps that has its teams.                                                *)
LEMMA PlacedAreActive ==
  ASSUME NEW f, RowsInPlace(f), NEW k \in Keys, k.team[1] = k.match, HasTeams(f, k.team[1])
  PROVE  IsActive(f, k)
<1> DEFINE m == k.match
           same == {x \in Matches : RoundOf[x] = RoundOf[m]}
<1>1. m \in Matches /\ k.team = <<m, k.team[2]>> /\ k.team[2] \in {1, 2}
  <2>1. PICK b \in Ballots : k = KeyOf(b)
    BY DEF Keys
  <2>2. k.team \in Matches \X {1, 2}
    BY <2>1, BallotTyped, VotesAssumption
  <2> QED
    BY <2>2, KeyTyped
<1>2. m \in f.listed /\ Confirmed(f, m)
  BY DEF HasTeams
<1>3. m \in RowsFor(f, m)
  <2>1. f.listed \cap same = same /\ m \in same
    <3>1. RoundOf[m] \in Rounds
      BY <1>1, VotesAssumption
    <3>2. same \cap f.listed \in {{}, same}
      BY <3>1 DEF RowsInPlace, InRound
    <3>3. m \in same \cap f.listed
      BY <1>1, <1>2
    <3> HIDE DEF same, m
    <3> QED
      BY <3>2, <3>3
  <2> HIDE DEF same
  <2>2. m \in same \cap {m} /\ m \in {n \in same : Rank(n, same) = Rank(m, same)}
    BY <2>1
  <2> QED
    BY <2>1, <2>2 DEF RowsFor, same
<1>4. m \in {n \in RowsFor(f, m) : Confirmed(f, n)}
  BY <1>2, <1>3
<1> QED
  BY <1>1, <1>4 DEF IsActive, TeamsOf

-----------------------------------------------------------------------------
(* The entries the requests hold. *)

(* The entry a request read is still covered by the ledger. *)
EntryHeld(L, r) == r.pc # "idle" => AtMost(r.entry, L[r.ballot.wallet])
EntriesHeld == \A h \in Handlers : EntryHeld(ledger, req[h])

(* One request gets on with such an entry. *)
LEMMA HandlerHolds ==
  ASSUME VotesTyped, EntriesHeld, NEW h \in Handlers, NEW r, req' = [req EXCEPT ![h] = r],
         UNCHANGED ledger, EntryHeld(ledger, r)
  PROVE  EntriesHeld'
BY DEF VotesTyped, EntriesHeld

(* The steps of a handler keep the entries covered. *)
LEMMA HeldHandler ==
  ASSUME VotesTyped, EntriesHeld, NEW h \in Handlers,
         \/ \E b \in Ballots : ReceiveWithCache(h, b) \/ ReceiveAndFetch(h, b)
         \/ CalendarAnswers(h) \/ FetchLands(h) \/ FetchFails(h) \/ Submit(h) \/ Refuse(h)
  PROVE  EntriesHeld'
<1>0. EntryHeld(ledger, req[h]) /\ EntryHeld(ledger, IdleRequest)
  BY DEF EntriesHeld, EntryHeld, IdleRequest
<1>1. \A w \in Wallets : AtMost(ledger[w], ledger[w])
  BY DEF VotesTyped, Entry, AtMost
<1>2. ASSUME NEW b \in Ballots, ReceiveWithCache(h, b) PROVE EntriesHeld'
  <2> DEFINE r == [pc |-> "ready", ballot |-> b, entry |-> ledger[b.wallet],
                   results |-> results, cached |-> NoFixtures, fixtures |-> cache]
  <2>1. EntryHeld(ledger, r)
    BY <1>1, BallotTyped DEF EntryHeld
  <2>2. req' = [req EXCEPT ![h] = r] /\ UNCHANGED ledger
    BY <1>2 DEF ReceiveWithCache, worldVars
  <2> HIDE DEF r
  <2> QED
    BY <2>1, <2>2, HandlerHolds
<1>3. ASSUME NEW b \in Ballots, ReceiveAndFetch(h, b) PROVE EntriesHeld'
  <2> DEFINE r == [pc |-> "fetching", ballot |-> b, entry |-> ledger[b.wallet],
                   results |-> results, cached |-> cache, fixtures |-> NoFixtures]
  <2>1. EntryHeld(ledger, r)
    BY <1>1, BallotTyped DEF EntryHeld
  <2>2. req' = [req EXCEPT ![h] = r] /\ UNCHANGED ledger
    BY <1>3 DEF ReceiveAndFetch, worldVars
  <2> HIDE DEF r
  <2> QED
    BY <2>1, <2>2, HandlerHolds
<1>4. CASE CalendarAnswers(h)
  <2>1. PICK listed \in Listings :
          /\ Resumed(req[h], req'[h], "answered", req[h].cached, [listed |-> listed, stage |-> stage])
          /\ req' = [req EXCEPT ![h] = req'[h]]
    BY <1>4, CalendarMoves
  <2>2. req[h].pc # "idle" /\ UNCHANGED ledger
    BY <1>4 DEF CalendarAnswers, worldVars
  <2>3. req'[h].ballot = req[h].ballot /\ req'[h].entry = req[h].entry
    BY <2>1 DEF Resumed
  <2>4. EntryHeld(ledger, req'[h])
    BY <1>0, <2>2, <2>3 DEF EntryHeld
  <2> QED
    BY <2>1, <2>2, <2>4, HandlerHolds
<1>5. CASE FetchLands(h)
  <2>1. Resumed(req[h], req'[h], "ready", NoFixtures, req[h].fixtures) /\ req' = [req EXCEPT ![h] = req'[h]]
    BY <1>5, LandMoves
  <2>2. req[h].pc # "idle" /\ UNCHANGED ledger
    BY <1>5 DEF FetchLands, worldVars
  <2>3. EntryHeld(ledger, req'[h])
    BY <1>0, <2>1, <2>2 DEF EntryHeld, Resumed
  <2> QED
    BY <2>1, <2>2, <2>3, HandlerHolds
<1>6. CASE FetchFails(h)
  <2>1. req[h].pc # "idle" /\ UNCHANGED ledger
    BY <1>6 DEF FetchFails, worldVars
  <2>2. req' = [req EXCEPT ![h] = req'[h]]
        /\ (req'[h] = IdleRequest \/ Resumed(req[h], req'[h], "ready", NoFixtures, req[h].cached))
    BY <1>6, FailMoves
  <2>3. EntryHeld(ledger, req'[h])
    BY <1>0, <2>1, <2>2 DEF EntryHeld, Resumed
  <2> QED
    BY <2>1, <2>2, <2>3, HandlerHolds
<1>7. CASE Submit(h) \/ Refuse(h)
  <2>1. req' = [req EXCEPT ![h] = IdleRequest] /\ UNCHANGED ledger
    BY <1>7 DEF Submit, Refuse, worldVars
  <2> QED
    BY <1>0, <2>1, HandlerHolds
<1> QED
  BY <1>2, <1>3, <1>4, <1>5, <1>6, <1>7

(* The ledger only grows. *)
LEMMA LedgerGrows ==
  ASSUME VotesTyped, [Next]_vars, NEW w \in Wallets
  PROVE  AtMost(ledger[w], ledger'[w])
<1>1. ledger[w] \in Entry
  BY DEF VotesTyped
<1>2. AtMost(ledger[w], ledger[w])
  BY <1>1 DEF Entry, AtMost
<1>3. ASSUME NEW v \in Wallets, GrowLedger(v) PROVE AtMost(ledger[w], ledger'[w])
  <2>1. ledger' = [ledger EXCEPT ![v] = [ledger[v] EXCEPT !.raw = ledger[v].raw + 1]]
    BY <1>3 DEF GrowLedger, VotesTyped
  <2>2. CASE v # w
    BY <1>2, <2>1, <2>2 DEF VotesTyped
  <2>3. CASE v = w
    <3>1. ledger'[w] = [ledger[w] EXCEPT !.raw = ledger[w].raw + 1]
      BY <2>1, <2>3 DEF VotesTyped
    <3> QED
      BY <1>1, <3>1 DEF AtMost, Entry
  <2> QED
    BY <2>2, <2>3
<1>4. ledger' = ledger \/ \E v \in Wallets : GrowLedger(v)
  BY DEF Next, vars, worldVars, ReceiveWithCache, ReceiveAndFetch, CalendarAnswers, FetchLands, FetchFails,
         Submit, Refuse, Restart, MatchMovesOn, SyncResults
<1> QED
  BY <1>2, <1>3, <1>4

(* Growth adds up. *)
LEMMA AtMostTrans ==
  ASSUME NEW c \in Entry, NEW d \in Entry, NEW e \in Entry, AtMost(c, d), AtMost(d, e)
  PROVE  AtMost(c, e)
BY DEF AtMost, Entry

(* Every step keeps the entries covered. *)
LEMMA HeldNext ==
  ASSUME VotesTyped, EntriesHeld, [Next]_vars
  PROVE  EntriesHeld'
<1>1. CASE UNCHANGED req
  <2> SUFFICES ASSUME NEW h \in Handlers, req[h].pc # "idle" PROVE EntryHeld(ledger', req[h])
    BY <1>1 DEF EntriesHeld, EntryHeld
  <2>1. req[h] \in Request
    BY DEF VotesTyped
  <2> DEFINE w == req[h].ballot.wallet
  <2>2. req[h].entry \in Entry /\ w \in Wallets
    BY <2>1, BallotTyped DEF Request
  <2>3. AtMost(req[h].entry, ledger[w])
    BY DEF EntriesHeld, EntryHeld
  <2>4. AtMost(ledger[w], ledger'[w])
    BY <2>2, LedgerGrows
  <2>5. ledger[w] \in Entry /\ ledger'[w] \in Entry
    BY <2>2, TypedNext DEF VotesTyped
  <2>6. AtMost(req[h].entry, ledger'[w])
    BY <2>2, <2>3, <2>4, <2>5, AtMostTrans
  <2> QED
    BY <2>6 DEF EntryHeld
<1>2. CASE Restart
  BY <1>2 DEF Restart, EntriesHeld, EntryHeld, IdleRequest
<1>3. ASSUME NEW h \in Handlers,
             \/ \E b \in Ballots : ReceiveWithCache(h, b) \/ ReceiveAndFetch(h, b)
             \/ CalendarAnswers(h) \/ FetchLands(h) \/ FetchFails(h) \/ Submit(h) \/ Refuse(h)
      PROVE  EntriesHeld'
  BY <1>3, HeldHandler
<1>4. \/ UNCHANGED req \/ Restart
      \/ \E h \in Handlers :
           \/ \E b \in Ballots : ReceiveWithCache(h, b) \/ ReceiveAndFetch(h, b)
           \/ CalendarAnswers(h) \/ FetchLands(h) \/ FetchFails(h) \/ Submit(h) \/ Refuse(h)
  BY DEF Next, vars, MatchMovesOn, SyncResults, GrowLedger
<1> QED
  BY <1>1, <1>2, <1>3, <1>4

-----------------------------------------------------------------------------
(* The check in the transaction. *)

(* A sum over the keys of a round leaves out the keys that add nothing. *)
LEMMA PlacedShown ==
  ASSUME NEW al \in [Keys -> Nat], NEW K \in SUBSET Keys, NEW w, NEW x,
         \A k \in Keys \ K : k.wallet = w => al[k] = 0
  PROVE  Sum(al, In(w, x, Keys)) = Sum(al, In(w, x, K))
<1> DEFINE S == In(w, x, Keys)
           T == In(w, x, K)
<1>1. IsFiniteSet(S) /\ S \subseteq Keys /\ T \in SUBSET S
  <2>1. IsFiniteSet(S) /\ S \subseteq Keys
    BY InFinite
  <2>2. T \in SUBSET S
    BY DEF In
  <2> QED
    BY <2>1, <2>2
<1>2. \A k \in S \ T : k \in Keys \ K /\ k.wallet = w
  BY DEF In
<1>3. \A k \in S : al[k] \in Nat
  BY <1>1
<1>4. \A k \in S \ T : al[k] = 0
  BY <1>2
<1> HIDE DEF S, T
<1>5. Sum(al, S) = Sum(al, T)
  BY <1>1, <1>3, <1>4, SumWithout
<1> QED
  BY <1>5 DEF S, T

(* A sum without the key that changes stays. *)
LEMMA OneElse ==
  ASSUME NEW al \in [Keys -> Nat], NEW bl \in [Keys -> Nat], NEW k \in Keys, NEW w, NEW x,
         \A j \in Keys \ {k} : bl[j] = al[j], k \notin In(w, x, Keys)
  PROVE  Sum(bl, In(w, x, Keys)) = Sum(al, In(w, x, Keys))
<1> DEFINE S == In(w, x, Keys)
<1>1. IsFiniteSet(S) /\ S \subseteq Keys
  BY InFinite
<1> HIDE DEF S
<1>2. \A j \in S : al[j] \in Nat /\ al[j] = bl[j]
  BY <1>1 DEF S
<1>3. Sum(al, S) = Sum(bl, S)
  BY <1>1, <1>2, SumSame
<1> QED
  BY <1>3 DEF S

(* A sum with that key is the rest and its new value. *)
LEMMA OneMore ==
  ASSUME NEW al \in [Keys -> Nat], NEW bl \in [Keys -> Nat], NEW k \in Keys, NEW w, NEW x,
         \A j \in Keys \ {k} : bl[j] = al[j], k \in In(w, x, Keys)
  PROVE  Sum(bl, In(w, x, Keys)) = Sum(al, In(w, x, Keys \ {k})) + bl[k]
<1> DEFINE S == In(w, x, Keys)
<1>1. IsFiniteSet(S) /\ S \subseteq Keys
  BY InFinite
<1>2. IsFiniteSet(S \ {k}) /\ S \ {k} = In(w, x, Keys \ {k})
  <2>1. S \ {k} = In(w, x, Keys \ {k})
    BY DEF In
  <2> QED
    BY <1>1, <2>1, FS_Subset
<1> HIDE DEF S
<1>3. Sum(al, S \ {k}) = Sum(bl, S \ {k})
  <2>1. \A j \in S \ {k} : al[j] \in Nat /\ al[j] = bl[j]
    BY <1>1
  <2> QED
    BY <1>2, <2>1, SumSame
<1>4. Sum(bl, S) = Sum(bl, S \ {k}) + bl[k]
  <2>1. k \in S /\ \A j \in S : bl[j] \in Nat
    BY <1>1 DEF S
  <2> QED
    BY <1>1, <2>1, SumTakes
<1> QED
  BY <1>2, <1>3, <1>4 DEF S

(* The allocations whose team the calendar still shows at their match. *)
Shown(f) == {k \in Keys : IsActive(f, k)}

(* What the transaction computes is what will have been placed, unless it  *)
(* is misled.                                                              *)
LEMMA PlacedAfter ==
  ASSUME VotesTyped, VotesTyped', VotesNameTheirTeams, NEW h \in Handlers, Submit(h),
         req[h].ballot.wallet \notin shifted', req[h].ballot.wallet \notin forgotten'
  PROVE  UsedBy(alloc', req[h].ballot.wallet) = PlacedWith(req[h])
<1> DEFINE r == req[h]
           b == r.ballot
           k == KeyOf(b)
           w == b.wallet
           f == r.fixtures
<1>1. b \in Ballots /\ k \in Keys /\ k.wallet = w /\ k.match = b.match
  BY SubmitAdds, BallotTyped
<1>2. alloc \in [Keys -> Nat] /\ alloc' \in [Keys -> Nat]
  BY DEF VotesTyped
<1>3. alloc'[k] = alloc[k] + b.tickets /\ \A j \in Keys \ {k} : alloc'[j] = alloc[j]
  BY SubmitAdds
<1>4. \A j \in Keys \ Shown(f) : j.wallet = w => alloc[j] = 0
  <2>1. /\ RowsInPlace(f) /\ w \notin shifted
        /\ \A j \in Keys : alloc[j] > 0 /\ j.wallet = w => HasTeams(f, j.team[1])
    BY <1>1, SubmitTells
  <2>2. ASSUME NEW j \in Keys, alloc[j] > 0, j.wallet = w PROVE IsActive(f, j)
    <3>1. j.team[1] = j.match
      BY <2>1, <2>2 DEF VotesNameTheirTeams
    <3> QED
      BY <2>1, <2>2, <3>1, PlacedAreActive
  <2> QED
    BY <1>2, <2>2 DEF Shown
<1>5. PlacedWith(r) = [x \in Rounds |->
         IF x = RoundOf[b.match]
         THEN Sum(alloc, In(w, x, Shown(f) \ {k})) + alloc[k] + b.tickets
         ELSE Sum(alloc, In(w, x, Shown(f)))]
  BY DEF PlacedWith, PlacedIn, In, Shown, Sum
<1> HIDE DEF k, w, b, f, r
<1>6. ASSUME NEW x \in Rounds PROVE UsedBy(alloc', w)[x] = PlacedWith(r)[x]
  <2>1. UsedBy(alloc', w)[x] = Sum(alloc', In(w, x, Keys))
    BY DEF UsedBy
  <2>2. CASE x = RoundOf[b.match]
    <3>1. k \in In(w, x, Keys)
      BY <1>1, <2>2 DEF In
    <3>2. Sum(alloc', In(w, x, Keys)) = Sum(alloc, In(w, x, Keys \ {k})) + alloc'[k]
      BY <1>1, <1>2, <1>3, <3>1, OneMore
    <3>3. Sum(alloc, In(w, x, Keys \ {k})) = Sum(alloc, In(w, x, Shown(f) \ {k}))
      <4> DEFINE S == In(w, x, Keys \ {k})
                 T == In(w, x, Shown(f) \ {k})
      <4>1. IsFiniteSet(S) /\ S \subseteq Keys /\ T \in SUBSET S /\ \A j \in S \ T : j \in Keys \ Shown(f) /\ j.wallet = w
        <5>1. IsFiniteSet(S) /\ S \subseteq Keys
          BY InFinite
        <5>2. T \in SUBSET S /\ \A j \in S \ T : j \in Keys \ Shown(f) /\ j.wallet = w
          BY DEF In, Shown
        <5> QED
          BY <5>1, <5>2
      <4>2. \A j \in S : alloc[j] \in Nat
        BY <1>2, <4>1
      <4>3. \A j \in S \ T : alloc[j] = 0
        BY <1>4, <4>1
      <4> HIDE DEF S, T
      <4>4. Sum(alloc, S) = Sum(alloc, T)
        BY <4>1, <4>2, <4>3, SumWithout
      <4> QED
        BY <4>4 DEF S, T
    <3>4. PlacedWith(r)[x] = Sum(alloc, In(w, x, Shown(f) \ {k})) + alloc[k] + b.tickets
      BY <1>5, <2>2
    <3>5. Sum(alloc, In(w, x, Shown(f) \ {k})) \in Nat
      <4>1. IsFiniteSet(In(w, x, Shown(f) \ {k})) /\ In(w, x, Shown(f) \ {k}) \subseteq Keys
        <5>1. Shown(f) \ {k} \in SUBSET Keys
          BY DEF Shown
        <5> QED
          BY <5>1, InFinite
      <4> QED
        BY <1>2, <4>1, SumTakes
    <3>6. b.tickets \in Nat /\ alloc[k] \in Nat
      BY <1>1, <1>2, BallotTyped
    <3> QED
      BY <1>3, <2>1, <3>2, <3>3, <3>4, <3>5, <3>6
  <2>3. CASE x # RoundOf[b.match]
    <3>1. k \notin In(w, x, Keys)
      BY <1>1, <2>3 DEF In
    <3>2. Sum(alloc', In(w, x, Keys)) = Sum(alloc, In(w, x, Keys))
      BY <1>1, <1>2, <1>3, <3>1, OneElse
    <3>3. Sum(alloc, In(w, x, Keys)) = Sum(alloc, In(w, x, Shown(f)))
      <4>1. Shown(f) \in SUBSET Keys
        BY DEF Shown
      <4> QED
        BY <1>2, <1>4, <4>1, PlacedShown
    <3> QED
      BY <1>5, <2>1, <2>3, <3>2, <3>3
  <2> QED
    BY <2>2, <2>3
<1>7. UsedBy(alloc', w) = [x \in Rounds |-> UsedBy(alloc', w)[x]]
  BY DEF UsedBy
<1>8. PlacedWith(r) = [x \in Rounds |-> PlacedWith(r)[x]]
  BY <1>5
<1>9. UsedBy(alloc', w) = PlacedWith(r)
  BY <1>6, <1>7, <1>8
<1> QED
  BY <1>9 DEF w, b, r

(* The transaction leaves every wallet within its entry, unless it is      *)
(* misled about that wallet.                                               *)
LEMMA SubmitFits ==
  ASSUME VotesTyped, VotesTyped', VotesNameTheirTeams, EntriesHeld, NEW h \in Handlers, Submit(h),
         NEW w \in Wallets \ (shifted' \cup forgotten'), Fits(alloc, w, ledger[w])
  PROVE  Fits(alloc', w, ledger[w])
<1> DEFINE r == req[h]
           b == r.ballot
           k == KeyOf(b)
           round == RoundOf[b.match]
<1>1. b \in Ballots /\ k \in Keys /\ k.wallet = b.wallet /\ k.match = b.match /\ round \in Rounds
  BY SubmitAdds, BallotTyped, VotesAssumption
<1>2. alloc \in [Keys -> Nat] /\ alloc' \in [Keys -> Nat] /\ \A j \in Keys \ {k} : alloc'[j] = alloc[j]
  BY SubmitAdds DEF VotesTyped
<1>3. ledger[w] \in Entry /\ r.entry \in Entry /\ r.pc # "idle" /\ WithinBalance(r)
  BY DEF Submit, VotesTyped, Request
<1>4. b.wallet = w => UsedBy(alloc', w) = PlacedWith(r) /\ AtMost(r.entry, ledger[w])
  BY <1>3, PlacedAfter DEF EntriesHeld, EntryHeld
<1> HIDE DEF r
<1>5. \A x \in Rounds : ~ (b.wallet = w /\ x = round) => UsedBy(alloc', w)[x] = UsedBy(alloc, w)[x]
  <2> SUFFICES ASSUME NEW x \in Rounds, ~ (b.wallet = w /\ x = round)
               PROVE  Sum(alloc', In(w, x, Keys)) = Sum(alloc, In(w, x, Keys))
    BY DEF UsedBy
  <2>1. k \notin In(w, x, Keys)
    BY <1>1 DEF In
  <2> QED
    BY <1>1, <1>2, <2>1, OneElse
<1> DEFINE U == UsedBy(alloc, w)
           V == UsedBy(alloc', w)
<1>6. /\ U \in [Rounds -> Nat] /\ V \in [Rounds -> Nat]
      /\ SharedPoolUsed(U) \in Nat /\ SharedPoolUsed(V) \in Nat
  BY <1>2, UsedTyped
<1>7. /\ \A x \in Rounds : U[x] =< UsableTickets(ledger[w], x)
      /\ SharedPoolUsed(U) =< UsableTickets(ledger[w], "round16")
  BY DEF Fits
<1>8. \A x \in Rounds : ~ (b.wallet = w /\ x = round) => V[x] = U[x]
  BY <1>5
<1>9. SharedRounds \subseteq Rounds /\ IsFiniteSet(SharedRounds) /\ "round16" \in SharedRounds
  <2>1. IsFiniteSet({"round16"} \cup {"quarterFinal"} \cup {"semiFinal"} \cup {"final"})
    BY FS_Singleton, FS_Union
  <2> QED
    BY <2>1 DEF Rounds, SharedRounds
<1>10. ASSUME ~ (b.wallet = w /\ round \in SharedRounds) PROVE SharedPoolUsed(V) = SharedPoolUsed(U)
  <2>1. \A x \in SharedRounds : V[x] \in Nat /\ V[x] = U[x]
    BY <1>6, <1>8, <1>9, <1>10
  <2> HIDE DEF U, V
  <2> QED
    BY <1>9, <2>1, SumSame DEF SharedPoolUsed, Sum
<1>11. ASSUME b.wallet = w
       PROVE  /\ V[round] =< UsableTickets(ledger[w], round)
              /\ round \in SharedRounds => SharedPoolUsed(V) =< UsableTickets(ledger[w], "round16")
  <2>1. PlacedWith(r) = V /\ AtMost(r.entry, ledger[w])
    BY <1>4, <1>11
  <2>2. /\ V[round] =< UsableTickets(r.entry, round)
        /\ round \in SharedRounds => SharedGrantUsed(V, r.entry) =< InsiderGrant(r.entry)
    BY <1>3, <2>1 DEF WithinBalance
  <2>3. \A x \in Rounds : /\ UsableTickets(r.entry, x) \in Nat /\ UsableTickets(ledger[w], x) \in Nat
                          /\ UsableTickets(r.entry, x) =< UsableTickets(ledger[w], x)
    BY <1>3, <2>1, UsableMore
  <2> HIDE DEF V, U
  <2>4. V[round] =< UsableTickets(ledger[w], round)
    BY <1>1, <1>6, <2>2, <2>3
  <2>5. ASSUME round \in SharedRounds PROVE SharedPoolUsed(V) =< UsableTickets(r.entry, "round16")
    <3> DEFINE base == BaseTickets(r.entry, "round16")
               grant == InsiderGrant(r.entry)
    <3>1. base \in Nat /\ grant \in Nat
      BY <1>3, EntryFieldsAre, MaxOfTwo DEF BaseTickets, InsiderGrant
    <3>2. UsableTickets(r.entry, "round16") = base + grant
      BY <1>9, <3>1 DEF UsableTickets
    <3>3. SharedGrantUsed(V, r.entry) = Max({0, SharedPoolUsed(V) - base})
      BY DEF SharedGrantUsed
    <3> HIDE DEF base, grant
    <3>4. Max({0, SharedPoolUsed(V) - base}) >= SharedPoolUsed(V) - base /\ Max({0, SharedPoolUsed(V) - base}) \in Int
      BY <1>6, <3>1, MaxOfTwo
    <3>5. Max({0, SharedPoolUsed(V) - base}) =< grant
      BY <2>2, <2>5, <3>3 DEF grant
    <3> QED
      BY <1>6, <3>1, <3>2, <3>4, <3>5
  <2> QED
    BY <1>6, <1>9, <2>3, <2>4, <2>5
<1> HIDE DEF U, V
<1>12. \A x \in Rounds : V[x] =< UsableTickets(ledger[w], x)
  BY <1>7, <1>8, <1>11
<1>13. SharedPoolUsed(V) =< UsableTickets(ledger[w], "round16")
  BY <1>7, <1>10, <1>11
<1> QED
  BY <1>12, <1>13 DEF Fits, V

(* Who has placed nothing fits every entry. *)
LEMMA FitsInit == Init => \A w \in Wallets : Fits(alloc, w, ledger[w])
<1> SUFFICES ASSUME Init, NEW w \in Wallets PROVE Fits(alloc, w, ledger[w])
  OBVIOUS
<1>1. alloc \in [Keys -> Nat] /\ ledger[w] \in Entry /\ \A k \in Keys : alloc[k] = 0
  BY TypedInit DEF Init, VotesTyped
<1>2. \A x \in Rounds : UsedBy(alloc, w)[x] = 0
  <2> SUFFICES ASSUME NEW x \in Rounds PROVE Sum(alloc, In(w, x, Keys)) = 0
    BY DEF UsedBy
  <2>1. Sum(alloc, In(w, x, Keys)) = Sum(alloc, In(w, x, {}))
    BY <1>1, PlacedShown
  <2>2. In(w, x, {}) = {}
    BY DEF In
  <2> QED
    BY <2>1, <2>2, SumEmpty
<1>3. SharedPoolUsed(UsedBy(alloc, w)) = 0
  <2> DEFINE U == UsedBy(alloc, w)
  <2>1. IsFiniteSet(SharedRounds)
    <3>1. IsFiniteSet({"round16"} \cup {"quarterFinal"} \cup {"semiFinal"} \cup {"final"})
      BY FS_Singleton, FS_Union
    <3> QED
      BY <3>1 DEF SharedRounds
  <2>2. \A x \in SharedRounds : x \in Rounds
    BY DEF Rounds
  <2>3. \A x \in SharedRounds : U[x] = 0
    BY <1>2, <2>2
  <2> HIDE DEF U
  <2>4. Sum(U, SharedRounds) = Sum(U, {})
    <3>1. \A x \in SharedRounds : U[x] \in Nat
      BY <2>3
    <3>2. \A x \in SharedRounds \ {} : U[x] = 0
      BY <2>3
    <3> QED
      BY <2>1, <3>1, <3>2, SumWithout
  <2> QED
    BY <2>4, SumEmpty DEF SharedPoolUsed, Sum, U
<1>4. \A x \in Rounds : UsableTickets(ledger[w], x) \in Nat
  BY <1>1, UsableMore DEF AtMost, Entry
<1>5. "round16" \in Rounds
  BY DEF Rounds, SharedRounds
<1> QED
  BY <1>2, <1>3, <1>4, <1>5 DEF Fits

(* The invariant: what the check in the transaction needs is that the      *)
(* allocations it leaves out are 0 (SubmitTells, VotesNameTheirTeams) and  *)
(* that the entry it compares with is covered by the ledger (EntriesHeld). *)
AcceptInv ==
  /\ VotesTyped
  /\ VotesNameTheirTeams
  /\ EntriesHeld
  /\ RestHasCapacity

(* Every step keeps the invariant. *)
LEMMA AcceptNext ==
  ASSUME AcceptInv, [Next]_vars
  PROVE  AcceptInv'
<1>1. VotesTyped' /\ VotesNameTheirTeams' /\ EntriesHeld'
  BY TypedNext, NamesNext, HeldNext DEF AcceptInv
<1>2. shifted \subseteq shifted' /\ forgotten \subseteq forgotten'
  BY OnlySubmitAllocates, SubmitTells DEF dbVars
<1>3. ASSUME NEW w \in Wallets \ (shifted' \cup forgotten') PROVE Fits(alloc', w, ledger'[w])
  <2>1. Fits(alloc, w, ledger[w]) /\ ledger[w] \in Entry /\ ledger'[w] \in Entry
    BY <1>1, <1>2, CapacityIsFits DEF AcceptInv, RestHasCapacity, VotesTyped
  <2>2. Fits(alloc', w, ledger[w])
    <3>1. CASE UNCHANGED dbVars
      BY <2>1, <3>1 DEF dbVars
    <3>2. CASE \E h \in Handlers : Submit(h)
      BY <1>1, <2>1, <3>2, SubmitFits DEF AcceptInv
    <3> QED
      BY <3>1, <3>2, OnlySubmitAllocates
  <2> QED
    BY <1>1, <2>1, <2>2, FitsMore, LedgerGrows DEF AcceptInv, VotesTyped
<1>4. (\A w \in Wallets \ (shifted' \cup forgotten') : Fits(alloc', w, ledger'[w])) => RestHasCapacity'
  BY DEF RestHasCapacity, HasCapacity, Fits, UsedBy, PlacedIn, In, Sum
<1> QED
  BY <1>1, <1>3, <1>4 DEF AcceptInv

(* A wallet places more than the ledger gives it (which the ledger build   *)
(* refuses), per round or over the pool of the later rounds, only by a     *)
(* vote that was accepted on a calendar with a gap or without a team it    *)
(* has tickets on: whatever answers fail, lack rows or overtake each       *)
(* other, though each request counts only the allocations whose team its   *)
(* calendar shows and holds an entry read long before.                     *)
THEOREM AcceptCorrect == Spec => []RestHasCapacity
<1>1. Init => AcceptInv
  <2>1. Init => EntriesHeld
    BY DEF Init, EntriesHeld, EntryHeld, IdleRequest
  <2> QED
    BY <2>1, TypedInit, NamesInit, FitsInit, CapacityIsFits DEF AcceptInv, RestHasCapacity
<1>2. AcceptInv /\ [Next]_vars => AcceptInv'
  BY AcceptNext
<1>3. AcceptInv => RestHasCapacity
  BY DEF AcceptInv
<1> QED
  BY <1>1, <1>2, <1>3, PTL DEF Spec
=============================================================================
