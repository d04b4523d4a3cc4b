----------------------------- MODULE DrawLedger -----------------------------
(***************************************************************************)
(* build-match-draw-ledger.mjs: votes and official results become the      *)
(* ticket pools of a draw.  A build for one draw looks for a locked file   *)
(* of it, then for a row in the aggregate, and only builds when there is   *)
(* neither; it writes the locked file before the aggregate and may be      *)
(* killed in between.  The server starts builds one at a time, an operator *)
(* starts them from a shell, also with --replace-existing-round or for all *)
(* rounds at once, while votes, results and corrections go on.  The round  *)
(* runner reads the aggregate, also to see who owns a winning ticket.      *)
(*                                                                         *)
(* A round hash covers the rows of its matches and the source round, not   *)
(* the draw's own name, so rows stand for their hash.                      *)
(***************************************************************************)
EXTENDS TicketRules, SequencesExt

CONSTANTS
  RoundOf,        \* the round of each match
  SourceOf,       \* the round each draw takes its matches from; the draws
                  \* are numbered as the ledger sorts them, redraws last
  Ballots,        \* the allocations users may place, no two with one key
  StartVotes,     \* the allocations there are at the start, oldest first
  TicketLedger,   \* the ticket ledger's entry of each wallet
  Required,       \* prize slots times one winner and the alternates
  Callers,        \* who starts builds: subset of {"server", "shell"}
  Overlap,        \* whether they start one beside a running one
  MaxCorrections, \* bound: official results taken back for the other team
  MaxKills        \* bound: builds that are killed

Matches == DOMAIN RoundOf
Draws == DOMAIN SourceOf
Wallets == DOMAIN TicketLedger
Teams == {1, 2}

ASSUME DrawLedgerAssumption ==
  /\ RoundOf \in [Matches -> Rounds] /\ SourceOf \in [Draws -> Rounds]
  /\ Draws \subseteq Nat \ {0} /\ 0 \notin Matches
  /\ TicketLedger \in [Wallets -> [EntryFields -> Nat]]
  /\ \A b \in Ballots : /\ b.wallet \in Wallets /\ b.match \in Matches
                        /\ b.team \in Teams /\ b.tickets \in Nat \ {0}
  /\ StartVotes \in Seq(Ballots)
  /\ Required \in Nat \ {0}
  /\ Callers \subseteq {"server", "shell"} /\ Overlap \in BOOLEAN
  /\ MaxCorrections \in Nat /\ MaxKills \in Nat

VARIABLES
  votes,       \* the allocations, oldest first
  official,    \* FIFA: the winner of each match, 0 while there is none
  results,     \* match-results.json: the confirmed winner, 0 for none
  locked,      \* match-draw-ledgers/<draw>.json: the rows of each draw
  aggregate,   \* match-draw-ledger.json: the rows of each draw
  build,       \* per caller, where its build is and what it will write
  corrections, kills

worldVars == <<votes, official, results, corrections>>
fileVars == <<locked, aggregate>>
vars == <<worldVars, fileVars, build, kills>>

-----------------------------------------------------------------------------
(* Rows: the pools of a draw's matches. *)

NoRows == [m \in {} |-> 0]
NoFile == [d \in Draws |-> NoRows]

LastTicket(entries) == IF entries = <<>> THEN 0 ELSE entries[Len(entries)].last

(* One more allocation: its tickets follow those before it. *)
Extend(entries, b) ==
  Append(entries, [wallet |-> b.wallet, first |-> LastTicket(entries) + 1,
                   last |-> LastTicket(entries) + b.tickets])

(* The allocations on one team of a match, one after another.              *)
EntriesFor(m, team) ==
  LET enter(entries, b) ==
        IF b.match = m /\ b.team = team THEN Extend(entries, b) ELSE entries
  IN  FoldLeft(enter, <<>>, votes)

(* The rows of a round: a pool for each match with a confirmed result. *)
RowsOf(round) ==
  [m \in {x \in Matches : RoundOf[x] = round /\ results[x] # 0} |->
     [winner |-> results[m], entries |-> EntriesFor(m, results[m])]]

(* validateWalletRoundCapacity, over the allocations of all rounds. *)
CapacityRespected ==
  \A w \in Wallets :
    LET used == [r \in Rounds |->
                   FoldLeft(LAMBDA n, b : n + b.tickets, 0,
                            SelectSeq(votes, LAMBDA b : b.wallet = w /\ RoundOf[b.match] = r))]
    IN  /\ \A r \in Rounds : used[r] =< UsableTickets(TicketLedger[w], r)
        /\ SharedPoolUsed(used) =< UsableTickets(TicketLedger[w], "round16")

(* The build does not throw: every pool has the tickets its prizes need. *)
Buildable(rows) ==
  /\ rows # NoRows
  /\ CapacityRespected
  /\ \A m \in DOMAIN rows : LastTicket(rows[m].entries) >= Required

IsBase(d) == \A e \in Draws : SourceOf[e] = SourceOf[d] => d =< e

-----------------------------------------------------------------------------
(* Builds. *)

AllDraws == 0   \* in build[c].draw: no --round-id was given

NotRunning(pc) ==
  [pc |-> pc, draw |-> 0, replace |-> FALSE,
   lock |-> NoRows, aggregate |-> NoFile, writes |-> {}]

Idle == NotRunning("idle")
Done == NotRunning("done")

IsRunning(c) == build[c].pc \notin {"idle", "done"}

Init ==
  /\ votes = StartVotes
  /\ official = [m \in Matches |-> 0]
  /\ results = official
  /\ locked = NoFile /\ aggregate = NoFile
  /\ build = [c \in Callers |-> Idle]
  /\ corrections = 0 /\ kills = 0

(* roundResultReadiness: every match of the round has its result. *)
IsReady(round) == \A m \in Matches : RoundOf[m] = round => results[m] # 0

MayStart(c) ==
  /\ ~IsRunning(c)
  /\ Overlap \/ \A x \in Callers : ~IsRunning(x)

ServerStarts(d) ==
  /\ "server" \in Callers /\ MayStart("server")
  /\ IsReady(SourceOf[d])
  /\ build' = [build EXCEPT !["server"] = [Idle EXCEPT !.pc = "looking", !.draw = d]]
  /\ UNCHANGED <<worldVars, fileVars, kills>>

ShellStarts(d, replace) ==
  /\ "shell" \in Callers /\ MayStart("shell")
  /\ build' = [build EXCEPT !["shell"] =
                 [Idle EXCEPT !.pc = IF d = AllDraws \/ replace THEN "building" ELSE "looking",
                              !.draw = d, !.replace = replace]]
  /\ UNCHANGED <<worldVars, fileVars, kills>>

(* From here on the build only writes what `writes` names. *)
Planned(b, writes, lock, agg) ==
  IF writes = {} THEN Done
  ELSE [b EXCEPT !.pc = IF "lock" \in writes THEN "locking" ELSE "writing",
                 !.writes = writes, !.lock = lock, !.aggregate = agg]

(* A row that is already in the aggregate is kept and locked. *)
LockWhatIsThere(b) == Planned(b, {"lock"}, aggregate[b.draw], NoFile)

(* The locked file, if there is one, goes back into the aggregate. *)
RestoreFromLock(b) ==
  IF aggregate[b.draw] = locked[b.draw]
  THEN Planned(b, {}, NoRows, NoFile)
  ELSE Planned(b, {"aggregate"}, NoRows, [aggregate EXCEPT ![b.draw] = locked[b.draw]])

(* Mutant of Preserved: only the aggregate is looked at. *)
PreservedInAggregate(b) ==
  IF aggregate[b.draw] # NoRows THEN LockWhatIsThere(b) ELSE [b EXCEPT !.pc = "building"]

(* readExistingRoundPreservation. *)
Preserved(b) ==
  IF locked[b.draw] # NoRows THEN RestoreFromLock(b)
  ELSE IF aggregate[b.draw] # NoRows THEN LockWhatIsThere(b)
  ELSE [b EXCEPT !.pc = "building"]

Look(c) ==
  /\ build[c].pc = "looking"
  /\ build' = [build EXCEPT ![c] = Preserved(build[c])]
  /\ UNCHANGED <<worldVars, fileVars, kills>>

(* buildMatchDrawLedger and mergeExistingRoundOutput for one draw; the     *)
(* aggregate is read again after the build.                                *)
BuildDraw(c) ==
  LET b == build[c]
      rows == RowsOf(SourceOf[b.draw])
  IN  /\ b.pc = "building" /\ b.draw # AllDraws
      /\ Buildable(rows)
      /\ build' = [build EXCEPT ![c] =
           IF aggregate[b.draw] # NoRows /\ ~b.replace
           THEN LockWhatIsThere(b)
           ELSE Planned(b, {"lock", "aggregate"}, rows, [aggregate EXCEPT ![b.draw] = rows])]
      /\ UNCHANGED <<worldVars, fileVars, kills>>

(* Without --round-id the aggregate is replaced by the rows of all rounds  *)
(* that have results, and nothing is locked.                               *)
BuildAll(c) ==
  LET rows == [d \in Draws |-> IF IsBase(d) THEN RowsOf(SourceOf[d]) ELSE NoRows]
  IN  /\ build[c].pc = "building" /\ build[c].draw = AllDraws
      /\ \E d \in Draws : rows[d] # NoRows
      /\ \A d \in Draws : rows[d] # NoRows => Buildable(rows[d])
      /\ build' = [build EXCEPT ![c] = Planned(build[c], {"aggregate"}, NoRows, rows)]
      /\ UNCHANGED <<worldVars, fileVars, kills>>

(* The build throws: no result, too few tickets or too many votes. *)
BuildFails(c) ==
  LET b == build[c]
      rounds == IF b.draw = AllDraws THEN {RoundOf[m] : m \in Matches} ELSE {SourceOf[b.draw]}
  IN  /\ b.pc = "building"
      /\ \/ \A r \in rounds : RowsOf(r) = NoRows
         \/ \E r \in rounds : RowsOf(r) # NoRows /\ ~Buildable(RowsOf(r))
      /\ build' = [build EXCEPT ![c] = Idle]
      /\ UNCHANGED <<worldVars, fileVars, kills>>

(* Mutant of WriteLock: the build ends before the aggregate is written. *)
WriteLockOnly(c) ==
  /\ build[c].pc = "locking"
  /\ locked' = [locked EXCEPT ![build[c].draw] = build[c].lock]
  /\ build' = [build EXCEPT ![c] = Done]
  /\ UNCHANGED <<worldVars, aggregate, kills>>

WriteLock(c) ==
  /\ build[c].pc = "locking"
  /\ locked' = [locked EXCEPT ![build[c].draw] = build[c].lock]
  /\ build' = [build EXCEPT ![c] =
                 IF "aggregate" \in @.writes THEN [@ EXCEPT !.pc = "writing"] ELSE Done]
  /\ UNCHANGED <<worldVars, aggregate, kills>>

WriteAggregate(c) ==
  /\ build[c].pc = "writing"
  /\ aggregate' = build[c].aggregate
  /\ build' = [build EXCEPT ![c] = Done]
  /\ UNCHANGED <<worldVars, locked, kills>>

(* The server's timeout, or a container that stops. *)
Kill(c) ==
  /\ IsRunning(c) /\ kills < MaxKills
  /\ build' = [build EXCEPT ![c] = Idle]
  /\ kills' = kills + 1
  /\ UNCHANGED <<worldVars, fileVars>>

-----------------------------------------------------------------------------
(* Around the builds. *)

(* Mutant of PlaceVote: a match with a result still takes votes. *)
PlaceVoteLate(b) ==
  /\ ~Contains(votes, b)
  /\ votes' = Append(votes, b)
  /\ UNCHANGED <<official, results, corrections, fileVars, build, kills>>

(* A vote is accepted before the match's cutoff, so before its result.     *)
PlaceVote(b) ==
  /\ ~Contains(votes, b)
  /\ official[b.match] = 0
  /\ votes' = Append(votes, b)
  /\ UNCHANGED <<official, results, corrections, fileVars, build, kills>>

Decide(m, team) ==
  /\ official[m] = 0
  /\ official' = [official EXCEPT ![m] = team]
  /\ UNCHANGED <<votes, results, corrections, fileVars, build, kills>>

(* FIFA, or the operator's match map, names the other team after all. *)
Correct(m) ==
  /\ official[m] # 0 /\ corrections < MaxCorrections
  /\ official' = [official EXCEPT ![m] = 3 - @]
  /\ corrections' = corrections + 1
  /\ UNCHANGED <<votes, results, fileVars, build, kills>>

(* sync-fifa-results writes all results anew; a match whose request failed *)
(* loses the winner it had.                                                *)
SyncResults ==
  /\ \E failed \in SUBSET Matches :
       results' = [m \in Matches |-> IF m \in failed THEN 0 ELSE official[m]]
  /\ UNCHANGED <<votes, official, corrections, fileVars, build, kills>>

Next ==
  \/ \E d \in Draws : ServerStarts(d)
  \/ \E d \in Draws, replace \in BOOLEAN : ShellStarts(d, replace)
  \/ ShellStarts(AllDraws, FALSE)
  \/ \E c \in Callers :
       \/ Look(c) \/ BuildDraw(c) \/ BuildAll(c) \/ BuildFails(c)
       \/ WriteLock(c) \/ WriteAggregate(c) \/ Kill(c)
  \/ \E b \in Ballots : PlaceVote(b)
  \/ \E m \in Matches : Correct(m) \/ \E team \in Teams : Decide(m, team)
  \/ SyncResults

Spec == Init /\ [][Next]_vars

-----------------------------------------------------------------------------
(* The round runner looks for the owners of a winning ticket. *)

(* findTicketEntry. *)
Owners(row, ticket) ==
  {row.entries[i].wallet : i \in {j \in DOMAIN row.entries :
                                    row.entries[j].first =< ticket /\ ticket =< row.entries[j].last}}

(* findMatchDraw: the first row with the match's id, whatever its draw. *)
RowFound(m) ==
  LET having == {d \in Draws : m \in DOMAIN aggregate[d]}
  IN  aggregate[Min(having)][m]

-----------------------------------------------------------------------------
(* Properties. *)

Tickets(row) == 1..LastTicket(row.entries)

(* Which allocations a wallet has on one team of a match. *)
PlacedOn(m, team, w) ==
  {i \in DOMAIN votes : votes[i].match = m /\ votes[i].team = team /\ votes[i].wallet = w}

(* Every ticket of a pool on file has one owner, and every wallet owns as  *)
(* many tickets as it placed on the winner: no vote was accepted after the *)
(* pool it belongs in was built, and none was lost or counted twice,       *)
(* whatever happened to files and results since (entryForAllocation and    *)
(* the cutoff of votes).                                                   *)
PoolsAreTheVotes ==
  \A d \in Draws : \A m \in DOMAIN locked[d] :
    LET row == locked[d][m]
    IN  /\ \A t \in Tickets(row) : Cardinality(Owners(row, t)) = 1
        /\ \A w \in Wallets :
             Cardinality({t \in Tickets(row) : w \in Owners(row, t)})
               = SumFunctionOnSet([i \in DOMAIN votes |-> votes[i].tickets],
                                  PlacedOn(m, row.winner, w))

(* A build for one draw that ends well leaves the same rows in the locked  *)
(* file and in the aggregate, also after builds that were killed between   *)
(* the two writes (the API answers with both paths).                       *)
DoneMeansOnFile ==
  [][\A c \in Callers :
       /\ IsRunning(c) /\ build'[c].pc = "done" /\ build[c].draw # AllDraws
       => /\ locked'[build[c].draw] # NoRows
          /\ aggregate'[build[c].draw] = locked'[build[c].draw]]_vars

(* A locked file changes only by a build told to replace it: "immutable    *)
(* per-round snapshots" (--locked-rounds-dir).                             *)
LockedRoundsStay ==
  [][\A d \in Draws : locked[d] # NoRows /\ locked'[d] # locked[d]
       => \E c \in Callers : build[c].draw = d /\ build[c].replace]_vars

(* The round runner "maps primary and alternate ticket numbers back to     *)
(* ledger wallet/allocation rows": for every draw of the aggregate, the    *)
(* row it finds by match gives each ticket the owner it has in that        *)
(* draw's own pool.                                                        *)
WinnersOwnTheirTickets ==
  \A d \in Draws : \A m \in DOMAIN aggregate[d] : \A t \in Tickets(aggregate[d][m]) :
    Owners(RowFound(m), t) = Owners(aggregate[d][m], t)
=============================================================================
