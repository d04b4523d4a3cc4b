------------------------------ MODULE VoteStore ------------------------------
(***************************************************************************)
(* The two files behind the vote API: what each voter has placed, and the  *)
(* log of his votes.  In SQLite both are tables; whoever opens the         *)
(* database, the server or a build of the draw ledger, first chains the    *)
(* events by hashes, moves rows of old match ids to the official ones and  *)
(* chains the events again, in separate transactions.  The JSON store      *)
(* appends to the log and then replaces the file of the placed tickets.    *)
(***************************************************************************)
EXTENDS Naturals, FiniteSetsExt, SequencesExt

CONSTANTS
  Placers,      \* who votes
  Official,     \* LEGACY_TO_OFFICIAL_MATCH_IDS of round16
  OpenMatches,  \* the official ids one may vote on
  Histories,    \* the logs an earlier version may have left
  Builds,       \* the processes of build-match-draw-ledger
  ShellBuilds,  \* whether builds may start while the server does not run
  MaxEvents     \* bound: events in the log

VARIABLES
  form,       \* SOCCER_VOTE_STORE
  placed,     \* vote_allocations, or vote-state.json
  events,     \* vote_events, or the events file
  process,    \* per process, how far it has come and the rows it has read
  submitting, \* JSON: a vote that is in the log and not yet in the state
  answered    \* the votes whose voter was told that they count

storeVars == <<form, placed, events, process, submitting, answered>>

Legacy == DOMAIN Official
OfficialId(m) == IF m \in Legacy THEN Official[m] ELSE m
Processes == {"server"} \cup Builds
Closed == [pc |-> "closed", copy |-> <<>>]
NoVote == [by |-> "nobody"]

ASSUME VoteStoreAssumption ==
  /\ Official \in [Legacy -> OpenMatches] /\ IsFiniteSet(Legacy) /\ Legacy \cap OpenMatches = {}
  /\ "server" \notin Builds
  /\ \A h \in Histories : h \in Seq([by : Placers, match : Legacy \cup OpenMatches])
  /\ ShellBuilds \in BOOLEAN /\ MaxEvents \in Nat

Keys == Placers \X (Legacy \cup OpenMatches)

(* The events of a set whose row is about a key. *)
EventsOf(k, ns) == {n \in ns : <<events[n].by, events[n].match>> = k}
TicketsOn(k, ns) == Cardinality(EventsOf(k, ns))

(* An event's payload is named by its match, and a hash by the payloads it *)
(* covers; <<>> is no hash.                                                *)
Hashes(log) == [n \in DOMAIN log |-> [i \in 1..n |-> log[i].payload]]

(* An earlier version left its rows without hashes, or chained them. *)
StoreInit ==
  /\ form \in {"sqlite", "json"}
  /\ \E h \in Histories, chained \in BOOLEAN :
       LET log == [n \in DOMAIN h |-> [by |-> h[n].by, match |-> h[n].match,
                                       payload |-> h[n].match, hash |-> <<>>]]
       IN  /\ chained => form = "sqlite"
           /\ events = [n \in DOMAIN h |-> [log[n] EXCEPT !.hash = IF chained THEN Hashes(log)[n] ELSE <<>>]]
           /\ placed = [k \in Keys |-> Cardinality({n \in DOMAIN h : <<h[n].by, h[n].match>> = k})]
           /\ answered = DOMAIN h
  /\ process = [p \in Processes |-> Closed]
  /\ submitting = NoVote

Goes(p, pc) == process' = [process EXCEPT ![p].pc = pc]
Serving == process["server"].pc = "open" /\ submitting = NoVote

-----------------------------------------------------------------------------
(* ensureSchema *)

StartServer ==
  /\ process["server"] = Closed
  /\ Goes("server", IF form = "json" THEN "open" ELSE "unread")
  /\ UNCHANGED <<form, placed, events, submitting, answered>>

(* readVoteStateFromSqlite in a build. *)
StartBuild(p) ==
  /\ process[p] = Closed /\ form = "sqlite"
  /\ Serving \/ ShellBuilds
  /\ Goes(p, "unread")
  /\ UNCHANGED <<form, placed, events, submitting, answered>>

(* backfillVoteEventHashes reads the rows before its transaction. *)
ReadEvents(p) ==
  /\ process[p].pc \in {"unread", "moved"}
  /\ process' = [process EXCEPT ![p] = [pc |-> IF @.pc = "unread" THEN "read" ELSE "read again", copy |-> events]]
  /\ UNCHANGED <<form, placed, events, submitting, answered>>

(* Rows whose hash, as it was read, is not the one of the chain are        *)
(* written as they were read, with the right hash.                         *)
Chained(log, copy) ==
  [n \in DOMAIN log |->
     IF n \in DOMAIN copy /\ copy[n].hash # Hashes(copy)[n]
     THEN [log[n] EXCEPT !.payload = copy[n].payload, !.hash = Hashes(copy)[n]]
     ELSE log[n]]

WriteHashes(p) ==
  /\ process[p].pc \in {"read", "read again"}
  /\ events' = Chained(events, process[p].copy)
  /\ process' = [process EXCEPT ![p] = [pc |-> IF @.pc = "read" THEN "chained" ELSE "open", copy |-> <<>>]]
  /\ UNCHANGED <<form, placed, submitting, answered>>

(* Tickets on an old id join those of the official one. *)
JoinedTickets ==
  [k \in Keys |->
     LET all == [m \in Legacy \cup OpenMatches |-> placed[<<k[1], m>>]]
     IN  IF k[2] \in Legacy THEN 0
         ELSE SumFunctionOnSet(all, {m \in DOMAIN all : OfficialId(m) = k[2]})]

(* Mutant of AfterMove: moved rows are left with the hashes they had. *)
AfterMoveOnce == "open"

AfterMove ==
  IF \E n \in DOMAIN events : events[n].match \in Legacy THEN "moved" ELSE "open"

(* migrateLegacyMatchIds *)
MigrateLegacyMatchIds(p) ==
  /\ process[p].pc = "chained"
  /\ placed' = JoinedTickets
  /\ events' = [n \in DOMAIN events |->
                  IF events[n].match \in Legacy
                  THEN [events[n] EXCEPT !.match = Official[@], !.payload = Official[events[n].match]]
                  ELSE events[n]]
  /\ Goes(p, AfterMove)
  /\ UNCHANGED <<form, submitting, answered>>

(* A build that has read what is placed goes on elsewhere (DrawLedger). *)
CloseBuild(p) ==
  /\ p \in Builds /\ process[p].pc = "open"
  /\ process' = [process EXCEPT ![p] = Closed]
  /\ UNCHANGED <<form, placed, events, submitting, answered>>

-----------------------------------------------------------------------------
(* A vote the API has accepted, by whichever of its ids the match is named *)
(* (limits and repetitions are the matter of VotesApi).                    *)

LatestHash ==
  LET hashed == {n \in DOMAIN events : events[n].hash # <<>>}
  IN  IF hashed = {} THEN <<>> ELSE events[Max(hashed)].hash

EventOf(by, m, hash) == [by |-> by, match |-> m, payload |-> m, hash |-> hash]

(* submitVoteInDatabase: one transaction. *)
SubmitToDatabase(by, m) ==
  /\ form = "sqlite" /\ Serving /\ Len(events) < MaxEvents
  /\ LET c == OfficialId(m)
     IN  /\ events' = Append(events, EventOf(by, c, Append(LatestHash, c)))
         /\ placed' = [placed EXCEPT ![<<by, c>>] = @ + 1]
  /\ answered' = answered \cup {Len(events')}
  /\ UNCHANGED <<form, process, submitting>>

(* submitVote: the log first. *)
AppendVoteEvent(by, m) ==
  /\ form = "json" /\ Serving /\ Len(events) < MaxEvents
  /\ events' = Append(events, EventOf(by, OfficialId(m), <<>>))
  /\ submitting' = Last(events')
  /\ UNCHANGED <<form, placed, process, answered>>

WriteVoteState ==
  /\ submitting # NoVote
  /\ placed' = [placed EXCEPT ![<<submitting.by, submitting.match>>] = @ + 1]
  /\ answered' = answered \cup {Len(events)}
  /\ submitting' = NoVote
  /\ UNCHANGED <<form, events, process>>

(* The file cannot be written; the voter is told of an error. *)
WriteVoteStateFails ==
  /\ submitting # NoVote /\ submitting' = NoVote
  /\ UNCHANGED <<form, placed, events, process, answered>>

-----------------------------------------------------------------------------

KillBuild(p) ==
  /\ p \in Builds /\ process[p] # Closed
  /\ process' = [process EXCEPT ![p] = Closed]
  /\ UNCHANGED <<form, placed, events, submitting, answered>>

StopContainer ==
  /\ process["server"] # Closed
  /\ process' = [p \in Processes |-> Closed]
  /\ submitting' = NoVote
  /\ UNCHANGED <<form, placed, events, answered>>

StoreSteps ==
  \/ StartServer \/ StopContainer \/ WriteVoteState \/ WriteVoteStateFails
  \/ \E p \in Processes : ReadEvents(p) \/ WriteHashes(p) \/ MigrateLegacyMatchIds(p)
  \/ \E p \in Builds : StartBuild(p) \/ CloseBuild(p) \/ KillBuild(p)
  \/ \E by \in Placers, m \in Legacy \cup OpenMatches :
       SubmitToDatabase(by, m) \/ AppendVoteEvent(by, m)

StoreSpec == StoreInit /\ [][StoreSteps]_storeVars

-----------------------------------------------------------------------------

(* Wherever a container stopped while a database was brought up to date,   *)
(* and although builds do the same beside votes: what the server of the    *)
(* SQLite store goes by is its log, every event under the official id of   *)
(* its match, and one chain of hashes covers all of them.  The JSON store  *)
(* counts every vote it has said counts, and none that its log lacks.      *)
VotesAreTheirLog ==
  /\ form = "sqlite" /\ Serving =>
       /\ \A k \in Keys : placed[k] = TicketsOn(k, DOMAIN events)
       /\ \A n \in DOMAIN events :
            events[n].match \notin Legacy /\ events[n].payload = events[n].match
       /\ \A n \in DOMAIN events : events[n].hash = Hashes(events)[n]
  /\ form = "json" =>
       \A k \in Keys : placed[k] \in TicketsOn(k, answered)..TicketsOn(k, DOMAIN events)
=============================================================================
