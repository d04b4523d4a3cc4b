---------------------------- MODULE MatchResults ----------------------------
(***************************************************************************)
(* The results of the matches as FIFA publishes them, and the sync that    *)
(* writes them to match-results.json: a child of the server, one at a      *)
(* time, that asks for the matches of its map one after the other and      *)
(* replaces the file as a whole when it is through.  FIFA's pages change   *)
(* all the while: teams get known, a winner is shown before it is          *)
(* official, an official one is corrected.                                 *)
(***************************************************************************)
EXTENDS Sequences, SequencesExt

CONSTANTS
  Map,        \* the source map: the mapped matches in their order
  ByNumber,   \* those mapped by match number, which the calendar answers
  TeamIds,    \* the teams each match expects, none where the map names none
  Unnamed,    \* a team the app has no id for
  Pages,      \* what FIFA may say of a match
  Children,   \* the sync processes there may be
  MaxEdits    \* bound: changes of FIFA's pages

Mapped == ToSet(Map)

ASSUME MatchResultsAssumption ==
  /\ IsInjective(Map) /\ ByNumber \subseteq Mapped /\ MaxEdits \in Nat
  /\ \A p \in Pages : p.winner \in {"none", "home", "away"} /\ p.final \in BOOLEAN /\ p.official \in BOOLEAN

VARIABLES
  told,        \* FIFA: all it has said of each match, the last is its page
  syncRunning, \* fifaResultSyncRunning
  child,       \* the sync processes
  file         \* match-results.json

resultsVars == <<told, syncRunning, child, file>>

Now == [m \in Mapped |-> Len(told[m])]
Edits == LET sum[i \in 0..Len(Map)] == IF i = 0 THEN 0 ELSE sum[i - 1] + Len(told[Map[i]]) - 1
         IN  sum[Len(Map)]

NoRow == [status |-> "missing", winner |-> Unnamed, of |-> 0]
NoRows == [m \in Mapped |-> NoRow]
NoSync == [pc |-> "idle", calendar |-> [m \in Mapped |-> 0], next |-> 1, rows |-> NoRows]

ResultsInit ==
  /\ told \in [Mapped -> {<<p>> : p \in {q \in Pages : q.winner = "none"}}]
  /\ syncRunning = FALSE
  /\ child = [c \in Children |-> NoSync]
  /\ file = NoRows

-----------------------------------------------------------------------------
(* normalizeFifaMatchResult *)

(* With fewer than two teams the app knows, nothing is compared.           *)
TeamsMatchExpected(m, p) ==
  \/ TeamIds[m] = {} \/ Unnamed \in {p.home, p.away}
  \/ TeamIds[m] = {p.home, p.away}

WinnerTeam(p) == [none |-> Unnamed, home |-> p.home, away |-> p.away][p.winner]

HasOfficialWinner(p) == WinnerTeam(p) # Unnamed /\ p.final /\ p.official

Status(m, p) ==
  IF ~ TeamsMatchExpected(m, p) THEN "mismatch"
  ELSE IF HasOfficialWinner(p) THEN "confirmed" ELSE "pending"

(* The row made of what FIFA said of m as its n-th word.                   *)
RowOf(m, n) ==
  LET p == told[m][n]
  IN  [status |-> Status(m, p), of |-> n,
       winner |-> IF Status(m, p) = "confirmed" THEN WinnerTeam(p) ELSE Unnamed]

SourceError == [status |-> "source_error", winner |-> Unnamed, of |-> 0]

-----------------------------------------------------------------------------
(* The sync. *)

Alter(c, s) == child' = [child EXCEPT ![c] = s]

(* Mutant of RunSync: the next interval does not wait for the last sync.   *)
RunSyncAnyway(c) ==
  /\ child[c].pc = "idle"
  /\ syncRunning' = TRUE
  /\ Alter(c, [NoSync EXCEPT !.pc = IF ByNumber = {} THEN "matches" ELSE "calendar"])
  /\ UNCHANGED <<told, file>>

(* runFifaResultSync, at start-up and at every interval.  The calendar is  *)
(* asked first, if a match needs it; without an answer the process ends.   *)
RunSync(c) ==
  /\ ~ syncRunning /\ child[c].pc = "idle"
  /\ syncRunning' = TRUE
  /\ Alter(c, [NoSync EXCEPT !.pc = IF ByNumber = {} THEN "matches" ELSE "calendar"])
  /\ UNCHANGED <<told, file>>

(* 0 stands for a match the calendar does not list. *)
CalendarComes(c) ==
  /\ child[c].pc = "calendar"
  /\ \E listed \in SUBSET ByNumber :
       Alter(c, [child[c] EXCEPT !.pc = "matches",
                                 !.calendar = [m \in Mapped |-> IF m \in listed THEN Now[m] ELSE 0]])
  /\ UNCHANGED <<told, syncRunning, file>>

(* The page as it is now, the calendar's row, or an error for this match.  *)
Answers(c, m) ==
  IF m \in ByNumber
  THEN {IF child[c].calendar[m] = 0 THEN SourceError ELSE RowOf(m, child[c].calendar[m])}
  ELSE {RowOf(m, Now[m]), SourceError}

AskForMatch(c) ==
  /\ child[c].pc = "matches" /\ child[c].next =< Len(Map)
  /\ LET m == Map[child[c].next]
     IN  \E row \in Answers(c, m) :
           Alter(c, [child[c] EXCEPT !.next = @ + 1, !.rows[m] = row])
  /\ UNCHANGED <<told, syncRunning, file>>

(* writeJsonAtomic *)
WriteResults(c) ==
  /\ child[c].pc = "matches" /\ child[c].next > Len(Map)
  /\ file' = child[c].rows
  /\ Alter(c, [child[c] EXCEPT !.pc = "exiting"])
  /\ UNCHANGED <<told, syncRunning>>

SyncCloses(c) ==
  /\ child[c].pc = "exiting"
  /\ syncRunning' = FALSE /\ Alter(c, NoSync)
  /\ UNCHANGED <<told, file>>

(* No calendar, an unreadable map, a process that dies.                    *)
SyncFails(c) ==
  /\ child[c].pc # "idle"
  /\ syncRunning' = FALSE /\ Alter(c, NoSync)
  /\ UNCHANGED <<told, file>>

(* FIFA says something else. *)
Edit(m, p) ==
  /\ Edits < MaxEdits /\ p # Last(told[m])
  /\ told' = [told EXCEPT ![m] = Append(@, p)]
  /\ UNCHANGED <<syncRunning, child, file>>

ResultsSteps ==
  \/ \E c \in Children :
       \/ RunSync(c) \/ CalendarComes(c) \/ AskForMatch(c) \/ WriteResults(c)
       \/ SyncCloses(c) \/ SyncFails(c)
  \/ \E m \in Mapped, p \in Pages : Edit(m, p)

ResultsSpec == ResultsInit /\ [][ResultsSteps]_resultsVars

-----------------------------------------------------------------------------

(* Votes and draw ledgers go by the file.  A winner in it is one that FIFA *)
(* has declared official of that match, and no file tells of a match what  *)
(* FIFA said before the word its predecessor goes by: although the matches *)
(* are asked for one by one, some from a calendar read earlier, requests   *)
(* fail in between and a sync may take longer than the interval.           *)
ResultsMoveForward ==
  [][\A m \in Mapped : file'[m].status = "confirmed" =>
       LET p == told[m][file'[m].of]
       IN  /\ p.final /\ p.official
           /\ file'[m].winner = [home |-> p.home, away |-> p.away][p.winner]
           /\ file'[m].of >= file[m].of]_file
=============================================================================
