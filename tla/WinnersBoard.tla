---------------------------- MODULE WinnersBoard ----------------------------
(***************************************************************************)
(* The board of winners the server gives to its readers.  The winners file *)
(* is the current draw; the earlier rounds come from the history files,    *)
(* and a history file that is missing is rebuilt from the contract by a    *)
(* process that all readers asking at that time share.                     *)
(***************************************************************************)
EXTENDS DrawAdmin

CONSTANT Readers   \* requests for the board at the same time

VARIABLES
  tasks,   \* drawWinnerHistoryTasks: the rebuilding process of each round
  reader,  \* what each request waits for and what it was given
  nodeUp   \* the node that is asked for the proofs of a draw answers

boardVars == <<tasks, reader, nodeUp>>

NoRequest == [pc |-> "idle", waits |-> {}, lists |-> {}]

BoardInit ==
  /\ tasks = [r \in Rounds |-> "none"]
  /\ reader = [b \in Readers |-> NoRequest]
  /\ nodeUp \in BOOLEAN

(* priorDrawRoundIds: a redraw is no round of the calendar and has none.   *)
PriorRounds(d) ==
  IF d.attempt # 0 THEN {}
  ELSE {RoundSeq[i] : i \in {j \in DOMAIN RoundSeq :
          /\ Base(RoundSeq[j]) \in locked
          /\ \E k \in DOMAIN RoundSeq : RoundSeq[k] = d.round /\ j < k}}

(* readDrawWinnersSnapshot, up to where it waits for the rebuilds. *)
AskBoard(b) ==
  LET prior   == IF winners.status = "revealed" THEN PriorRounds(winners.draw) ELSE {}
      missing == {r \in prior : history[r] = NoFile}
  IN  /\ reader[b].pc = "idle"
      /\ reader' = [reader EXCEPT ![b] =
           [pc |-> "waiting", waits |-> missing,
            lists |-> {history[r] : r \in prior \ missing}
                        \cup {w \in {winners} : w # NoFile}]]
      /\ tasks' = [r \in Rounds |->
           IF r \in missing /\ tasks[r] = "none" THEN "started" ELSE tasks[r]]
      /\ UNCHANGED <<adminVars, nodeUp>>

(* Every request that waits for the round gets what its process ends with. *)
GiveTo(r, snapshots) ==
  /\ tasks' = [tasks EXCEPT ![r] = "none"]
  /\ reader' = [b \in Readers |->
       IF r \in reader[b].waits
       THEN [reader[b] EXCEPT !.waits = @ \ {r}, !.lists = @ \cup snapshots]
       ELSE reader[b]]
  /\ UNCHANGED nodeUp

(* Mutant of RebuildReads: a draw is read whatever its state. *)
RebuildReadsAnyhow(r) ==
  /\ tasks[r] = "started"
  /\ tasks' = [tasks EXCEPT ![r] = "revealed"]
  /\ UNCHANGED <<adminVars, reader, nodeUp>>

(* The status of the original draw of the round, on which the label and    *)
(* whether anything is written depend.                                     *)
RebuildReads(r) ==
  /\ tasks[r] = "started"
  /\ IF chain[Base(r)] \in {"none", "requested"} THEN GiveTo(r, {})
     ELSE tasks' = [tasks EXCEPT ![r] = IF chain[Base(r)] = "revealed" THEN "revealed" ELSE "partial"]
          /\ UNCHANGED <<reader, nodeUp>>
  /\ UNCHANGED adminVars

RebuildWrites(r) ==
  /\ tasks[r] \in {"partial", "revealed"}
  /\ history' = [history EXCEPT ![r] = Snapshot(Base(r), tasks[r])]
  /\ tasks' = [tasks EXCEPT ![r] = "written"]
  /\ UNCHANGED <<chainVars, finals, locked, winners, serverVars, reader, nodeUp>>

(* The server reads the file again when the process has ended. *)
RebuildEnds(r) ==
  /\ tasks[r] = "written"
  /\ GiveTo(r, {s \in {history[r]} : s.status = "revealed"})
  /\ UNCHANGED adminVars

(* The process fails, or takes longer than its minute and is killed. *)
RebuildFails(r) ==
  /\ tasks[r] # "none"
  /\ GiveTo(r, {})
  /\ UNCHANGED adminVars

(* enrichDrawWinnersChainProof: the transactions of a revealed draw are     *)
(* asked of a node, for as long as it takes the node to answer.  An error  *)
(* is an answer, it is put in their place.                                 *)
AsksNode(b) == \E s \in reader[b].lists : s.status = "revealed"

(* The transactions may be known: on file, configured, or in the cache.    *)
GiveBoard(b, known) ==
  /\ reader[b].pc = "waiting" /\ reader[b].waits = {}
  /\ AsksNode(b) => known \/ nodeUp
  /\ reader' = [reader EXCEPT ![b].pc = "given"]
  /\ UNCHANGED <<adminVars, tasks, nodeUp>>

LeaveBoard(b) ==
  /\ reader[b].pc = "given"
  /\ reader' = [reader EXCEPT ![b] = NoRequest]
  /\ UNCHANGED <<adminVars, tasks, nodeUp>>

NodeTurns ==
  /\ nodeUp' = ~ nodeUp
  /\ UNCHANGED <<adminVars, tasks, reader>>

(* With the server go its processes and its connections. *)
BoardRestarts ==
  /\ tasks' = [r \in Rounds |-> "none"]
  /\ reader' = [b \in Readers |-> NoRequest]
  /\ UNCHANGED nodeUp

BoardSteps ==
  \/ \E b \in Readers :
       AskBoard(b) \/ LeaveBoard(b) \/ \E known \in BOOLEAN : GiveBoard(b, known)
  \/ \E r \in Rounds :
       RebuildReads(r) \/ RebuildWrites(r) \/ RebuildEnds(r) \/ RebuildFails(r)
  \/ NodeTurns

-----------------------------------------------------------------------------

(* Whatever processes write the two kinds of files at the same time, what  *)
(* a reader is given was drawn on the contract, what is called revealed is *)
(* wholly revealed there, and no round appears in two draws.               *)
BoardListsRealDraws ==
  \A b \in Readers : \A s \in reader[b].lists :
    /\ chain[s.draw] = "revealed" \/ (chain[s.draw] = "answered" /\ s.status = "partial")
    /\ \A t \in reader[b].lists : t.draw.round = s.draw.round => t.draw = s.draw

=============================================================================
