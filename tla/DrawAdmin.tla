----------------------------- MODULE DrawAdmin -----------------------------
(***************************************************************************)
(* The draw-admin API of the server and the child processes it starts.  An *)
(* operator asks for a challenge, signs it and posts a run: building the   *)
(* draw ledger, or verifying or broadcasting a draw.  One run at a time:   *)
(* its process works on the ledger, the contract and the winners files,    *)
(* and ends, fails or is killed when it takes too long.                    *)
(*                                                                         *)
(* A draw is a round and an attempt; attempt 0 is the round itself, the    *)
(* others are its redraws, drawn as rounds of their own on the contract.   *)
(* The chain side of a run is the one DrawRunner describes transaction by  *)
(* transaction; here a draw is only asked for, answered and revealed.      *)
(***************************************************************************)
EXTENDS Naturals, Sequences, FiniteSets

CONSTANTS
  RoundSeq,     \* the rounds in their order
  MaxAttempt,   \* bound: redraws of a round (the API takes 1..999)
  MaxNonces     \* bound: challenges handed out

Rounds == {RoundSeq[i] : i \in DOMAIN RoundSeq}
Draws == [round : Rounds, attempt : 0..MaxAttempt]
Actions == {"ledger", "verify", "broadcast"}
Base(r) == [round |-> r, attempt |-> 0]

ASSUME DrawAdminAssumption ==
  /\ MaxAttempt \in Nat \ {0} /\ MaxNonces \in Nat \ {0}
  /\ RoundSeq \in Seq(STRING) \ {<<>>}
  /\ \A i, j \in DOMAIN RoundSeq : RoundSeq[i] = RoundSeq[j] => i = j

VARIABLES
  finals,      \* the rounds whose results are complete on file
  locked,      \* the draws in the aggregate draw ledger
  chain,       \* the contract's record of each draw
  mempool,     \* transactions sent and not yet mined
  challenges,  \* the challenges handed out, oldest first
  running,     \* drawAdminRunRunning
  runs,        \* the runs started, oldest first
  last,        \* lastDrawAdminRun: a position in runs, 0 for none
  winners,     \* draw-winners.json
  history      \* the history file of each round

chainVars == <<chain, mempool>>
fileVars == <<finals, locked, winners, history>>
serverVars == <<challenges, running, runs, last>>
adminVars == <<chainVars, fileVars, serverVars>>

NoFile == [draw |-> Base(RoundSeq[1]), status |-> "missing"]
Snapshot(d, status) == [draw |-> d, status |-> status]

(* The ledgers may be there from earlier days or from a shell. *)
AdminInit ==
  /\ locked \in SUBSET Draws
  /\ finals = {d.round : d \in locked}
  /\ chain = [d \in Draws |-> "none"]
  /\ mempool = {}
  /\ challenges = <<>>
  /\ running = FALSE
  /\ runs = <<>>
  /\ last = 0
  /\ winners = NoFile
  /\ history = [r \in Rounds |-> NoFile]

-----------------------------------------------------------------------------
(* Requests.  The body is awaited first; the rest of a handler is one      *)
(* step of the server's event loop.                                        *)

(* assertDrawLedgerBuildReady, assertDrawAdminReady *)
Ready(action, d) ==
  IF action = "ledger" THEN d.round \in finals ELSE d \in locked

CreateChallenge(action, d) ==
  /\ Len(challenges) < MaxNonces
  /\ Ready(action, d)
  /\ challenges' = Append(challenges, [action |-> action, draw |-> d, state |-> "live"])
  /\ UNCHANGED <<chainVars, fileVars, running, runs, last>>

ChallengeExpires(n) ==
  /\ challenges[n].state = "live"
  /\ challenges' = [challenges EXCEPT ![n].state = "gone"]
  /\ UNCHANGED <<chainVars, fileVars, running, runs, last>>

(* Mutant of Valid: what was signed is not compared with what is asked. *)
ValidForAnything(n, action, d) ==
  n \in DOMAIN challenges /\ challenges[n].state = "live"

Valid(n, action, d) ==
  n \in DOMAIN challenges /\ challenges[n] = [action |-> action, draw |-> d, state |-> "live"]

Burn(n) ==
  IF n \in DOMAIN challenges THEN [challenges EXCEPT ![n].state = "gone"] ELSE challenges

(* POST /api/draw-admin/ledger and /round.  The challenge is used up       *)
(* before the single-flight flag is looked at.                             *)
StartRun(n, action, d) ==
  /\ Ready(action, d) /\ Valid(n, action, d) /\ ~ running
  /\ challenges' = Burn(n)
  /\ runs' = Append(runs, [nonce |-> n, action |-> action, draw |-> d,
                           pc |-> "started", waited |-> FALSE, late |-> FALSE])
  /\ running' = TRUE
  /\ last' = Len(runs) + 1
  /\ UNCHANGED <<chainVars, fileVars>>

RefuseRun(n, action, d) ==
  /\ ~ (Ready(action, d) /\ Valid(n, action, d) /\ ~ running)
  /\ challenges' = IF Ready(action, d) THEN Burn(n) ELSE challenges
  /\ UNCHANGED <<chainVars, fileVars, running, runs, last>>

-----------------------------------------------------------------------------
(* The process of a run. *)

Open == {"started", "sent", "waiting", "answered", "revealing", "revealed", "published"}
At(i, pc) == i \in DOMAIN runs /\ runs[i].pc = pc
Go(i, pc) == runs' = [runs EXCEPT ![i].pc = pc]
Settle(i, pc) == Go(i, pc) /\ running' = FALSE

(* The build takes the matches that have a result when it reads the file,  *)
(* or keeps the lock that is there; it fails when no match has one.  (What *)
(* it locks of an incomplete round is DrawLedger's subject.)               *)
BuildLedger(i) ==
  /\ At(i, "started") /\ runs[i].action = "ledger"
  /\ \/ locked' = locked \cup {runs[i].draw} /\ Settle(i, "done")
     \/ runs[i].draw.round \notin finals /\ locked' = locked /\ Settle(i, "failed")
  /\ UNCHANGED <<chainVars, finals, winners, history, challenges, last>>

(* --verify-only reads the contract and writes nothing. *)
VerifyRun(i) ==
  /\ At(i, "started") /\ runs[i].action = "verify"
  /\ Settle(i, "done")
  /\ UNCHANGED <<chainVars, fileVars, challenges, last>>

(* The first status tells a broadcasting run where to go on. *)
Resume(i) ==
  LET d == runs[i].draw
      entry == [none |-> "sent", requested |-> "waiting", answered |-> "answered", revealed |-> "revealed"]
  IN  /\ At(i, "started") /\ runs[i].action = "broadcast"
      /\ Go(i, entry[chain[d]])
      /\ mempool' = IF chain[d] = "none" THEN mempool \cup {<<"request", d>>} ELSE mempool
      /\ UNCHANGED <<chain, fileVars, challenges, running, last>>

Requested(i) ==
  /\ At(i, "sent") /\ chain[runs[i].draw] # "none"
  /\ Go(i, "waiting")
  /\ UNCHANGED <<chainVars, fileVars, challenges, running, last>>

(* The runner says on its output that it waits for the word. *)
LogWaiting(i) ==
  /\ At(i, "waiting") /\ chain[runs[i].draw] = "requested" /\ ~ runs[i].waited
  /\ runs' = [runs EXCEPT ![i].waited = TRUE]
  /\ UNCHANGED <<chainVars, fileVars, challenges, running, last>>

WordSeen(i) ==
  /\ At(i, "waiting") /\ chain[runs[i].draw] \in {"answered", "revealed"}
  /\ Go(i, IF chain[runs[i].draw] = "revealed" THEN "revealed" ELSE "answered")
  /\ UNCHANGED <<chainVars, fileVars, challenges, running, last>>

SendReveal(i) ==
  /\ At(i, "answered")
  /\ Go(i, "revealing")
  /\ mempool' = mempool \cup {<<"reveal", runs[i].draw>>}
  /\ UNCHANGED <<chain, fileVars, challenges, running, last>>

Revealed(i) ==
  /\ At(i, "revealing") /\ chain[runs[i].draw] = "revealed"
  /\ Go(i, "revealed")
  /\ UNCHANGED <<chainVars, fileVars, challenges, running, last>>

(* The winners file first, then the history file, named by the round.      *)
WriteWinners(i) ==
  /\ At(i, "revealed")
  /\ winners' = Snapshot(runs[i].draw, "revealed")
  /\ Go(i, "published")
  /\ UNCHANGED <<chainVars, finals, locked, history, challenges, running, last>>

WriteHistory(i) ==
  /\ At(i, "published")
  /\ history' = [history EXCEPT ![runs[i].draw.round] = Snapshot(runs[i].draw, "revealed")]
  /\ Settle(i, "done")
  /\ UNCHANGED <<chainVars, finals, locked, winners, challenges, last>>

(* A request to a node fails, a transaction reverts, the word does not     *)
(* come in time: the process exits with an error.                          *)
RunFails(i) ==
  /\ i \in DOMAIN runs /\ runs[i].pc \in Open
  /\ Settle(i, "failed")
  /\ UNCHANGED <<chainVars, fileVars, challenges, last>>

(* The server's timer: SIGTERM, and the flag is free at once. *)
RunTimesOut(i) ==
  /\ i \in DOMAIN runs /\ runs[i].pc \in Open
  /\ runs' = [runs EXCEPT ![i].pc = "failed", ![i].late = TRUE]
  /\ running' = FALSE
  /\ UNCHANGED <<chainVars, fileVars, challenges, last>>

RunSteps(i) ==
  \/ BuildLedger(i) \/ VerifyRun(i) \/ Resume(i) \/ Requested(i) \/ LogWaiting(i)
  \/ WordSeen(i) \/ SendReveal(i) \/ Revealed(i) \/ WriteWinners(i) \/ WriteHistory(i)
  \/ RunFails(i) \/ RunTimesOut(i)

-----------------------------------------------------------------------------
(* Around it. *)

(* A sent transaction is mined whether or not its process still lives; one *)
(* that comes too late reverts.                                            *)
Mine(tx) ==
  /\ mempool' = mempool \ {tx}
  /\ chain' = [chain EXCEPT ![tx[2]] =
       CASE tx[1] = "request" /\ @ = "none" -> "requested"
         [] tx[1] = "reveal" /\ @ = "answered" -> "revealed"
         [] OTHER -> @]
  /\ UNCHANGED <<fileVars, serverVars>>

Answer(d) ==
  /\ chain[d] = "requested"
  /\ chain' = [chain EXCEPT ![d] = "answered"]
  /\ UNCHANGED <<mempool, fileVars, serverVars>>

(* A results sync: rounds become complete, and a failed request takes a    *)
(* winner away again.                                                      *)
SyncFinals ==
  /\ finals' \in SUBSET Rounds /\ finals' # finals
  /\ UNCHANGED <<chainVars, locked, winners, history, serverVars>>

(* The container restarts: challenges, flag and last run are in memory.    *)
ServerRestarts ==
  /\ challenges' = [n \in DOMAIN challenges |-> [challenges[n] EXCEPT !.state = "gone"]]
  /\ runs' = [i \in DOMAIN runs |->
                IF runs[i].pc \in Open THEN [runs[i] EXCEPT !.pc = "killed"] ELSE runs[i]]
  /\ running' = FALSE
  /\ last' = 0
  /\ UNCHANGED <<chainVars, fileVars>>

(* A client of the API other than the page, with the wallet of an operator. *)
ApiCall(action, d) ==
  \/ CreateChallenge(action, d)
  \/ \E n \in 1..MaxNonces : StartRun(n, action, d) \/ RefuseRun(n, action, d)

WorldSteps ==
  \/ \E n \in DOMAIN challenges : ChallengeExpires(n)
  \/ \E i \in DOMAIN runs : RunSteps(i)
  \/ \E tx \in mempool : Mine(tx)
  \/ \E d \in Draws : Answer(d)

=============================================================================
