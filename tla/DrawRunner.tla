----------------------------- MODULE DrawRunner -----------------------------
(***************************************************************************)
(* The programs that carry a round through its draw: runners (children of  *)
(* the draw-admin API or started from a shell) that read the match draw    *)
(* ledger once, look at the chain, send the calls that are still missing,  *)
(* and write the winners snapshot.  A runner can be killed anywhere (the   *)
(* API's timeout, a lost RPC connection); the transaction it has sent is   *)
(* then still on its way.  All runners sign with the same wallet, so       *)
(* transactions land in the order they were sent.  The contract is one     *)
(* round of RoundDraw seen from outside: phase, ledger, word, revealed.    *)
(***************************************************************************)
EXTENDS Naturals, Sequences, FiniteSets

CONSTANTS
  Runners,      \* the processes that may run the script
  Modes,        \* subset of {"broadcast", "verify", "record"}
  Ledgers,      \* the successive contents of the round's ledger file, by number
  Matches,      \* the matches of the round
  Words,        \* the random words
  BatchSize,    \* --match-batch-size
  MaxKills      \* bound: how many runners are killed half-way

ASSUME RunnerAssumption ==
  /\ Modes \subseteq {"broadcast", "verify", "record"}
  /\ Ledgers \subseteq Nat \ {0}
  /\ BatchSize \in Nat \ {0}
  /\ IsFiniteSet(Matches) /\ Matches # {}
  /\ MaxKills \in Nat
  /\ 0 \notin Runners

VARIABLES
  file,        \* the ledger file's content for the round, 0 while there is none
  phase,       \* the contract's state of the round, named as in FairDraw
  ledger,      \* the ledger hash the contract holds, 0 for none
  word,        \* the word of the round, 0 for none
  revealed,    \* the matches revealed so far
  mempool,     \* the transactions sent and not yet mined, oldest first
  run,         \* per runner, where it is and what it remembers
  snapshot,    \* the winners file, NoSnapshot while there is none
  kills        \* how many runners were killed

chainVars == <<phase, ledger, word, revealed>>
vars == <<file, chainVars, mempool, run, snapshot, kills>>

Nobody == 0
NoSnapshot == [ledger |-> 0]

Idle ==
  [pc |-> "idle", mode |-> "verify", ledger |-> 0, status |-> "open",
   scanned |-> {}, todo |-> {}, seen |-> {}, drew |-> <<0, 0>>]

Init ==
  /\ file = 0
  /\ phase = "open" /\ ledger = 0 /\ word = 0 /\ revealed = {}
  /\ mempool = <<>>
  /\ run = [p \in Runners |-> Idle]
  /\ snapshot = NoSnapshot
  /\ kills = 0

-----------------------------------------------------------------------------
(* Moves of a runner. *)

At(p, pc) == run[p].pc = pc

Goto(p, pc) == run' = [run EXCEPT ![p].pc = pc]

(* The process ends: it is done, or an error reached the top level. *)
End(p) == run' = [run EXCEPT ![p] = Idle]

(* readRoundDrawStatus: the runner knows the phase as of now. *)
Read(p, pc) ==
  run' = [run EXCEPT ![p] = [run[p] EXCEPT !.pc = pc, !.status = phase,
                                            !.scanned = {}, !.todo = {}]]

(* The ledger file is read once, before anything else. *)
Start(p, mode) ==
  /\ At(p, "idle")
  /\ file # 0
  /\ run' = [run EXCEPT ![p] = [Idle EXCEPT !.pc = "status", !.mode = mode, !.ledger = file]]
  /\ UNCHANGED <<file, chainVars, mempool, snapshot, kills>>

(* Mutant of OwnLedger: the ledger hash of the contract is not compared. *)
OwnLedgerUnchecked(p) == TRUE

(* The hash comparison before anything is sent and after finalizing. *)
OwnLedger(p) == phase = "open" \/ ledger = run[p].ledger

(* Mutant of RefuseLedger: a run that gives up leaves a partial snapshot. *)
RefuseLedgerAndWrite(p) ==
  /\ At(p, "status")
  /\ ~OwnLedger(p)
  /\ snapshot' = [ledger |-> ledger, mode |-> run[p].mode, fulfilled |-> FALSE,
                  drew |-> <<word, ledger>>, winners |-> {}]
  /\ End(p)
  /\ UNCHANGED <<file, chainVars, mempool, kills>>

RefuseLedger(p) ==
  /\ At(p, "status")
  /\ ~OwnLedger(p)
  /\ End(p)
  /\ UNCHANGED <<file, chainVars, mempool, snapshot, kills>>

(* Mutant of NextStep: a run does not resume a draw whose word is there. *)
NextStepUnresumed(mode, status) ==
  CASE mode = "broadcast" /\ status = "open"   -> "finalize"
    [] mode = "broadcast" /\ status = "ready"  -> "request"
    [] mode = "broadcast" /\ status = "sealed" -> "await"
    [] status = "complete"                     -> "winners"
    [] OTHER                                   -> "report"

(* A run without --broadcast only looks; the others do the first thing missing. *)
NextStep(mode, status) ==
  CASE mode = "broadcast" /\ status = "open"   -> "finalize"
    [] mode = "broadcast" /\ status = "ready"  -> "request"
    [] mode = "broadcast" /\ status = "sealed" -> "await"
    [] mode = "broadcast" /\ status = "drawn"  -> "scan"
    [] mode # "broadcast" /\ status = "drawn"  -> "winners"
    [] status = "complete"                     -> "winners"
    [] OTHER                                   -> "report"

ReadStatus(p) ==
  /\ At(p, "status")
  /\ OwnLedger(p)
  /\ Read(p, NextStep(run[p].mode, phase))
  /\ UNCHANGED <<file, chainVars, mempool, snapshot, kills>>

(* There is nothing to show yet. *)
Report(p) ==
  /\ At(p, "report")
  /\ End(p)
  /\ UNCHANGED <<file, chainVars, mempool, snapshot, kills>>

-----------------------------------------------------------------------------
(* Transactions. *)

(* Mutant of MayFinalize: a ledger may still be replaced after the request. *)
MayFinalizeLate == phase \in {"open", "ready", "sealed"}

(* The contract's guards. *)
MayFinalize == phase \in {"open", "ready"}
MayRequest == phase = "ready"
MayReveal(batch) == phase = "drawn" /\ batch \cap revealed = {}

(* As an estimate meets them before a call is sent, and mining later. *)
Accepted(tx) ==
  \/ tx.call = "finalize" /\ MayFinalize
  \/ tx.call = "request" /\ MayRequest
  \/ tx.call = "reveal" /\ MayReveal(tx.batch)

(* A call that would revert now fails before it is sent. *)
Send(p, call, batch, waiting) ==
  LET tx == [call |-> call, by |-> p, ledger |-> run[p].ledger, batch |-> batch]
  IN  /\ \/ Accepted(tx) /\ mempool' = Append(mempool, tx) /\ Goto(p, waiting)
         \/ ~Accepted(tx) /\ End(p) /\ UNCHANGED mempool
      /\ UNCHANGED <<file, chainVars, snapshot, kills>>

SendFinalize(p) == At(p, "finalize") /\ Send(p, "finalize", {}, "waitFinalize")

SendRequest(p) == At(p, "request") /\ Send(p, "request", {}, "waitRequest")

(* The first BatchSize of the matches found unrevealed; the order is left out. *)
SendReveal(p) ==
  /\ At(p, "reveal")
  /\ \E batch \in SUBSET run[p].todo :
       /\ Cardinality(batch) = IF Cardinality(run[p].todo) < BatchSize
                               THEN Cardinality(run[p].todo) ELSE BatchSize
       /\ Send(p, "reveal", batch, "waitReveal")

(* tx.wait() of the runner that sent it, if it still runs. *)
Wake(tx, next) ==
  run' = IF tx.by \in Runners THEN [run EXCEPT ![tx.by].pc = next] ELSE run

LandFinalize(tx) ==
  /\ tx.call = "finalize"
  /\ phase' = "ready" /\ ledger' = tx.ledger
  /\ Wake(tx, "status")
  /\ UNCHANGED <<word, revealed>>

LandRequest(tx) ==
  /\ tx.call = "request"
  /\ phase' = "sealed"
  /\ Wake(tx, "asked")
  /\ UNCHANGED <<ledger, word, revealed>>

LandReveal(tx) ==
  /\ tx.call = "reveal"
  /\ revealed' = revealed \cup tx.batch
  /\ phase' = IF revealed' = Matches THEN "complete" ELSE "drawn"
  /\ Wake(tx, "revealed")
  /\ UNCHANGED <<ledger, word>>

Revert(tx) ==
  /\ run' = IF tx.by \in Runners THEN [run EXCEPT ![tx.by] = Idle] ELSE run
  /\ UNCHANGED chainVars

(* Mutant of Mine: transactions land in any order. *)
MineAny ==
  \E i \in DOMAIN mempool :
    LET tx == mempool[i]
    IN  /\ mempool' = SubSeq(mempool, 1, i - 1) \o SubSeq(mempool, i + 1, Len(mempool))
        /\ IF Accepted(tx)
           THEN LandFinalize(tx) \/ LandRequest(tx) \/ LandReveal(tx)
           ELSE Revert(tx)
        /\ UNCHANGED <<file, snapshot, kills>>

(* The wallet's oldest transaction is mined: it takes effect or reverts. *)
Mine ==
  /\ mempool # <<>>
  /\ LET tx == Head(mempool)
     IN  IF Accepted(tx)
         THEN LandFinalize(tx) \/ LandRequest(tx) \/ LandReveal(tx)
         ELSE Revert(tx)
  /\ mempool' = Tail(mempool)
  /\ UNCHANGED <<file, snapshot, kills>>

(* The VRF callback. *)
Answer ==
  /\ phase = "sealed"
  /\ phase' = "drawn"
  /\ word' \in Words
  /\ UNCHANGED <<file, ledger, revealed, mempool, run, snapshot, kills>>

-----------------------------------------------------------------------------
(* After the request. *)

(* The status read once the request is mined: the ledger is not compared. *)
ReadAfterRequest(p) ==
  /\ At(p, "asked")
  /\ Read(p, IF phase = "drawn" THEN "scan" ELSE IF phase = "complete" THEN "winners" ELSE "await")
  /\ UNCHANGED <<file, chainVars, mempool, snapshot, kills>>

(* waitForRoundRandomnessReady: a poll that succeeds, or the time-out. *)
Await(p) ==
  /\ At(p, "await")
  /\ \/ phase \in {"drawn", "complete"} /\ Read(p, IF phase = "drawn" THEN "scan" ELSE "winners")
     \/ End(p)
  /\ UNCHANGED <<file, chainVars, mempool, snapshot, kills>>

(* One match is asked about; other runners' reveals may land in between. *)
ScanMatch(p, m) ==
  /\ At(p, "scan")
  /\ m \in Matches \ run[p].scanned
  /\ run' = [run EXCEPT ![p].scanned = @ \cup {m},
                        ![p].todo = IF m \in revealed THEN @ ELSE @ \cup {m}]
  /\ UNCHANGED <<file, chainVars, mempool, snapshot, kills>>

(* Mutant of Scanned: the loop is left before every match was asked about. *)
ScannedEarly(p) ==
  /\ At(p, "scan")
  /\ run[p].scanned # {}
  /\ Goto(p, IF run[p].todo = {} THEN "winners" ELSE "reveal")
  /\ UNCHANGED <<file, chainVars, mempool, snapshot, kills>>

(* Nothing left to reveal leaves the loop, with the status read before the scan. *)
Scanned(p) ==
  /\ At(p, "scan")
  /\ run[p].scanned = Matches
  /\ Goto(p, IF run[p].todo = {} THEN "winners" ELSE "reveal")
  /\ UNCHANGED <<file, chainVars, mempool, snapshot, kills>>

ReadAfterReveal(p) ==
  /\ At(p, "revealed")
  /\ Read(p, IF phase = "complete" THEN "winners" ELSE "scan")
  /\ UNCHANGED <<file, chainVars, mempool, snapshot, kills>>

(* readRoundWinners: the tickets of the revealed matches, which the contract
   derived from its word and its ledger. *)
ReadWinners(p) ==
  /\ At(p, "winners")
  /\ IF run[p].mode = "verify"
     THEN End(p)
     ELSE run' = [run EXCEPT ![p].pc = "write", ![p].seen = revealed,
                             ![p].drew = <<word, ledger>>]
  /\ UNCHANGED <<file, chainVars, mempool, snapshot, kills>>

(* Mutant of SnapshotOf: a snapshot always says it is complete. *)
SnapshotOfAlways(r) ==
  [ledger |-> r.ledger, mode |-> r.mode, fulfilled |-> TRUE,
   drew |-> r.drew, winners |-> r.seen]

(* buildRoundWinnersSnapshot: tickets are looked up in the runner's ledger. *)
SnapshotOf(r) ==
  [ledger |-> r.ledger, mode |-> r.mode, fulfilled |-> r.status = "complete",
   drew |-> r.drew, winners |-> r.seen]

WriteSnapshot(p) ==
  /\ At(p, "write")
  /\ snapshot' = SnapshotOf(run[p])
  /\ End(p)
  /\ UNCHANGED <<file, chainVars, mempool, kills>>

-----------------------------------------------------------------------------
(* Around the runners. *)

(* A ledger build, the first or a replacement; it shares the runners' flag. *)
WriteLedger(l) ==
  /\ \A p \in Runners : At(p, "idle")
  /\ l > file
  /\ file' = l
  /\ UNCHANGED <<chainVars, mempool, run, snapshot, kills>>

(* A run dies; what it has sent stays in the mempool. *)
Kill(p) ==
  /\ ~At(p, "idle")
  /\ kills < MaxKills
  /\ kills' = kills + 1
  /\ mempool' = [i \in DOMAIN mempool |->
                   IF mempool[i].by = p THEN [mempool[i] EXCEPT !.by = Nobody] ELSE mempool[i]]
  /\ End(p)
  /\ UNCHANGED <<file, chainVars, snapshot>>

Step(p) ==
  \/ RefuseLedger(p) \/ ReadStatus(p) \/ Report(p)
  \/ SendFinalize(p) \/ SendRequest(p) \/ SendReveal(p)
  \/ ReadAfterRequest(p) \/ Await(p)
  \/ \E m \in Matches : ScanMatch(p, m)
  \/ Scanned(p) \/ ReadAfterReveal(p) \/ ReadWinners(p) \/ WriteSnapshot(p)

Next ==
  \/ \E p \in Runners : (\E mode \in Modes : Start(p, mode)) \/ Step(p) \/ Kill(p)
  \/ Mine
  \/ Answer
  \/ \E l \in Ledgers : WriteLedger(l)

Spec == Init /\ [][Next]_vars

(* Transactions are mined, requests answered, and somebody keeps p running the
   script, which runs on unless it is killed. *)
Fairness(p) ==
  /\ WF_vars(Mine) /\ WF_vars(Answer)
  /\ WF_vars(Step(p)) /\ WF_vars(Start(p, "broadcast"))
  /\ WF_vars(\E l \in Ledgers : WriteLedger(l) /\ file = 0)

-----------------------------------------------------------------------------
(* Properties. *)

RunState ==
  [pc : {"idle", "status", "report", "finalize", "waitFinalize", "request",
         "waitRequest", "asked", "await", "scan", "reveal", "waitReveal",
         "revealed", "winners", "write"},
   mode : {"broadcast", "verify", "record"}, ledger : Nat,
   status : {"open", "ready", "sealed", "drawn", "complete"},
   scanned : SUBSET Matches, todo : SUBSET Matches, seen : SUBSET Matches,
   drew : (Words \cup {0}) \X Nat]

Transaction ==
  [call : {"finalize", "request", "reveal"}, by : Runners \cup {Nobody},
   ledger : Nat, batch : SUBSET Matches]

(* The values every variable keeps; what a runner still has to reveal is
   among the matches it has asked about since it last read the status. *)
TypeOK ==
  /\ file \in Nat /\ ledger \in Nat
  /\ phase \in {"open", "ready", "sealed", "drawn", "complete"}
  /\ word \in Words \cup {0} /\ revealed \subseteq Matches
  /\ mempool \in Seq(Transaction)
  /\ run \in [Runners -> RunState]
  /\ \A p \in Runners : run[p].todo \subseteq run[p].scanned
  /\ kills \in 0..MaxKills

(* Whatever runs were killed, retried or overtaken by transactions of earlier
   runs, the winners file names the ledger the contract drew from, and its
   tickets are those of the round's only word: a runner never maps the tickets
   of one ledger onto the owners of another. *)
SnapshotTellsTheDraw ==
  snapshot # NoSnapshot =>
    /\ snapshot.ledger = ledger
    /\ snapshot.drew = <<word, ledger>>
    /\ snapshot.winners \subseteq revealed

(* A winners file written by a broadcasting runner, or one labelled revealed,
   lists every match of the round, although the runner left its loop on a
   count of its own or on a status that was already stale. *)
SnapshotIsComplete ==
  snapshot # NoSnapshot /\ (snapshot.fulfilled \/ snapshot.mode = "broadcast")
    => snapshot.winners = Matches

(* What the runners, late transactions and the coordinator make of the round
   is a draw in the sense of FairDraw. *)
Fair == INSTANCE FairDraw WITH
  Draws <- {"round"}, NoLedger <- 0, NoWord <- 0,
  IsLedger <- LAMBDA l : l \in Ledgers,
  Items <- LAMBDA l : Matches,
  Outcome <- LAMBDA w, d, m, l : <<w, m, l>>,
  phase <- [d \in {"round"} |-> phase],
  ledger <- [d \in {"round"} |-> ledger],
  word <- [d \in {"round"} |-> word],
  published <- [d \in {"round"} |-> [m \in revealed |-> <<word, m, ledger>>]]

RoundStaysFair == Fair!Spec

=============================================================================
