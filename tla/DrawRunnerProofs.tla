-------------------------- MODULE DrawRunnerProofs --------------------------
(***************************************************************************)
(* The winners file tells the draw, for any number of runners, ledgers,    *)
(* matches, kills and any batch size.                                      *)
(*                                                                         *)
(* The argument: ledger versions only grow, and the wallet's transactions  *)
(* land in the order they were sent.  So the versions in the mempool are   *)
(* ordered and none is older than the contract's.  A runner that has seen  *)
(* its own ledger, the newest, in the contract therefore has only that     *)
(* version ahead of it: no transaction of a killed run can replace it.     *)
(***************************************************************************)
EXTENDS MCDrawRunner, FiniteSetTheorems, SequenceTheorems, TLAPS

(* Where a runner has compared the contract's ledger with its own. *)
PastCheck ==
  {"request", "waitRequest", "asked", "await", "scan", "reveal", "waitReveal",
   "revealed", "winners", "write"}

(* Where a runner has seen the word. *)
PastWord == {"scan", "reveal", "waitReveal", "revealed", "winners", "write"}

Waits == {"waitFinalize", "waitRequest", "waitReveal"}

WaitOf(call) ==
  CASE call = "finalize" -> "waitFinalize"
    [] call = "request" -> "waitRequest"
    [] call = "reveal" -> "waitReveal"

(* The run will claim to have seen every match. *)
Whole(r) == r.mode = "broadcast" \/ r.status = "complete"

(* What a runner remembers is right, or was and stays so. *)
RunOK(r) ==
  /\ r.pc # "idle" => r.ledger = file
  /\ r.pc \in PastCheck => ledger = file
  /\ r.pc \in PastWord => phase \in {"drawn", "complete"}
  /\ r.status = "complete" => phase = "complete"
  /\ r.scanned \ r.todo \subseteq revealed
  /\ r.pc = "winners" /\ Whole(r) => phase = "complete"
  /\ r.pc = "write" =>
       /\ r.drew = <<word, ledger>>
       /\ r.seen \subseteq revealed
       /\ Whole(r) => r.seen = Matches

PhaseOK ==
  /\ phase \in {"open", "ready", "sealed"} => revealed = {}
  /\ phase = "drawn" => revealed # Matches
  /\ phase = "complete" => revealed = Matches

(* A pending transaction belongs to a runner that waits for it, or to nobody. *)
PendingOK ==
  /\ \A i \in 1..Len(mempool) :
       mempool[i].by \in Runners => run[mempool[i].by].pc = WaitOf(mempool[i].call)
  /\ \A i, j \in 1..Len(mempool) :
       mempool[i].by \in Runners /\ mempool[i].by = mempool[j].by => i = j

VersionsOK ==
  /\ ledger <= file
  /\ \A i \in 1..Len(mempool) :
       mempool[i].call = "finalize" => ledger <= mempool[i].ledger /\ mempool[i].ledger <= file
  /\ \A i, j \in 1..Len(mempool) :
       i < j /\ mempool[i].call = "finalize" /\ mempool[j].call = "finalize"
         => mempool[i].ledger <= mempool[j].ledger

SnapshotOK ==
  snapshot # NoSnapshot =>
    /\ phase \in {"drawn", "complete"}
    /\ SnapshotTellsTheDraw
    /\ SnapshotIsComplete

RunnerInv ==
  /\ TypeOK /\ PhaseOK /\ PendingOK /\ VersionsOK /\ SnapshotOK
  /\ \A p \in Runners : RunOK(run[p])

-----------------------------------------------------------------------------

(* The initial state. *)
LEMMA InitRunnerInv == Init => RunnerInv
  <1> SUFFICES ASSUME Init PROVE RunnerInv
    OBVIOUS
  <1> USE RunnerAssumption DEF Init
  <1>1. TypeOK
    <2>1. Idle \in RunState
      BY DEF Idle, RunState
    <2>2. run \in [Runners -> RunState]
      BY <2>1
    <2>3. mempool \in Seq(Transaction)
      OBVIOUS
    <2> QED
      BY <2>2, <2>3 DEF TypeOK, Idle
  <1>2. PhaseOK /\ PendingOK /\ VersionsOK /\ SnapshotOK
    BY DEF PhaseOK, PendingOK, VersionsOK, SnapshotOK
  <1>3. \A p \in Runners : RunOK(run[p])
    BY DEF RunOK, Idle, PastCheck, PastWord, Whole
  <1> QED
    BY <1>1, <1>2, <1>3 DEF RunnerInv

(* A runner that waits for no transaction does something on its own. *)
LEMMA RunnerMoves ==
  ASSUME RunnerInv, NEW p \in Runners, NEW r \in RunState,
         r.todo \subseteq r.scanned, RunOK(r), run[p].pc \notin Waits,
         run' = [run EXCEPT ![p] = r],
         UNCHANGED <<file, chainVars, mempool, snapshot, kills>>
  PROVE  RunnerInv'
  <1> USE DEF chainVars
  <1>1. TypeOK'
    BY DEF RunnerInv, TypeOK
  <1>2. PhaseOK' /\ VersionsOK'
    BY DEF RunnerInv, PhaseOK, VersionsOK
  <1>3. SnapshotOK'
    BY DEF RunnerInv, SnapshotOK, SnapshotTellsTheDraw, SnapshotIsComplete
  <1>4. PendingOK'
    <2>1. SUFFICES ASSUME NEW i \in 1..Len(mempool), mempool[i].by \in Runners
                   PROVE  run'[mempool[i].by].pc = WaitOf(mempool[i].call)
      BY DEF RunnerInv, PendingOK
    <2>2. mempool[i] \in Transaction
      BY DEF RunnerInv, TypeOK
    <2>3. WaitOf(mempool[i].call) \in Waits
      BY <2>2 DEF Transaction, WaitOf, Waits
    <2>4. run[mempool[i].by].pc = WaitOf(mempool[i].call)
      BY <2>1 DEF RunnerInv, PendingOK
    <2> QED
      BY <2>1, <2>3, <2>4 DEF RunnerInv, TypeOK
  <1>5. \A q \in Runners : RunOK(run[q])'
    BY DEF RunnerInv, TypeOK, RunOK, Whole
  <1> QED
    BY <1>1, <1>2, <1>3, <1>4, <1>5 DEF RunnerInv

LEMMA IdleOK == RunnerInv => Idle \in RunState /\ RunOK(Idle) /\ Idle.todo \subseteq Idle.scanned
  BY DEF Idle, RunState, RunOK, PastCheck, PastWord, Whole

-----------------------------------------------------------------------------
(* The steps of a runner that send nothing. *)

LEMMA EndKeeps ==
  ASSUME RunnerInv, NEW p \in Runners, End(p), run[p].pc \notin Waits,
         UNCHANGED <<file, chainVars, mempool, snapshot, kills>>
  PROVE  RunnerInv'
  BY IdleOK, RunnerMoves DEF End

LEMMA StartKeeps ==
  ASSUME RunnerInv, NEW p \in Runners, NEW mode \in Modes, Start(p, mode)
  PROVE  RunnerInv'
  <1> DEFINE r == [Idle EXCEPT !.pc = "status", !.mode = mode, !.ledger = file]
  <1>1. r \in RunState /\ r.todo \subseteq r.scanned
    BY RunnerAssumption DEF RunnerInv, TypeOK, Idle, RunState
  <1>2. RunOK(r)
    BY DEF RunOK, Idle, PastCheck, PastWord, Whole
  <1>3. run[p].pc \notin Waits
    BY DEF Start, At, Waits
  <1> QED
    BY <1>1, <1>2, <1>3, RunnerMoves DEF Start

(* A status read: the runner knows the phase and has to scan afresh. *)
LEMMA ReadKeeps ==
  ASSUME RunnerInv, NEW p \in Runners, NEW pc, Read(p, pc),
         run[p].pc \in {"status", "asked", "await", "revealed"},
         pc \in {"report", "finalize", "request", "await", "scan", "winners"},
         pc \in PastCheck => ledger = file,
         pc \in PastWord => phase \in {"drawn", "complete"},
         pc = "winners" => run[p].mode # "broadcast" \/ phase = "complete",
         UNCHANGED <<file, chainVars, mempool, snapshot, kills>>
  PROVE  RunnerInv'
  <1> DEFINE r == [run[p] EXCEPT !.pc = pc, !.status = phase, !.scanned = {}, !.todo = {}]
  <1>1. run[p] \in RunState
    BY DEF RunnerInv, TypeOK
  <1>2. r \in RunState /\ r.todo \subseteq r.scanned
    BY <1>1 DEF RunnerInv, TypeOK, RunState
  <1>3. RunOK(r)
    <2>1. run[p].ledger = file
      BY DEF RunnerInv, RunOK
    <2> QED
      BY <1>1, <2>1 DEF RunOK, Whole, RunState
  <1> QED
    BY <1>2, <1>3, RunnerMoves DEF Read, Waits

LEMMA ReadStatusKeeps ==
  ASSUME RunnerInv, NEW p \in Runners, ReadStatus(p)
  PROVE  RunnerInv'
  <1> DEFINE pc == NextStep(run[p].mode, phase)
  <1>1. phase \in {"open", "ready", "sealed", "drawn", "complete"} /\ run[p].ledger = file
    BY DEF RunnerInv, TypeOK, RunOK, ReadStatus, At
  <1>2. /\ pc \in {"report", "finalize", "request", "await", "scan", "winners"}
        /\ pc \in {"request", "await", "scan", "winners"} => phase # "open"
        /\ pc \in {"scan", "winners"} => phase \in {"drawn", "complete"}
        /\ pc = "winners" => run[p].mode # "broadcast" \/ phase = "complete"
    BY <1>1 DEF NextStep
  <1>3. pc \in PastCheck => ledger = file
    BY <1>1, <1>2 DEF PastCheck, ReadStatus, OwnLedger
  <1>4. pc \in PastWord => phase \in {"drawn", "complete"}
    BY <1>2 DEF PastWord
  <1> QED
    BY <1>2, <1>3, <1>4, ReadKeeps DEF ReadStatus, At

LEMMA LaterReadsKeep ==
  ASSUME RunnerInv, NEW p \in Runners,
         ReadAfterRequest(p) \/ ReadAfterReveal(p) \/ Await(p)
  PROVE  RunnerInv'
  <1>1. run[p].pc \in {"asked", "revealed", "await"} /\ phase \in {"open", "ready", "sealed", "drawn", "complete"}
    BY DEF ReadAfterRequest, ReadAfterReveal, Await, At, RunnerInv, TypeOK
  <1>2. /\ run[p].pc \in {"asked", "revealed", "await"} => ledger = file
        /\ run[p].pc = "revealed" => phase \in {"drawn", "complete"}
    BY DEF RunnerInv, RunOK, PastCheck, PastWord
  <1>3. CASE Await(p) /\ End(p)
    BY <1>1, <1>3, EndKeeps DEF Await, Waits
  <1>4. CASE ReadAfterRequest(p)
    BY <1>1, <1>2, <1>4, ReadKeeps DEF ReadAfterRequest, PastCheck, PastWord
  <1>5. CASE ReadAfterReveal(p)
    <2>1. phase \in {"drawn", "complete"}
      BY <1>2, <1>5 DEF ReadAfterReveal, At
    <2> QED
      BY <1>1, <1>2, <1>5, <2>1, ReadKeeps DEF ReadAfterReveal, PastCheck, PastWord
  <1>6. CASE Await(p) /\ ~End(p)
    BY <1>1, <1>2, <1>6, ReadKeeps DEF Await, PastCheck, PastWord
  <1> QED
    BY <1>3, <1>4, <1>5, <1>6

LEMMA ScanKeeps ==
  ASSUME RunnerInv, NEW p \in Runners,
         (\E m \in Matches : ScanMatch(p, m)) \/ Scanned(p)
  PROVE  RunnerInv'
  <1>1. run[p] \in RunState /\ run[p].pc = "scan" /\ run[p].todo \subseteq run[p].scanned
    BY DEF RunnerInv, TypeOK, ScanMatch, Scanned, At
  <1>2. /\ run[p].ledger = file /\ ledger = file /\ phase \in {"drawn", "complete"}
        /\ run[p].status = "complete" => phase = "complete"
        /\ run[p].scanned \ run[p].todo \subseteq revealed
    BY <1>1 DEF RunnerInv, RunOK, PastCheck, PastWord
  <1>3. ASSUME NEW m \in Matches, ScanMatch(p, m) PROVE RunnerInv'
    <2> DEFINE r == [run[p] EXCEPT !.scanned = @ \cup {m},
                                   !.todo = IF m \in revealed THEN @ ELSE @ \cup {m}]
    <2>1. r \in RunState /\ r.todo \subseteq r.scanned /\ r.pc = "scan"
      BY <1>1 DEF RunState
    <2>2. RunOK(r)
      BY <1>1, <1>2 DEF RunOK, PastCheck, PastWord, Whole, RunState
    <2>3. run' = [run EXCEPT ![p] = r]
      BY <1>1, <1>3 DEF ScanMatch, RunnerInv, TypeOK, RunState
    <2> QED
      BY <1>1, <1>3, <2>1, <2>2, <2>3, RunnerMoves DEF ScanMatch, Waits
  <1>4. CASE Scanned(p)
    <2> DEFINE r == [run[p] EXCEPT !.pc = IF run[p].todo = {} THEN "winners" ELSE "reveal"]
    <2>1. r \in RunState /\ r.todo \subseteq r.scanned
      BY <1>1 DEF RunState
    <2>2. run[p].todo = {} => phase = "complete"
      BY <1>2, <1>4 DEF Scanned, RunnerInv, PhaseOK, TypeOK
    <2>3. RunOK(r)
      BY <1>1, <1>2, <2>2 DEF RunOK, PastCheck, PastWord, Whole, RunState
    <2>4. run' = [run EXCEPT ![p] = r]
      BY <1>4 DEF Scanned, Goto, RunnerInv, TypeOK
    <2> QED
      BY <1>1, <1>4, <2>1, <2>3, <2>4, RunnerMoves DEF Scanned, Waits
  <1> QED
    BY <1>3, <1>4

LEMMA ReadWinnersKeeps ==
  ASSUME RunnerInv, NEW p \in Runners, ReadWinners(p)
  PROVE  RunnerInv'
  <1>1. run[p] \in RunState /\ run[p].pc = "winners" /\ run[p].todo \subseteq run[p].scanned
    BY DEF RunnerInv, TypeOK, ReadWinners, At
  <1>2. CASE run[p].mode = "verify"
    BY <1>1, <1>2, EndKeeps DEF ReadWinners, Waits
  <1>3. CASE run[p].mode # "verify"
    <2> DEFINE r == [run[p] EXCEPT !.pc = "write", !.seen = revealed, !.drew = <<word, ledger>>]
    <2>1. r \in RunState /\ r.todo \subseteq r.scanned
      BY <1>1 DEF RunState, RunnerInv, TypeOK
    <2>2. RunOK(run[p])
      BY DEF RunnerInv
    <2>3. RunOK(r)
      BY <1>1, <2>2 DEF RunOK, PastCheck, PastWord, Whole, RunState, RunnerInv, PhaseOK
    <2>4. run' = [run EXCEPT ![p] = r]
      BY <1>3 DEF ReadWinners, RunnerInv, TypeOK
    <2> QED
      BY <1>1, <2>1, <2>3, <2>4, RunnerMoves DEF ReadWinners, Waits
  <1> QED
    BY <1>2, <1>3

LEMMA WriteSnapshotKeeps ==
  ASSUME RunnerInv, NEW p \in Runners, WriteSnapshot(p)
  PROVE  RunnerInv'
  <1> USE DEF WriteSnapshot, chainVars
  <1>1. run[p] \in RunState /\ run[p].pc = "write" /\ RunOK(run[p])
    BY DEF RunnerInv, TypeOK, At
  <1>2. SnapshotOK'
    BY <1>1 DEF SnapshotOf, SnapshotOK, SnapshotTellsTheDraw, SnapshotIsComplete,
                RunOK, PastCheck, PastWord, Whole, NoSnapshot
  <1>3. TypeOK'
    BY IdleOK DEF RunnerInv, TypeOK, End
  <1>4. PhaseOK' /\ VersionsOK'
    BY DEF RunnerInv, PhaseOK, VersionsOK
  <1>5. PendingOK'
    <2>1. SUFFICES ASSUME NEW i \in 1..Len(mempool), mempool[i].by \in Runners
                   PROVE  run'[mempool[i].by].pc = WaitOf(mempool[i].call)
      BY DEF RunnerInv, PendingOK
    <2>4. mempool[i] \in Transaction
      BY DEF RunnerInv, TypeOK
    <2>2. WaitOf(mempool[i].call) \in Waits
      BY <2>4 DEF Transaction, WaitOf, Waits
    <2>3. run[mempool[i].by].pc = WaitOf(mempool[i].call)
      BY <2>1 DEF RunnerInv, PendingOK
    <2> QED
      BY <1>1, <2>1, <2>2, <2>3 DEF RunnerInv, TypeOK, End, Waits
  <1>6. \A q \in Runners : RunOK(run[q])'
    BY IdleOK DEF RunnerInv, TypeOK, RunOK, Whole, End
  <1> QED
    BY <1>2, <1>3, <1>4, <1>5, <1>6 DEF RunnerInv

-----------------------------------------------------------------------------
(* The steps that change the mempool, the chain or the file. *)

(* A transaction is sent, behind everything the wallet has sent before. *)
LEMMA SendKeeps ==
  ASSUME RunnerInv, NEW p \in Runners,
         NEW call \in {"finalize", "request", "reveal"}, NEW batch \in SUBSET Matches,
         run[p].pc \notin Waits \cup {"idle"},
         call # "finalize" => ledger = file,
         call = "reveal" => phase \in {"drawn", "complete"},
         Send(p, call, batch, WaitOf(call))
  PROVE  RunnerInv'
  <1> DEFINE tx == [call |-> call, by |-> p, ledger |-> run[p].ledger, batch |-> batch]
             r == [run[p] EXCEPT !.pc = WaitOf(call)]
  <1> USE DEF chainVars
  <1>1. UNCHANGED <<file, chainVars, snapshot, kills>>
    BY DEF Send
  <1>2. run[p] \in RunState /\ RunOK(run[p]) /\ run[p].todo \subseteq run[p].scanned
    BY DEF RunnerInv, TypeOK
  <1>3. CASE ~Accepted(tx) /\ End(p) /\ UNCHANGED mempool
    BY <1>1, <1>3, EndKeeps
  <1>4. CASE Accepted(tx) /\ mempool' = Append(mempool, tx) /\ Goto(p, WaitOf(call))
    <2>1. tx \in Transaction /\ tx.ledger = file
      BY <1>2 DEF RunState, Transaction, RunOK
    <2>2. r \in RunState /\ r.todo \subseteq r.scanned
      BY <1>2 DEF RunState, WaitOf
    <2>3. RunOK(r)
      BY <1>2 DEF RunOK, RunState, WaitOf, PastCheck, PastWord, Whole
    <2>4. run' = [run EXCEPT ![p] = r]
      BY <1>4 DEF Goto, RunnerInv, TypeOK
    <2>5. /\ mempool' \in Seq(Transaction) /\ Len(mempool') = Len(mempool) + 1
          /\ \A i \in 1..Len(mempool) : mempool'[i] = mempool[i] /\ mempool[i] \in Transaction
          /\ mempool'[Len(mempool) + 1] = tx
          /\ Len(mempool) \in Nat
      BY <1>4, <2>1, AppendProperties DEF RunnerInv, TypeOK
    <2>6. TypeOK'
      BY <1>1, <2>2, <2>4, <2>5 DEF RunnerInv, TypeOK
    <2>7. VersionsOK'
      <3>1. ledger \in Nat /\ file \in Nat /\ ledger <= file
        BY DEF RunnerInv, TypeOK, VersionsOK
      <3>2. \A i \in 1..Len(mempool') : i \in 1..Len(mempool) \/ i = Len(mempool) + 1
        BY <2>5
      <3>3. \A i \in 1..Len(mempool) :
              mempool[i].call = "finalize" => ledger <= mempool[i].ledger /\ mempool[i].ledger <= file
        BY DEF RunnerInv, VersionsOK
      <3>4. \A i, j \in 1..Len(mempool) :
              i < j /\ mempool[i].call = "finalize" /\ mempool[j].call = "finalize"
                => mempool[i].ledger <= mempool[j].ledger
        BY DEF RunnerInv, VersionsOK
      <3>5. \A i \in 1..Len(mempool') :
              mempool'[i].call = "finalize" => ledger <= mempool'[i].ledger /\ mempool'[i].ledger <= file
        BY <2>1, <2>5, <3>1, <3>2, <3>3
      <3>6. \A i, j \in 1..Len(mempool') :
              i < j /\ mempool'[i].call = "finalize" /\ mempool'[j].call = "finalize"
                => mempool'[i].ledger <= mempool'[j].ledger
        <4> SUFFICES ASSUME NEW i \in 1..Len(mempool'), NEW j \in 1..Len(mempool'), i < j,
                            mempool'[i].call = "finalize", mempool'[j].call = "finalize"
                     PROVE  mempool'[i].ledger <= mempool'[j].ledger
          OBVIOUS
        <4>1. i \in 1..Len(mempool)
          BY <2>5
        <4>2. CASE j \in 1..Len(mempool)
          BY <2>5, <3>4, <4>1, <4>2
        <4>3. CASE j = Len(mempool) + 1
          BY <2>1, <2>5, <3>3, <4>1, <4>3
        <4> QED
          BY <3>2, <4>2, <4>3
      <3> QED
        BY <1>1, <3>1, <3>5, <3>6 DEF VersionsOK
    <2>8. PendingOK'
      <3>1. \A i \in 1..Len(mempool) : mempool[i].by # p
        BY <2>5 DEF RunnerInv, PendingOK, Transaction, WaitOf, Waits
      <3>2. \A i \in 1..Len(mempool') : i \in 1..Len(mempool) \/ i = Len(mempool) + 1
        BY <2>5
      <3>3. \A i \in 1..Len(mempool') :
              mempool'[i].by \in Runners => run'[mempool'[i].by].pc = WaitOf(mempool'[i].call)
        <4> SUFFICES ASSUME NEW i \in 1..Len(mempool'), mempool'[i].by \in Runners
                     PROVE  run'[mempool'[i].by].pc = WaitOf(mempool'[i].call)
          OBVIOUS
        <4>1. CASE i \in 1..Len(mempool)
          BY <2>4, <2>5, <3>1, <4>1 DEF RunnerInv, PendingOK, TypeOK
        <4>2. CASE i = Len(mempool) + 1
          BY <1>2, <2>4, <2>5, <4>2 DEF RunnerInv, TypeOK, RunState
        <4> QED
          BY <3>2, <4>1, <4>2
      <3>4. \A i, j \in 1..Len(mempool') :
              mempool'[i].by \in Runners /\ mempool'[i].by = mempool'[j].by => i = j
        BY <2>5, <3>1, <3>2 DEF RunnerInv, PendingOK
      <3> QED
        BY <3>3, <3>4 DEF PendingOK
    <2>9. PhaseOK' /\ SnapshotOK'
      BY <1>1 DEF RunnerInv, PhaseOK, SnapshotOK, SnapshotTellsTheDraw, SnapshotIsComplete
    <2>10. \A q \in Runners : RunOK(run[q])'
      BY <1>1, <2>3, <2>4 DEF RunnerInv, TypeOK, RunOK, Whole
    <2> QED
      BY <2>6, <2>7, <2>8, <2>9, <2>10 DEF RunnerInv
  <1> QED
    BY <1>3, <1>4 DEF Send

LEMMA SendsKeep ==
  ASSUME RunnerInv, NEW p \in Runners, SendFinalize(p) \/ SendRequest(p) \/ SendReveal(p)
  PROVE  RunnerInv'
  <1>1. run[p] \in RunState /\ RunOK(run[p])
    BY DEF RunnerInv, TypeOK
  <1>2. CASE SendFinalize(p)
    BY <1>1, <1>2, SendKeeps DEF SendFinalize, At, Waits, WaitOf
  <1>3. CASE SendRequest(p)
    BY <1>1, <1>3, SendKeeps DEF SendRequest, At, Waits, WaitOf, RunOK, PastCheck
  <1>4. CASE SendReveal(p)
    <2>1. PICK batch \in SUBSET run[p].todo : Send(p, "reveal", batch, "waitReveal")
      BY <1>4 DEF SendReveal
    <2>2. batch \in SUBSET Matches
      BY <1>1 DEF RunState
    <2>3. run[p].pc = "reveal" /\ ledger = file /\ phase \in {"drawn", "complete"}
      BY <1>1, <1>4 DEF SendReveal, At, RunOK, PastCheck, PastWord
    <2> QED
      BY <2>1, <2>2, <2>3, SendKeeps DEF Waits, WaitOf
  <1> QED
    BY <1>2, <1>3, <1>4

(* The VRF callback. *)
LEMMA AnswerKeeps == RunnerInv /\ Answer => RunnerInv'
  <1> SUFFICES ASSUME RunnerInv, Answer PROVE RunnerInv'
    OBVIOUS
  <1> USE DEF Answer
  <1>1. TypeOK' /\ PhaseOK' /\ PendingOK' /\ VersionsOK'
    BY RunnerAssumption DEF RunnerInv, TypeOK, PhaseOK, PendingOK, VersionsOK
  <1>2. SnapshotOK'
    BY DEF RunnerInv, SnapshotOK
  <1>3. \A q \in Runners : RunOK(run[q])'
    BY DEF RunnerInv, RunOK, Whole, PastWord
  <1> QED
    BY <1>1, <1>2, <1>3 DEF RunnerInv

(* A build of the ledger file, while no runner is up. *)
LEMMA WriteLedgerKeeps ==
  ASSUME RunnerInv, NEW l \in Ledgers, WriteLedger(l)
  PROVE  RunnerInv'
  <1> USE DEF WriteLedger, chainVars
  <1>1. TypeOK' /\ PhaseOK' /\ PendingOK'
    BY RunnerAssumption DEF RunnerInv, TypeOK, PhaseOK, PendingOK
  <1>2. SnapshotOK'
    BY DEF RunnerInv, SnapshotOK, SnapshotTellsTheDraw, SnapshotIsComplete
  <1>3. VersionsOK'
    <2>0. \A i \in 1..Len(mempool) : mempool[i] \in Transaction
      BY DEF RunnerInv, TypeOK
    <2>1. \A i \in 1..Len(mempool) : mempool[i].ledger \in Nat
      BY <2>0 DEF Transaction
    <2>2. l \in Nat /\ file \in Nat /\ ledger \in Nat
      BY RunnerAssumption DEF RunnerInv, TypeOK
    <2> QED
      BY <2>1, <2>2 DEF RunnerInv, VersionsOK
  <1>4. \A q \in Runners : RunOK(run[q])'
    BY DEF RunnerInv, RunOK, Whole, PastCheck, PastWord, At
  <1> QED
    BY <1>1, <1>2, <1>3, <1>4 DEF RunnerInv

(* A killed runner's transaction belongs to nobody from then on. *)
LEMMA KillKeeps ==
  ASSUME RunnerInv, NEW p \in Runners, Kill(p)
  PROVE  RunnerInv'
  <1> USE DEF Kill, chainVars
  <1>1. /\ mempool' \in Seq(Transaction) /\ Len(mempool') = Len(mempool)
        /\ \A i \in 1..Len(mempool) :
             /\ mempool'[i] \in Transaction /\ mempool'[i].by # p
             /\ mempool'[i].by \in Runners => mempool'[i] = mempool[i]
             /\ mempool'[i].call = mempool[i].call /\ mempool'[i].ledger = mempool[i].ledger
    <2>1. \A i \in 1..Len(mempool) : mempool[i] \in Transaction
      BY DEF RunnerInv, TypeOK
    <2>2. DOMAIN mempool = 1..Len(mempool) /\ Len(mempool) \in Nat
      BY DEF RunnerInv, TypeOK
    <2>3. \A i \in 1..Len(mempool) :
             /\ mempool'[i] \in Transaction /\ mempool'[i].by # p
             /\ mempool'[i].by \in Runners => mempool'[i] = mempool[i]
             /\ mempool'[i].call = mempool[i].call /\ mempool'[i].ledger = mempool[i].ledger
      BY <2>1, <2>2, RunnerAssumption DEF Transaction, Nobody
    <2>4. mempool' \in Seq(Transaction) /\ Len(mempool') = Len(mempool)
      BY <2>2, <2>3
    <2> QED
      BY <2>3, <2>4
  <1>2. TypeOK'
    BY <1>1, IdleOK, RunnerAssumption DEF RunnerInv, TypeOK, End
  <1>3. PhaseOK' /\ SnapshotOK'
    BY DEF RunnerInv, PhaseOK, SnapshotOK, SnapshotTellsTheDraw, SnapshotIsComplete
  <1>4. VersionsOK'
    BY <1>1 DEF RunnerInv, VersionsOK
  <1>5. PendingOK'
    <2>1. \A i \in 1..Len(mempool') :
            mempool'[i].by \in Runners => run'[mempool'[i].by].pc = WaitOf(mempool'[i].call)
      BY <1>1 DEF RunnerInv, TypeOK, PendingOK, End
    <2>2. \A i, j \in 1..Len(mempool') :
            mempool'[i].by \in Runners /\ mempool'[i].by = mempool'[j].by => i = j
      <3> SUFFICES ASSUME NEW i \in 1..Len(mempool), NEW j \in 1..Len(mempool),
                          mempool'[i].by \in Runners, mempool'[i].by = mempool'[j].by
                   PROVE  i = j
        BY <1>1
      <3>1. mempool'[i] = mempool[i] /\ mempool'[j] = mempool[j]
        BY <1>1
      <3> QED
        BY <3>1 DEF RunnerInv, PendingOK
    <2> QED
      BY <2>1, <2>2 DEF PendingOK
  <1>6. \A q \in Runners : RunOK(run[q])'
    BY IdleOK DEF RunnerInv, TypeOK, RunOK, Whole, End
  <1> QED
    BY <1>2, <1>3, <1>4, <1>5, <1>6 DEF RunnerInv

-----------------------------------------------------------------------------
(* A transaction is mined. *)

(* What is left in the mempool once the oldest transaction is taken out. *)
LEMMA MinedTail ==
  ASSUME RunnerInv, mempool # <<>>, mempool' = Tail(mempool)
  PROVE  /\ Head(mempool) \in Transaction /\ Head(mempool) = mempool[1]
         /\ mempool' \in Seq(Transaction) /\ Len(mempool) \in Nat
         /\ Len(mempool') = Len(mempool) - 1
         /\ 1 \in 1..Len(mempool)
         /\ \A i \in 1..Len(mempool') :
              mempool'[i] = mempool[i + 1] /\ i + 1 \in 1..Len(mempool) /\ i + 1 # 1
         /\ \A i \in 1..Len(mempool') : mempool'[i] \in Transaction
  BY HeadTailProperties DEF RunnerInv, TypeOK

(* The sender moves on to r; nobody else waits for this transaction. *)
LEMMA MinedPending ==
  ASSUME RunnerInv, mempool # <<>>, mempool' = Tail(mempool), NEW r,
         run' = IF Head(mempool).by \in Runners
                THEN [run EXCEPT ![Head(mempool).by] = r] ELSE run
  PROVE  PendingOK'
  <1>1. \A i \in 1..Len(mempool') : mempool'[i].by \in Runners => mempool'[i].by # Head(mempool).by
    BY MinedTail DEF RunnerInv, PendingOK
  <1>2. \A i \in 1..Len(mempool') :
          mempool'[i].by \in Runners => run'[mempool'[i].by].pc = WaitOf(mempool'[i].call)
    <2> SUFFICES ASSUME NEW i \in 1..Len(mempool'), mempool'[i].by \in Runners
                 PROVE  run'[mempool'[i].by].pc = WaitOf(mempool'[i].call)
      OBVIOUS
    <2>1. mempool'[i] = mempool[i + 1] /\ i + 1 \in 1..Len(mempool)
      BY MinedTail
    <2>2. run[mempool'[i].by].pc = WaitOf(mempool'[i].call)
      BY <2>1 DEF RunnerInv, PendingOK
    <2>3. run'[mempool'[i].by] = run[mempool'[i].by]
      BY <1>1 DEF RunnerInv, TypeOK
    <2> QED
      BY <2>2, <2>3
  <1>3. \A i, j \in 1..Len(mempool') :
          mempool'[i].by \in Runners /\ mempool'[i].by = mempool'[j].by => i = j
    <2> SUFFICES ASSUME NEW i \in 1..Len(mempool'), NEW j \in 1..Len(mempool'),
                        mempool'[i].by \in Runners, mempool'[i].by = mempool'[j].by
                 PROVE  i = j
      OBVIOUS
    <2>1. i + 1 = j + 1
      BY MinedTail DEF RunnerInv, PendingOK
    <2> QED
      BY <2>1, MinedTail
  <1> QED
    BY <1>2, <1>3 DEF PendingOK

(* Ledger versions behind the mined one are no older than it. *)
LEMMA MinedVersions ==
  ASSUME RunnerInv, mempool # <<>>, mempool' = Tail(mempool), UNCHANGED file,
         \/ UNCHANGED ledger
         \/ Head(mempool).call = "finalize" /\ ledger' = Head(mempool).ledger
  PROVE  VersionsOK'
  <1>1. \A i \in 1..Len(mempool') :
          mempool'[i] = mempool[i + 1] /\ i + 1 \in 1..Len(mempool) /\ 1 < i + 1
    BY MinedTail
  <1>2. \A i, j \in 1..Len(mempool') : i < j => i + 1 < j + 1
    BY MinedTail
  <1>3. Head(mempool) = mempool[1] /\ 1 \in 1..Len(mempool)
    BY MinedTail
  <1>4. VersionsOK
    BY DEF RunnerInv
  <1>5. ledger' <= file
    BY <1>3, <1>4 DEF VersionsOK
  <1>6. \A i \in 1..Len(mempool') :
          mempool'[i].call = "finalize" => ledger' <= mempool'[i].ledger /\ mempool'[i].ledger <= file
    BY <1>1, <1>3, <1>4 DEF VersionsOK
  <1>7. \A i, j \in 1..Len(mempool') :
          i < j /\ mempool'[i].call = "finalize" /\ mempool'[j].call = "finalize"
            => mempool'[i].ledger <= mempool'[j].ledger
    BY <1>1, <1>2, <1>4 DEF VersionsOK
  <1> QED
    BY <1>5, <1>6, <1>7 DEF VersionsOK

LEMMA RevertKeeps ==
  ASSUME RunnerInv, mempool # <<>>, mempool' = Tail(mempool), Revert(Head(mempool)),
         UNCHANGED <<file, snapshot, kills>>
  PROVE  RunnerInv'
  <1> USE DEF chainVars
  <1>1. UNCHANGED <<phase, ledger, word, revealed>>
    BY DEF Revert
  <1>2. run' = IF Head(mempool).by \in Runners
               THEN [run EXCEPT ![Head(mempool).by] = Idle] ELSE run
    BY DEF Revert
  <1>3. PendingOK' /\ VersionsOK'
    BY <1>1, <1>2, MinedPending, MinedVersions
  <1>4. TypeOK'
    BY <1>1, <1>2, IdleOK, MinedTail DEF RunnerInv, TypeOK
  <1>5. PhaseOK' /\ SnapshotOK'
    BY <1>1 DEF RunnerInv, PhaseOK, SnapshotOK, SnapshotTellsTheDraw, SnapshotIsComplete
  <1>6. \A q \in Runners : RunOK(run[q])'
    BY <1>1, <1>2, IdleOK DEF RunnerInv, TypeOK, RunOK, Whole
  <1> QED
    BY <1>3, <1>4, <1>5, <1>6 DEF RunnerInv

(* The sender of a mined transaction was waiting for it. *)
LEMMA SenderWaits ==
  ASSUME RunnerInv, mempool # <<>>, Head(mempool).by \in Runners
  PROVE  run[Head(mempool).by].pc = WaitOf(Head(mempool).call)
  BY HeadTailProperties DEF RunnerInv, TypeOK, PendingOK

LEMMA LandFinalizeKeeps ==
  ASSUME RunnerInv, mempool # <<>>, mempool' = Tail(mempool),
         Accepted(Head(mempool)), LandFinalize(Head(mempool)),
         UNCHANGED <<file, snapshot, kills>>
  PROVE  RunnerInv'
  <1> DEFINE tx == Head(mempool)
  <1>0. PICK r : r = [run[tx.by] EXCEPT !.pc = "status"]
    OBVIOUS
  <1> USE DEF LandFinalize
  <1>1. tx \in Transaction /\ tx = mempool[1] /\ 1 \in 1..Len(mempool) /\ tx.call = "finalize"
    BY MinedTail
  <1>2. phase \in {"open", "ready"} /\ UNCHANGED <<word, revealed>>
    BY <1>1 DEF Accepted, MayFinalize, MayRequest, MayReveal
  <1>3. ledger <= tx.ledger /\ tx.ledger <= file /\ tx.ledger \in Nat /\ ledger \in Nat /\ file \in Nat
    BY <1>1 DEF RunnerInv, TypeOK, VersionsOK, Transaction
  <1>4. run' = IF tx.by \in Runners THEN [run EXCEPT ![tx.by] = r] ELSE run
    BY <1>0 DEF Wake, RunnerInv, TypeOK
  <1>5. PendingOK' /\ VersionsOK'
    BY <1>1, <1>4, MinedPending, MinedVersions
  <1>6. tx.by \in Runners =>
          r \in RunState /\ r.todo \subseteq r.scanned /\ RunOK(r)' /\ run[tx.by].pc = "waitFinalize"
    <2> SUFFICES ASSUME tx.by \in Runners
                 PROVE  r \in RunState /\ r.todo \subseteq r.scanned /\ RunOK(r)'
                        /\ run[tx.by].pc = "waitFinalize"
      OBVIOUS
    <2>1. run[tx.by].pc = "waitFinalize"
      BY <1>1, SenderWaits DEF WaitOf
    <2>2. run[tx.by] \in RunState /\ RunOK(run[tx.by]) /\ run[tx.by].todo \subseteq run[tx.by].scanned
      BY DEF RunnerInv, TypeOK
    <2> QED
      BY <1>0, <1>2, <2>1, <2>2 DEF RunOK, RunState, PastCheck, PastWord, Whole
  <1>7. TypeOK'
    BY <1>1, <1>2, <1>3, <1>4, <1>6, MinedTail DEF RunnerInv, TypeOK
  <1>8. PhaseOK' /\ SnapshotOK'
    BY <1>2 DEF RunnerInv, PhaseOK, SnapshotOK
  <1>9. \A q \in Runners : RunOK(run[q])'
    <2> SUFFICES ASSUME NEW q \in Runners PROVE RunOK(run[q])'
      OBVIOUS
    <2>1. RunOK(run[q])
      BY DEF RunnerInv
    <2>2. RunOK(run[q])' \/ run'[q] # run[q]
      BY <1>2, <1>3, <2>1 DEF RunOK, PastWord, Whole
    <2>3. run'[q] = run[q] \/ RunOK(run[q])'
      BY <1>4, <1>6 DEF RunnerInv, TypeOK, RunOK, Whole
    <2> QED
      BY <2>2, <2>3
  <1> QED
    BY <1>5, <1>7, <1>8, <1>9 DEF RunnerInv

LEMMA LandRequestKeeps ==
  ASSUME RunnerInv, mempool # <<>>, mempool' = Tail(mempool),
         Accepted(Head(mempool)), LandRequest(Head(mempool)),
         UNCHANGED <<file, snapshot, kills>>
  PROVE  RunnerInv'
  <1> DEFINE tx == Head(mempool)
  <1>0. PICK r : r = [run[tx.by] EXCEPT !.pc = "asked"]
    OBVIOUS
  <1> USE DEF LandRequest
  <1>1. tx \in Transaction /\ tx.call = "request"
    BY MinedTail
  <1>2. phase = "ready" /\ UNCHANGED <<ledger, word, revealed>>
    BY <1>1 DEF Accepted, MayFinalize, MayRequest, MayReveal
  <1>4. run' = IF tx.by \in Runners THEN [run EXCEPT ![tx.by] = r] ELSE run
    BY <1>0 DEF Wake, RunnerInv, TypeOK
  <1>5. PendingOK' /\ VersionsOK'
    BY <1>2, <1>4, MinedPending, MinedVersions
  <1>6. tx.by \in Runners =>
          r \in RunState /\ r.todo \subseteq r.scanned /\ RunOK(r)'
    <2> SUFFICES ASSUME tx.by \in Runners
                 PROVE  r \in RunState /\ r.todo \subseteq r.scanned /\ RunOK(r)'
      OBVIOUS
    <2>1. run[tx.by].pc = "waitRequest"
      BY <1>1, SenderWaits DEF WaitOf
    <2>2. run[tx.by] \in RunState /\ RunOK(run[tx.by]) /\ run[tx.by].todo \subseteq run[tx.by].scanned
      BY DEF RunnerInv, TypeOK
    <2> QED
      BY <1>0, <1>2, <2>1, <2>2 DEF RunOK, RunState, PastCheck, PastWord, Whole
  <1>7. TypeOK'
    BY <1>2, <1>4, <1>6, MinedTail DEF RunnerInv, TypeOK
  <1>8. PhaseOK' /\ SnapshotOK'
    BY <1>2 DEF RunnerInv, PhaseOK, SnapshotOK
  <1>9. \A q \in Runners : RunOK(run[q])'
    <2> SUFFICES ASSUME NEW q \in Runners PROVE RunOK(run[q])'
      OBVIOUS
    <2>1. RunOK(run[q])
      BY DEF RunnerInv
    <2>2. RunOK(run[q])' \/ run'[q] # run[q]
      BY <1>2, <2>1 DEF RunOK, PastWord, Whole
    <2>3. run'[q] = run[q] \/ RunOK(run[q])'
      BY <1>4, <1>6 DEF RunnerInv, TypeOK, RunOK, Whole
    <2> QED
      BY <2>2, <2>3
  <1> QED
    BY <1>5, <1>7, <1>8, <1>9 DEF RunnerInv

LEMMA LandRevealKeeps ==
  ASSUME RunnerInv, mempool # <<>>, mempool' = Tail(mempool),
         Accepted(Head(mempool)), LandReveal(Head(mempool)),
         UNCHANGED <<file, snapshot, kills>>
  PROVE  RunnerInv'
  <1> DEFINE tx == Head(mempool)
  <1>0. PICK r : r = [run[tx.by] EXCEPT !.pc = "revealed"]
    OBVIOUS
  <1> USE DEF LandReveal
  <1>1. tx \in Transaction /\ tx.call = "reveal" /\ tx.batch \subseteq Matches
    BY MinedTail DEF Transaction
  <1>2. phase = "drawn" /\ UNCHANGED <<ledger, word>>
    BY <1>1 DEF Accepted, MayFinalize, MayRequest, MayReveal
  <1>3. /\ revealed \subseteq revealed' /\ revealed' \subseteq Matches
        /\ phase' = IF revealed' = Matches THEN "complete" ELSE "drawn"
    BY <1>1 DEF RunnerInv, TypeOK
  <1>4. run' = IF tx.by \in Runners THEN [run EXCEPT ![tx.by] = r] ELSE run
    BY <1>0 DEF Wake, RunnerInv, TypeOK
  <1>5. PendingOK' /\ VersionsOK'
    BY <1>2, <1>4, MinedPending, MinedVersions
  <1>6. tx.by \in Runners =>
          r \in RunState /\ r.todo \subseteq r.scanned /\ RunOK(r)'
    <2> SUFFICES ASSUME tx.by \in Runners
                 PROVE  r \in RunState /\ r.todo \subseteq r.scanned /\ RunOK(r)'
      OBVIOUS
    <2>1. run[tx.by].pc = "waitReveal"
      BY <1>1, SenderWaits DEF WaitOf
    <2>2. run[tx.by] \in RunState /\ RunOK(run[tx.by]) /\ run[tx.by].todo \subseteq run[tx.by].scanned
      BY DEF RunnerInv, TypeOK
    <2> QED
      BY <1>0, <1>2, <1>3, <2>1, <2>2 DEF RunOK, RunState, PastCheck, PastWord, Whole
  <1>7. TypeOK'
    BY <1>2, <1>3, <1>4, <1>6, MinedTail DEF RunnerInv, TypeOK
  <1>8. PhaseOK' /\ SnapshotOK'
    BY <1>2, <1>3 DEF RunnerInv, PhaseOK, SnapshotOK, SnapshotTellsTheDraw, SnapshotIsComplete
  <1>9. \A q \in Runners : RunOK(run[q])'
    <2> SUFFICES ASSUME NEW q \in Runners PROVE RunOK(run[q])'
      OBVIOUS
    <2>1. RunOK(run[q])
      BY DEF RunnerInv
    <2>2. RunOK(run[q])' \/ run'[q] # run[q]
      BY <1>2, <1>3, <2>1 DEF RunOK, PastWord, Whole
    <2>3. run'[q] = run[q] \/ RunOK(run[q])'
      BY <1>4, <1>6 DEF RunnerInv, TypeOK, RunOK, Whole
    <2> QED
      BY <2>2, <2>3
  <1> QED
    BY <1>5, <1>7, <1>8, <1>9 DEF RunnerInv

LEMMA MineKeeps == RunnerInv /\ Mine => RunnerInv'
  BY RevertKeeps, LandFinalizeKeeps, LandRequestKeeps, LandRevealKeeps DEF Mine

-----------------------------------------------------------------------------
(* The theorem. *)

LEMMA RunnerInvNext == RunnerInv /\ [Next]_vars => RunnerInv'
  <1> SUFFICES ASSUME RunnerInv, [Next]_vars PROVE RunnerInv'
    OBVIOUS
  <1>1. ASSUME NEW p \in Runners, NEW mode \in Modes, Start(p, mode) PROVE RunnerInv'
    BY <1>1, StartKeeps
  <1>2. ASSUME NEW p \in Runners, Step(p) PROVE RunnerInv'
    <2>1. CASE RefuseLedger(p) \/ Report(p)
      BY <2>1, EndKeeps DEF RefuseLedger, Report, At, Waits
    <2>2. CASE ReadStatus(p)
      BY <2>2, ReadStatusKeeps
    <2>3. CASE SendFinalize(p) \/ SendRequest(p) \/ SendReveal(p)
      BY <2>3, SendsKeep
    <2>4. CASE ReadAfterRequest(p) \/ ReadAfterReveal(p) \/ Await(p)
      BY <2>4, LaterReadsKeep
    <2>5. CASE (\E m \in Matches : ScanMatch(p, m)) \/ Scanned(p)
      BY <2>5, ScanKeeps
    <2>6. CASE ReadWinners(p)
      BY <2>6, ReadWinnersKeeps
    <2>7. CASE WriteSnapshot(p)
      BY <2>7, WriteSnapshotKeeps
    <2> QED
      BY <1>2, <2>1, <2>2, <2>3, <2>4, <2>5, <2>6, <2>7 DEF Step
  <1>3. ASSUME NEW p \in Runners, Kill(p) PROVE RunnerInv'
    BY <1>3, KillKeeps
  <1>4. CASE Mine
    BY <1>4, MineKeeps
  <1>5. CASE Answer
    BY <1>5, AnswerKeeps
  <1>6. ASSUME NEW l \in Ledgers, WriteLedger(l) PROVE RunnerInv'
    BY <1>6, WriteLedgerKeeps
  <1>7. CASE UNCHANGED vars
    BY <1>7 DEF vars, chainVars, RunnerInv, TypeOK, PhaseOK, PendingOK, VersionsOK,
                SnapshotOK, SnapshotTellsTheDraw, SnapshotIsComplete, RunOK, Whole
  <1> QED
    BY <1>1, <1>2, <1>3, <1>4, <1>5, <1>6, <1>7 DEF Next

LEMMA RunnerInvHolds == Spec => []RunnerInv
  BY InitRunnerInv, RunnerInvNext, PTL DEF Spec

(* Every variable keeps its type in any number of runs, kills and rebuilds. *)
THEOREM RunnersAreTyped == Spec => []TypeOK
  <1>1. RunnerInv => TypeOK
    BY DEF RunnerInv
  <1> QED
    BY <1>1, RunnerInvHolds, PTL

(* The winners file names the ledger and the word the contract drew with,
   however many runs were killed and whatever they had sent. *)
THEOREM SnapshotCorrect == Spec => []SnapshotTellsTheDraw
  <1>1. RunnerInv => SnapshotTellsTheDraw
    BY DEF RunnerInv, SnapshotOK, SnapshotTellsTheDraw
  <1> QED
    BY <1>1, RunnerInvHolds, PTL

(* A broadcasting run, or a file labelled revealed, leaves out no match. *)
THEOREM SnapshotWhole == Spec => []SnapshotIsComplete
  <1>1. RunnerInv => SnapshotIsComplete
    BY DEF RunnerInv, SnapshotOK, SnapshotIsComplete
  <1> QED
    BY <1>1, RunnerInvHolds, PTL

-----------------------------------------------------------------------------
(* The round is a draw in the sense of FairDraw.  Beside the invariant this
   takes that no ledger comes from anywhere but the file, that nobody reveals
   nothing, and that there is no word before the request is answered. *)

LedgersAreBuilt ==
  /\ file \in Ledgers \cup {0}
  /\ \A p \in Runners : run[p].pc # "idle" => file # 0
  /\ \A i \in 1..Len(mempool) : mempool[i].call = "finalize" => mempool[i].ledger \in Ledgers

BatchesAreFull ==
  /\ \A p \in Runners : run[p].pc = "reveal" => run[p].todo # {}
  /\ \A i \in 1..Len(mempool) : mempool[i].call = "reveal" => mempool[i].batch # {}

NoEarlyWord == phase \in {"open", "ready", "sealed"} => word = 0

FairInv == RunnerInv /\ LedgersAreBuilt /\ BatchesAreFull /\ NoEarlyWord

(* A run that is under way may do anything but come to a reveal with nothing
   left to reveal. *)
LEMMA FairRun ==
  ASSUME FairInv, RunnerInv', NEW p \in Runners, NEW r, run' = [run EXCEPT ![p] = r],
         r.pc # "idle" => file # 0,
         r.pc = "reveal" => r.todo # {},
         UNCHANGED <<file, chainVars, mempool>>
  PROVE  FairInv'
<1>1. run \in [Runners -> RunState]
  BY DEF FairInv, RunnerInv, TypeOK
<1>2. LedgersAreBuilt'
  BY <1>1 DEF FairInv, LedgersAreBuilt
<1>3. BatchesAreFull' /\ NoEarlyWord'
  BY <1>1 DEF FairInv, BatchesAreFull, NoEarlyWord, chainVars
<1> QED
  BY <1>2, <1>3 DEF FairInv

(* What is sent is a ledger that was built, or matches found unrevealed. *)
LEMMA FairSend ==
  ASSUME FairInv, RunnerInv', NEW p \in Runners,
         NEW call \in {"finalize", "request", "reveal"}, NEW batch,
         run[p].pc # "idle", call = "reveal" => batch # {},
         NEW waiting \in Waits, Send(p, call, batch, waiting)
  PROVE  FairInv'
<1> DEFINE tx == [call |-> call, by |-> p, ledger |-> run[p].ledger, batch |-> batch]
<1>1. UNCHANGED <<file, phase, ledger, word, revealed>>
  BY DEF Send, chainVars
<1>2. CASE ~ Accepted(tx) /\ End(p) /\ UNCHANGED mempool
  BY <1>1, <1>2, FairRun DEF End, Idle, chainVars
<1>3. CASE Accepted(tx) /\ mempool' = Append(mempool, tx) /\ Goto(p, waiting)
  <2>1. run \in [Runners -> RunState] /\ mempool \in Seq(Transaction)
    BY DEF FairInv, RunnerInv, TypeOK
  <2>2. /\ Len(mempool') = Len(mempool) + 1 /\ Len(mempool) \in Nat
        /\ \A i \in 1..Len(mempool) : mempool'[i] = mempool[i]
        /\ mempool'[Len(mempool) + 1] = tx
    BY <1>3, <2>1, AppendProperties
  <2>3. \A i \in 1..Len(mempool') : i \in 1..Len(mempool) \/ mempool'[i] = tx
    BY <2>2
  <2>4. file \in Ledgers /\ tx.ledger = file /\ tx.call = call /\ tx.batch = batch
    BY DEF FairInv, LedgersAreBuilt, RunnerInv, RunOK
  <2>5. \A q \in Runners : run'[q].pc = waiting \/ run'[q] = run[q]
    BY <1>3, <2>1 DEF Goto, RunState
  <2> HIDE DEF tx
  <2>6. LedgersAreBuilt'
    BY <1>1, <2>2, <2>3, <2>4, <2>5, RunnerAssumption DEF FairInv, LedgersAreBuilt, Waits
  <2>7. BatchesAreFull' /\ NoEarlyWord'
    BY <1>1, <2>2, <2>3, <2>4, <2>5 DEF FairInv, BatchesAreFull, NoEarlyWord, Waits
  <2> QED
    BY <2>6, <2>7 DEF FairInv
<1> QED
  BY <1>2, <1>3 DEF Send

(* The calls of a runner. *)
LEMMA FairSends ==
  ASSUME FairInv, RunnerInv', NEW p \in Runners, SendFinalize(p) \/ SendRequest(p) \/ SendReveal(p)
  PROVE  FairInv'
<1>1. CASE SendFinalize(p)
  BY <1>1, FairSend DEF SendFinalize, At, Waits
<1>2. CASE SendRequest(p)
  BY <1>2, FairSend DEF SendRequest, At, Waits
<1>3. CASE SendReveal(p)
  <2>1. PICK batch \in SUBSET run[p].todo :
          /\ Cardinality(batch) = IF Cardinality(run[p].todo) < BatchSize
                                  THEN Cardinality(run[p].todo) ELSE BatchSize
          /\ Send(p, "reveal", batch, "waitReveal")
    BY <1>3 DEF SendReveal
  <2>2. run[p].pc = "reveal" /\ run[p].todo # {} /\ run[p].todo \subseteq Matches
    BY <1>3 DEF SendReveal, At, FairInv, BatchesAreFull, RunnerInv, TypeOK, RunState
  <2>3. IsFiniteSet(run[p].todo)
    BY <2>2, FS_Subset, RunnerAssumption
  <2>4. Cardinality(run[p].todo) \in Nat /\ Cardinality(run[p].todo) # 0
    BY <2>2, <2>3, FS_CardinalityType, FS_EmptySet
  <2>5. Cardinality(batch) # 0
    BY <2>1, <2>4, RunnerAssumption
  <2>6. batch # {}
    BY <2>5, FS_EmptySet
  <2> QED
    BY <2>1, <2>2, <2>6, FairSend DEF Waits
<1> QED
  BY <1>1, <1>2, <1>3

(* A run's steps without a transaction. *)
LEMMA FairSteps ==
  ASSUME FairInv, RunnerInv', NEW p \in Runners, Step(p)
  PROVE  FairInv'
<1>1. run[p] \in RunState /\ run \in [Runners -> RunState]
  BY DEF FairInv, RunnerInv, TypeOK
<1>2. run[p].pc # "idle" => file # 0
  BY DEF FairInv, LedgersAreBuilt
<1>3. CASE RefuseLedger(p) \/ Report(p) \/ WriteSnapshot(p)
  BY <1>3, FairRun DEF RefuseLedger, Report, WriteSnapshot, End, Idle
<1>4. CASE SendFinalize(p) \/ SendRequest(p) \/ SendReveal(p)
  BY <1>4, FairSends
<1>5. ASSUME NEW pc, Read(p, pc), pc # "reveal", run[p].pc # "idle",
             UNCHANGED <<file, chainVars, mempool>>
      PROVE  FairInv'
  <2> DEFINE r == [run[p] EXCEPT !.pc = pc, !.status = phase, !.scanned = {}, !.todo = {}]
  <2>1. r.pc = pc
    BY <1>1 DEF RunState
  <2> QED
    BY <1>2, <1>5, <2>1, FairRun DEF Read
<1>6. CASE ReadStatus(p)
  BY <1>5, <1>6 DEF ReadStatus, At, NextStep
<1>7. CASE ReadAfterRequest(p) \/ ReadAfterReveal(p)
  BY <1>5, <1>7 DEF ReadAfterRequest, ReadAfterReveal, At
<1>8. CASE Await(p)
  <2>1. CASE End(p)
    BY <1>8, <2>1, FairRun DEF Await, End, Idle
  <2>2. CASE ~ End(p)
    BY <1>5, <1>8, <2>2 DEF Await, At
  <2> QED
    BY <2>1, <2>2
<1>9. ASSUME NEW m \in Matches, ScanMatch(p, m) PROVE FairInv'
  <2>1. PICK r : r = [run[p] EXCEPT !.scanned = @ \cup {m},
                                    !.todo = IF m \in revealed THEN @ ELSE @ \cup {m}]
    OBVIOUS
  <2>2. r.pc = "scan"
    BY <1>1, <1>9, <2>1 DEF ScanMatch, At, RunState
  <2>3. run' = [run EXCEPT ![p] = r]
    BY <1>1, <1>9, <2>1 DEF ScanMatch, RunState
  <2> QED
    BY <1>2, <1>9, <2>2, <2>3, FairRun DEF ScanMatch, At
<1>10. CASE Scanned(p)
  <2>1. PICK r : r = [run[p] EXCEPT !.pc = IF run[p].todo = {} THEN "winners" ELSE "reveal"]
    OBVIOUS
  <2>2. r.pc = "reveal" => r.todo # {}
    BY <1>1, <2>1 DEF RunState
  <2>3. run' = [run EXCEPT ![p] = r]
    BY <1>1, <1>10, <2>1 DEF Scanned, Goto
  <2> QED
    BY <1>2, <1>10, <2>2, <2>3, FairRun DEF Scanned, At
<1>11. CASE ReadWinners(p)
  <2>1. CASE run[p].mode = "verify"
    BY <1>11, <2>1, FairRun DEF ReadWinners, End, Idle
  <2>2. CASE run[p].mode # "verify"
    <3>1. PICK r : r = [run[p] EXCEPT !.pc = "write", !.seen = revealed, !.drew = <<word, ledger>>]
      OBVIOUS
    <3>2. r.pc = "write"
      BY <1>1, <3>1 DEF RunState
    <3>3. run' = [run EXCEPT ![p] = r]
      BY <1>1, <1>11, <2>2, <3>1 DEF ReadWinners
    <3> QED
      BY <1>2, <1>11, <3>2, <3>3, FairRun DEF ReadWinners, At
  <2> QED
    BY <2>1, <2>2
<1> QED
  BY <1>3, <1>4, <1>6, <1>7, <1>8, <1>9, <1>10, <1>11 DEF Step

(* A transaction is mined, the request answered, a ledger built, a run killed:
   FairInv stays, and what the contract makes of it is a step of FairDraw. *)

ChainStep == Fair!Next \/ UNCHANGED <<phase, ledger, word, revealed>>

(* Taking out the oldest transaction keeps what holds of the others. *)
LEMMA FairTail ==
  ASSUME FairInv, RunnerInv', mempool # <<>>, mempool' = Tail(mempool), UNCHANGED file,
         NEW r, r.pc \notin {"reveal"}, run' = IF Head(mempool).by \in Runners
                THEN [run EXCEPT ![Head(mempool).by] = r] ELSE run,
         r.pc # "idle" => Head(mempool).by \notin Runners \/ run[Head(mempool).by].pc # "idle"
  PROVE  LedgersAreBuilt' /\ BatchesAreFull'
<1>1. RunnerInv /\ run \in [Runners -> RunState]
  BY DEF FairInv, RunnerInv, TypeOK
<1>2. \A i \in 1..Len(mempool') : mempool'[i] = mempool[i + 1] /\ i + 1 \in 1..Len(mempool)
  BY <1>1, MinedTail
<1>3. \A q \in Runners : run'[q] = run[q] \/ (q = Head(mempool).by /\ run'[q] = r)
  BY <1>1
<1>4. LedgersAreBuilt'
  BY <1>2, <1>3 DEF FairInv, LedgersAreBuilt
<1>5. BatchesAreFull'
  BY <1>2, <1>3 DEF FairInv, BatchesAreFull
<1> QED
  BY <1>4, <1>5

(* Mined: the ledger is registered, the request sealed, matches published, or
   nothing happened. *)
LEMMA FairMine ==
  ASSUME FairInv, RunnerInv', Mine
  PROVE  FairInv' /\ ChainStep
<1> DEFINE tx == Head(mempool)
<1>0. Idle.pc = "idle"
  BY DEF Idle
<1>1. /\ mempool # <<>> /\ mempool' = Tail(mempool) /\ UNCHANGED file
      /\ RunnerInv /\ run \in [Runners -> RunState]
  BY DEF Mine, FairInv, RunnerInv, TypeOK
<1>2. tx \in Transaction /\ tx = mempool[1] /\ 1 \in 1..Len(mempool)
  BY <1>1, MinedTail
<1>3. tx.by \in Runners => run[tx.by].pc # "idle"
  BY <1>1, <1>2, SenderWaits DEF WaitOf, Transaction
<1>4. ASSUME NEW next \in {"status", "asked", "revealed"}, Wake(tx, next)
      PROVE  LedgersAreBuilt' /\ BatchesAreFull'
  <2>1. PICK r : r = [run[tx.by] EXCEPT !.pc = next]
    OBVIOUS
  <2>2. run' = IF tx.by \in Runners THEN [run EXCEPT ![tx.by] = r] ELSE run
    BY <1>1, <1>4, <2>1 DEF Wake
  <2>3. CASE tx.by \in Runners
    <3>1. r.pc = next
      BY <1>1, <2>1, <2>3 DEF RunState
    <3> QED
      BY <1>1, <1>3, <2>2, <3>1, FairTail
  <2>4. CASE tx.by \notin Runners
    BY <1>0, <1>1, <2>2, <2>4, FairTail
  <2> QED
    BY <2>3, <2>4
<1>5. CASE ~ Accepted(tx)
  <2>1. Revert(tx)
    BY <1>5 DEF Mine
  <2>2. LedgersAreBuilt' /\ BatchesAreFull'
    BY <1>0, <1>1, <2>1, FairTail DEF Revert
  <2>3. NoEarlyWord' /\ UNCHANGED <<phase, ledger, word, revealed>>
    BY <2>1 DEF Revert, chainVars, FairInv, NoEarlyWord
  <2> QED
    BY <2>2, <2>3 DEF FairInv, ChainStep
<1>6. CASE Accepted(tx) /\ LandFinalize(tx)
  <2>1. /\ phase \in {"open", "ready"} /\ phase' = "ready" /\ ledger' = tx.ledger
        /\ UNCHANGED <<word, revealed>> /\ tx.call = "finalize"
    BY <1>6 DEF Accepted, MayFinalize, MayRequest, MayReveal, LandFinalize
  <2>2. tx.ledger \in Ledgers
    BY <1>2, <2>1 DEF FairInv, LedgersAreBuilt
  <2>3. word = 0 /\ revealed = {}
    BY <1>1, <2>1 DEF FairInv, NoEarlyWord, RunnerInv, PhaseOK
  <2>4. LedgersAreBuilt' /\ BatchesAreFull'
    BY <1>4, <1>6 DEF LandFinalize
  <2>5. NoEarlyWord'
    BY <2>1, <2>3 DEF NoEarlyWord
  <2>6. \A r : [m \in {} |-> r] = [i \in {} |-> {}]
    OBVIOUS
  <2>7. Fair!Register("round")
    BY <2>1, <2>2, <2>3, <2>6 DEF Fair!Register, Fair!NothingPublished
  <2> QED
    BY <2>4, <2>5, <2>7 DEF FairInv, ChainStep, Fair!Next
<1>7. CASE Accepted(tx) /\ LandRequest(tx)
  <2>1. phase = "ready" /\ phase' = "sealed" /\ UNCHANGED <<ledger, word, revealed>>
    BY <1>7 DEF Accepted, MayFinalize, MayRequest, MayReveal, LandRequest
  <2>2. LedgersAreBuilt' /\ BatchesAreFull'
    BY <1>4, <1>7 DEF LandRequest
  <2>3. NoEarlyWord'
    BY <2>1 DEF FairInv, NoEarlyWord
  <2>4. Fair!Seal("round")
    BY <2>1 DEF Fair!Seal
  <2> QED
    BY <2>2, <2>3, <2>4 DEF FairInv, ChainStep, Fair!Next
<1>8. CASE Accepted(tx) /\ LandReveal(tx)
  <2>1. /\ phase = "drawn" /\ tx.batch \cap revealed = {} /\ UNCHANGED <<ledger, word>>
        /\ revealed' = revealed \cup tx.batch /\ tx.call = "reveal"
        /\ phase' = IF revealed' = Matches THEN "complete" ELSE "drawn"
    BY <1>8 DEF Accepted, MayFinalize, MayRequest, MayReveal, LandReveal
  <2>2. tx.batch \in SUBSET Matches /\ tx.batch # {} /\ revealed \subseteq Matches
    BY <1>1, <1>2, <2>1 DEF Transaction, FairInv, BatchesAreFull, RunnerInv, TypeOK
  <2>3. LedgersAreBuilt' /\ BatchesAreFull'
    BY <1>4, <1>8 DEF LandReveal
  <2>4. NoEarlyWord'
    BY <2>1 DEF NoEarlyWord
  <2>5. PICK new \in SUBSET Matches : new = tx.batch
    BY <2>2
  <2> HIDE DEF tx
  <2>6. Fair!Publish("round", new)
    BY <2>1, <2>2, <2>5 DEF Fair!Publish
  <2>7. Fair!Next
    BY <2>6 DEF Fair!Next
  <2> QED
    BY <2>3, <2>4, <2>7 DEF FairInv, ChainStep
<1> QED
  BY <1>5, <1>6, <1>7, <1>8 DEF Mine

(* Answered: the word is drawn. *)
LEMMA FairAnswer ==
  ASSUME FairInv, RunnerInv', Answer
  PROVE  FairInv' /\ ChainStep
<1>1. PICK w \in Words : word' = w
  BY DEF Answer
<1>2. revealed = {} /\ phase = "sealed" /\ phase' = "drawn" /\ UNCHANGED <<ledger, revealed>>
  BY DEF Answer, FairInv, RunnerInv, PhaseOK
<1>3. FairInv'
  BY <1>2 DEF Answer, FairInv, LedgersAreBuilt, BatchesAreFull, NoEarlyWord
<1>4. Fair!Draw("round", w)
  BY <1>1, <1>2 DEF Fair!Draw
<1> QED
  BY <1>3, <1>4 DEF ChainStep, Fair!Next

(* Killed: what was sent is still a built ledger or a full batch. *)
LEMMA FairKill ==
  ASSUME FairInv, RunnerInv', NEW p \in Runners, Kill(p)
  PROVE  FairInv'
<1>1. run \in [Runners -> RunState] /\ mempool \in Seq(Transaction)
  BY DEF FairInv, RunnerInv, TypeOK
<1>2. \A i \in 1..Len(mempool) : mempool[i] \in Transaction
  BY <1>1
<1>3. DOMAIN mempool = 1..Len(mempool) /\ Len(mempool') = Len(mempool)
  BY <1>1 DEF Kill
<1>4. \A i \in 1..Len(mempool) :
        /\ mempool'[i].call = mempool[i].call /\ mempool'[i].ledger = mempool[i].ledger
        /\ mempool'[i].batch = mempool[i].batch
  BY <1>2, <1>3 DEF Kill, Transaction
<1>5. \A q \in Runners : run'[q].pc = "idle" \/ run'[q] = run[q]
  BY <1>1 DEF Kill, End, Idle
<1>6. UNCHANGED <<file, phase, word>>
  BY DEF Kill, chainVars
<1>7. LedgersAreBuilt'
  BY <1>3, <1>4, <1>5, <1>6 DEF FairInv, LedgersAreBuilt
<1>8. BatchesAreFull' /\ NoEarlyWord'
  BY <1>3, <1>4, <1>5, <1>6 DEF FairInv, BatchesAreFull, NoEarlyWord
<1> QED
  BY <1>7, <1>8 DEF FairInv

(* Every step of the runners, the wallet and the coordinator. *)
LEMMA FairNext ==
  FairInv /\ [Next]_vars => FairInv' /\ ChainStep
<1> SUFFICES ASSUME FairInv, [Next]_vars PROVE FairInv' /\ ChainStep
  OBVIOUS
<1>1. RunnerInv'
  BY RunnerInvNext DEF FairInv
<1>2. ASSUME NEW p \in Runners, NEW mode \in Modes, Start(p, mode) PROVE FairInv' /\ ChainStep
  <2> DEFINE r == [Idle EXCEPT !.pc = "status", !.mode = mode, !.ledger = file]
  <2>1. r.pc = "status"
    BY DEF Idle
  <2>2. file # 0 /\ run' = [run EXCEPT ![p] = r] /\ UNCHANGED <<file, chainVars, mempool>>
    BY <1>2 DEF Start
  <2> HIDE DEF r
  <2>3. FairInv'
    BY <1>1, <2>1, <2>2, FairRun
  <2> QED
    BY <2>2, <2>3 DEF ChainStep, chainVars
<1>3. ASSUME NEW p \in Runners, Step(p) PROVE FairInv' /\ ChainStep
  <2>1. UNCHANGED chainVars
    BY <1>3 DEF Step, RefuseLedger, ReadStatus, Report, SendFinalize, SendRequest, SendReveal, Send,
                ReadAfterRequest, Await, ScanMatch, Scanned, ReadAfterReveal, ReadWinners, WriteSnapshot
  <2> QED
    BY <1>1, <1>3, <2>1, FairSteps DEF ChainStep, chainVars
<1>4. ASSUME NEW p \in Runners, Kill(p) PROVE FairInv' /\ ChainStep
  BY <1>1, <1>4, FairKill DEF Kill, ChainStep, chainVars
<1>5. CASE Mine
  BY <1>1, <1>5, FairMine
<1>6. CASE Answer
  BY <1>1, <1>6, FairAnswer
<1>7. ASSUME NEW l \in Ledgers, WriteLedger(l) PROVE FairInv' /\ ChainStep
  <2>1. file' = l /\ UNCHANGED <<phase, ledger, word, revealed, mempool, run>>
    BY <1>7 DEF WriteLedger, chainVars
  <2>2. FairInv'
    BY <1>1, <2>1, RunnerAssumption DEF FairInv, LedgersAreBuilt, BatchesAreFull, NoEarlyWord
  <2> QED
    BY <2>1, <2>2 DEF ChainStep
<1>8. CASE UNCHANGED vars
  BY <1>1, <1>8 DEF vars, chainVars, ChainStep, FairInv, LedgersAreBuilt, BatchesAreFull, NoEarlyWord
<1> QED
  BY <1>2, <1>3, <1>4, <1>5, <1>6, <1>7, <1>8 DEF Next

(* What runners, late transactions of killed runs and the coordinator make of
   a round is a draw in the sense of FairDraw, for any runners, matches,
   ledgers, batch size and number of kills. *)
THEOREM RunnersImplementFairDraw == Spec => RoundStaysFair
<1>1. Init => FairInv /\ Fair!Init
  <2> SUFFICES ASSUME Init PROVE FairInv /\ Fair!Init
    OBVIOUS
  <2>1. FairInv
    BY InitRunnerInv DEF Init, Idle, FairInv, LedgersAreBuilt, BatchesAreFull, NoEarlyWord
  <2>2. Fair!Init
    BY DEF Init, Fair!Init, Fair!NothingPublished
  <2> QED
    BY <2>1, <2>2
<1>2. FairInv /\ [Next]_vars => [Fair!Next]_(Fair!fairVars)
  <2> SUFFICES ASSUME FairInv, [Next]_vars PROVE Fair!Next \/ UNCHANGED Fair!fairVars
    OBVIOUS
  <2>1. CASE UNCHANGED <<phase, ledger, word, revealed>>
    BY <2>1 DEF Fair!fairVars
  <2> QED
    BY <2>1, FairNext DEF ChainStep
<1> QED
  BY <1>1, <1>2, FairNext, PTL DEF Spec, RoundStaysFair, Fair!Spec

-----------------------------------------------------------------------------
(* One run at a time.  When a winners file is labelled revealed, the round is
   complete, and a run that begins after that finds it so; while the only run
   is one that began before, it is that run that writes the label, at its end. *)

Labelled == snapshot # NoSnapshot /\ snapshot.fulfilled

ToldComplete(r) ==
  r.pc \in {"idle", "status"} \/ (r.pc \in {"winners", "write"} /\ r.status = "complete")

LabelInv ==
  view = "alone" =>
    /\ \A p \in Runners \ {r1} : run[p].pc = "idle"
    /\ Labelled => ToldComplete(run[r1])

(* What the only run does once the label is there. *)
LEMMA LabelledRun ==
  ASSUME RunnerInv, Labelled, ToldComplete(run[r1]), Step(r1)
  PROVE  ToldComplete(run'[r1]) /\ (Labelled' \/ snapshot' = snapshot)
<1>1. r1 \in Runners /\ run \in [Runners -> RunState] /\ run[r1] \in RunState
  BY ViewAssumption DEF RunnerInv, TypeOK
<1>2. phase = "complete"
  <2>1. snapshot.winners = Matches /\ snapshot.winners \subseteq revealed
        /\ phase \in {"drawn", "complete"}
    BY DEF Labelled, RunnerInv, SnapshotOK, SnapshotIsComplete, SnapshotTellsTheDraw
  <2> QED
    BY <2>1 DEF RunnerInv, TypeOK, PhaseOK
<1>3. run[r1].pc \in {"idle", "status", "winners", "write"}
      /\ (run[r1].pc \in {"winners", "write"} => run[r1].status = "complete")
  BY DEF ToldComplete
<1>4. CASE RefuseLedger(r1)
  BY <1>1, <1>4 DEF RefuseLedger, End, Idle, ToldComplete
<1>5. CASE ReadStatus(r1)
  <2>1. PICK r : r = [run[r1] EXCEPT !.pc = NextStep(run[r1].mode, phase), !.status = phase,
                                     !.scanned = {}, !.todo = {}]
    OBVIOUS
  <2>2. NextStep(run[r1].mode, phase) = "winners"
    BY <1>2 DEF NextStep
  <2>3. r.pc = "winners" /\ r.status = "complete"
    BY <1>1, <1>2, <2>1, <2>2 DEF RunState
  <2>4. run'[r1] = r /\ snapshot' = snapshot
    BY <1>1, <1>5, <2>1 DEF ReadStatus, Read
  <2> QED
    BY <2>3, <2>4 DEF ToldComplete
<1>6. CASE ReadWinners(r1)
  <2>1. CASE End(r1)
    BY <1>1, <1>6, <2>1 DEF ReadWinners, End, Idle, ToldComplete
  <2>2. CASE ~ End(r1)
    <3>1. PICK r : r = [run[r1] EXCEPT !.pc = "write", !.seen = revealed, !.drew = <<word, ledger>>]
      OBVIOUS
    <3>2. r.pc = "write" /\ r.status = run[r1].status
      BY <1>1, <3>1 DEF RunState
    <3>3. run'[r1] = r /\ snapshot' = snapshot /\ run[r1].pc = "winners"
      BY <1>1, <1>6, <2>2, <3>1 DEF ReadWinners, At
    <3> QED
      BY <1>3, <3>2, <3>3 DEF ToldComplete
  <2> QED
    BY <2>1, <2>2
<1>7. CASE WriteSnapshot(r1)
  <2>1. run[r1].status = "complete" /\ run'[r1] = Idle
    BY <1>1, <1>3, <1>7 DEF WriteSnapshot, At, End
  <2>2. snapshot' = SnapshotOf(run[r1])
    BY <1>7 DEF WriteSnapshot
  <2>3. Labelled'
    BY <2>1, <2>2 DEF Labelled, SnapshotOf, NoSnapshot
  <2> QED
    BY <2>1, <2>3 DEF ToldComplete, Idle
<1> QED
  BY <1>3, <1>4, <1>5, <1>6, <1>7
  DEF Step, Report, SendFinalize, SendRequest, SendReveal, ReadAfterRequest, Await, ScanMatch,
      Scanned, ReadAfterReveal, At

(* An idle runner only starts. *)
LEMMA NoStepOfIdle ==
  ASSUME NEW p, Step(p)
  PROVE  run[p].pc # "idle"
<1>1. CASE RefuseLedger(p) \/ ReadStatus(p) \/ Report(p) \/ Await(p) \/ ReadAfterRequest(p)
  BY <1>1 DEF RefuseLedger, ReadStatus, Report, Await, ReadAfterRequest, At
<1>2. CASE SendFinalize(p) \/ SendRequest(p) \/ SendReveal(p)
  BY <1>2 DEF SendFinalize, SendRequest, SendReveal, At
<1>3. CASE (\E m \in Matches : ScanMatch(p, m)) \/ Scanned(p) \/ ReadAfterReveal(p)
  BY <1>3 DEF ScanMatch, Scanned, ReadAfterReveal, At
<1>4. CASE ReadWinners(p) \/ WriteSnapshot(p)
  BY <1>4 DEF ReadWinners, WriteSnapshot, At
<1> QED
  BY <1>1, <1>2, <1>3, <1>4 DEF Step

(* Whatever happens, the label stays, and the only run knows it. *)
LEMMA LabelNext ==
  ASSUME RunnerInv, LabelInv, [MCNext]_mcVars
  PROVE  LabelInv' /\ (view = "alone" /\ Labelled => Labelled' \/ snapshot' = snapshot)
<1> SUFFICES ASSUME view = "alone"
             PROVE  LabelInv' /\ (Labelled => Labelled' \/ snapshot' = snapshot)
  BY DEF MCNext, mcVars, LabelInv
<1>1. r1 \in Runners /\ run \in [Runners -> RunState] /\ mempool \in Seq(Transaction)
  BY ViewAssumption DEF RunnerInv, TypeOK
<1>2. /\ \A p \in Runners \ {r1} : run[p].pc = "idle"
      /\ Labelled => ToldComplete(run[r1])
  BY DEF LabelInv
<1>3. CASE UNCHANGED mcVars
  BY <1>3 DEF mcVars, vars, LabelInv, Labelled
<1>4. CASE MCNext
  <2>1. Next /\ view' = view /\ \A p \in Runners \ {r1} : run'[p].pc = "idle"
    BY <1>4 DEF MCNext
  <2> SUFFICES (Labelled' => ToldComplete(run'[r1])) /\ (Labelled => Labelled' \/ snapshot' = snapshot)
    BY <2>1 DEF LabelInv
  <2>2. ASSUME NEW p \in Runners, NEW mode \in Modes, Start(p, mode)
        PROVE  ToldComplete(run'[r1]) /\ snapshot' = snapshot
    <3>1. PICK r : r = [Idle EXCEPT !.pc = "status", !.mode = mode, !.ledger = file]
      OBVIOUS
    <3>2. r.pc = "status"
      BY <3>1 DEF Idle
    <3>3. run' = [run EXCEPT ![p] = r] /\ snapshot' = snapshot
      BY <2>2, <3>1 DEF Start
    <3>4. run'[p] = r
      BY <1>1, <3>3
    <3>5. p = r1
      BY <2>1, <3>2, <3>4
    <3> QED
      BY <3>2, <3>3, <3>4, <3>5 DEF ToldComplete
  <2>3. ASSUME NEW p \in Runners, Kill(p) PROVE run'[r1].pc = "idle" /\ snapshot' = snapshot
    <3>1. p = r1
      BY <1>2, <2>3 DEF Kill, At
    <3> QED
      BY <1>1, <2>3, <3>1 DEF Kill, End, Idle
  <2>4. ASSUME NEW p \in Runners, Step(p)
        PROVE  (Labelled' => ToldComplete(run'[r1])) /\ (Labelled => Labelled' \/ snapshot' = snapshot)
    <3>1. p = r1
      BY <1>2, <2>4, NoStepOfIdle
    <3>2. CASE Labelled
      BY <1>2, <2>4, <3>1, <3>2, LabelledRun
    <3>3. CASE ~ Labelled
      <4>1. CASE snapshot' = snapshot
        BY <3>3, <4>1 DEF Labelled
      <4>2. CASE snapshot' # snapshot
        <5>1. WriteSnapshot(r1)
          BY <2>4, <3>1, <4>2
          DEF Step, RefuseLedger, ReadStatus, Report, SendFinalize, SendRequest, SendReveal, Send,
              ReadAfterRequest, Await, ScanMatch, Scanned, ReadAfterReveal, ReadWinners
        <5> QED
          BY <1>1, <3>3, <5>1 DEF WriteSnapshot, End, Idle, ToldComplete
      <4> QED
        BY <4>1, <4>2
    <3> QED
      BY <3>2, <3>3
  <2>5. CASE Mine
    <3>1. snapshot' = snapshot /\ mempool # <<>>
      BY <2>5 DEF Mine
    <3>2. Head(mempool) \in Transaction
      BY <1>1, <3>1, HeadTailProperties
    <3>3. ASSUME Labelled, Head(mempool).by = r1 PROVE FALSE
      BY <1>1, <1>2, <3>1, <3>2, <3>3, SenderWaits DEF ToldComplete, WaitOf, Transaction
    <3>4. Labelled => run'[r1] = run[r1]
      BY <1>1, <2>5, <3>3 DEF Mine, LandFinalize, LandRequest, LandReveal, Revert, Wake
    <3> QED
      BY <1>2, <3>1, <3>4 DEF Labelled
  <2>6. CASE Answer
    BY <1>2, <2>6 DEF Answer, Labelled
  <2>7. ASSUME NEW l \in Ledgers, WriteLedger(l)
        PROVE  run' = run /\ snapshot' = snapshot
    BY <2>7 DEF WriteLedger
  <2>8. ASSUME run'[r1] = run[r1] \/ ToldComplete(run'[r1]), snapshot' = snapshot
        PROVE  (Labelled' => ToldComplete(run'[r1])) /\ (Labelled => Labelled' \/ snapshot' = snapshot)
    BY <1>2, <2>8 DEF Labelled
  <2> QED
    BY <2>1, <2>2, <2>3, <2>4, <2>5, <2>6, <2>7, <2>8 DEF Next, ToldComplete
<1> QED
  BY <1>3, <1>4

(* With one runner at a time, a winners file labelled revealed stays so, for
   any matches, ledgers, batch size and number of killed runs. *)
THEOREM LabelsCorrect == MCSpec => LabelNeverRegresses
<1>1. MCInit => RunnerInv /\ LabelInv
  BY InitRunnerInv DEF MCInit, LabelInv, Labelled, Init, Idle
<1>2. RunnerInv /\ [MCNext]_mcVars => RunnerInv'
  BY RunnerInvNext DEF MCNext, mcVars
<1>3. RunnerInv /\ LabelInv /\ [MCNext]_mcVars => LabelInv'
  BY LabelNext
<1>4. RunnerInv /\ LabelInv /\ [MCNext]_mcVars =>
        [view = "alone" /\ snapshot # NoSnapshot /\ snapshot.fulfilled
           => snapshot'.fulfilled]_<<view, snapshot>>
  BY LabelNext DEF Labelled
<1> QED
  BY <1>1, <1>2, <1>3, <1>4, PTL DEF MCSpec, LabelNeverRegresses
=============================================================================
