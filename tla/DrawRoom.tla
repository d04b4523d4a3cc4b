------------------------------ MODULE DrawRoom ------------------------------
(***************************************************************************)
(* The operator's page of the draw room.  Its one button does what the     *)
(* page thinks is next: lock the ledger, then broadcast the draw.  A press *)
(* asks for a challenge, has the wallet sign it, posts the run and waits.  *)
(* When the failure reads like a stuck draw the page switches itself to    *)
(* the next redraw, and the next press draws that one.                     *)
(***************************************************************************)
EXTENDS DrawAdmin

CONSTANT Pages   \* the operators' pages open at the same time

VARIABLE page   \* what each page is doing

roomVars == <<page>>

NoRun == [pc |-> "idle", action |-> "ledger", draw |-> Base(RoundSeq[1]), number |-> 1,
          nonce |-> 0, run |-> 0]

RoomInit ==
  page = [p \in Pages |-> [round |-> RoundSeq[1], redraw |-> FALSE, number |-> 1,
                           mine |-> {}, press |-> NoRun]]

DrawOf(p) ==
  [round |-> page[p].round, attempt |-> IF page[p].redraw THEN page[p].number ELSE 0]

PressAt(p, pc) == page[p].press.pc = pc

(* The draw the status names as the last one broadcast. *)
DrawnLast ==
  IF last # 0 /\ runs[last].pc = "done" /\ runs[last].action = "broadcast"
  THEN {runs[last].draw} ELSE {}

(* The operator selects another round, during a press too: the redraw      *)
(* settings are forgotten.                                                 *)
SelectRound(p, r) ==
  /\ r # page[p].round
  /\ page' = [page EXCEPT ![p].round = r, ![p].redraw = FALSE, ![p].number = 1, ![p].mine = {}]
  /\ UNCHANGED adminVars

SelectRedraw(p, enabled, number) ==
  /\ PressAt(p, "idle") /\ ~ running
  /\ <<enabled, number>> # <<page[p].redraw, page[p].number>>
  /\ page' = [page EXCEPT ![p].redraw = enabled, ![p].number = number, ![p].mine = {}]
  /\ UNCHANGED adminVars

-----------------------------------------------------------------------------
(* A press of the button. *)

(* primaryDrawStep, by the status of the server.  What changes until the   *)
(* run is posted is for the server to refuse.                              *)
Press(p) ==
  LET d == DrawOf(p)
      action == IF d \in locked THEN "broadcast" ELSE "ledger"
  IN  /\ PressAt(p, "idle") /\ ~ running
      /\ d.round \in finals
      /\ d \notin DrawnLast \cup page[p].mine
      /\ page' = [page EXCEPT ![p].press =
                    [NoRun EXCEPT !.pc = "asking", !.action = action, !.draw = d, !.number = page[p].number]]
      /\ UNCHANGED adminVars

ChallengeGiven(p) ==
  /\ PressAt(p, "asking")
  /\ CreateChallenge(page[p].press.action, page[p].press.draw)
  /\ page' = [page EXCEPT ![p].press.pc = "signing", ![p].press.nonce = Len(challenges) + 1]

Sign(p) ==
  /\ PressAt(p, "signing")
  /\ page' = [page EXCEPT ![p].press.pc = "posting"]
  /\ UNCHANGED adminVars

RunAccepted(p) ==
  LET press == page[p].press
  IN  /\ PressAt(p, "posting")
      /\ StartRun(press.nonce, press.action, press.draw)
      /\ page' = [page EXCEPT ![p].press.pc = "awaiting", ![p].press.run = Len(runs) + 1]

(* The server refuses; its answer carries the last run, whatever it was.   *)
RunRefused(p) ==
  LET press == page[p].press
  IN  /\ PressAt(p, "posting")
      /\ RefuseRun(press.nonce, press.action, press.draw)
      /\ page' = [page EXCEPT ![p].press.pc = "refused", ![p].press.run = last]

(* finishOperatorRun *)
Succeed(p) ==
  LET press == page[p].press
  IN  /\ PressAt(p, "awaiting") /\ runs[press.run].pc = "done"
      /\ page' = [page EXCEPT ![p].press = NoRun,
                    ![p].mine = IF press.action = "broadcast" THEN {press.draw} ELSE @]
      /\ UNCHANGED adminVars

(* shouldAutoRedrawAfterFailure: the answer's error, its output or the     *)
(* last run in it speaks of waiting for the word or of the script's time.  *)
ReadsStuck(p) ==
  LET press == page[p].press
  IN  /\ press.action # "ledger" /\ press.run # 0
      /\ \/ runs[press.run].waited
         \/ runs[press.run].late /\ runs[press.run].action # "ledger"

Answered(p) ==
  \/ PressAt(p, "refused")
  \/ PressAt(p, "awaiting") /\ runs[page[p].press.run].pc = "failed"

Fail(p) ==
  /\ Answered(p) /\ ~ ReadsStuck(p)
  /\ page' = [page EXCEPT ![p].press = NoRun]
  /\ UNCHANGED adminVars

(* enableNextRedrawVersion: the redraw after the one that was pressed, of  *)
(* the round the page shows by now.                                        *)
FailAndRedraw(p) ==
  LET press == page[p].press
  IN  /\ Answered(p) /\ ReadsStuck(p)
      /\ page' = [page EXCEPT ![p].press = NoRun, ![p].redraw = TRUE,
                    ![p].number = IF press.draw.attempt # 0 /\ press.number < MaxAttempt
                                  THEN press.number + 1 ELSE press.number]
      /\ UNCHANGED adminVars

(* Mutant of GiveUp: the request for a run has no time limit. *)
GiveUpUnlessPosted(p) ==
  /\ PressAt(p, "asking") \/ PressAt(p, "signing")
  /\ page' = [page EXCEPT ![p].press = NoRun]
  /\ UNCHANGED adminVars

(* The request times out or the connection breaks, the challenge is        *)
(* refused, the rate limit is reached, the wallet does not sign: there is  *)
(* no last run to read.  A run that was started goes on.                   *)
GiveUp(p) ==
  /\ ~ PressAt(p, "idle")
  /\ page' = [page EXCEPT ![p].press = NoRun]
  /\ UNCHANGED adminVars

RoomSteps(p) ==
  \/ Press(p) \/ ChallengeGiven(p) \/ Sign(p)
  \/ RunAccepted(p) \/ RunRefused(p) \/ Succeed(p) \/ Fail(p) \/ FailAndRedraw(p) \/ GiveUp(p)
  \/ \E r \in Rounds : SelectRound(p, r)
  \/ \E enabled \in BOOLEAN, number \in 1..MaxAttempt : SelectRedraw(p, enabled, number)

-----------------------------------------------------------------------------
(* What is asked of the two sides together. *)

(* A process works on a draw only with the signature of an operator for    *)
(* that very action on that very draw, no signature starts two of them,    *)
(* and never are two at work, whatever requests cross, time out or are     *)
(* repeated: the flag is up exactly while one is.                          *)
SignedRunsOneAtATime ==
  /\ \A i \in DOMAIN runs :
       /\ challenges[runs[i].nonce].action = runs[i].action
       /\ challenges[runs[i].nonce].draw = runs[i].draw
       /\ \A j \in DOMAIN runs : runs[j].nonce = runs[i].nonce => j = i
  /\ Cardinality({i \in DOMAIN runs : runs[i].pc \in Open}) = IF running THEN 1 ELSE 0

(* "Detected a stuck on-chain round and automatically switched": a press   *)
(* ends with the page switched to another draw only while the contract     *)
(* waits for the word of the draw that was pressed.                        *)
RedrawLeavesAStuckDraw ==
  [][\A p \in Pages :
       Answered(p) /\ PressAt(p, "idle")' /\ DrawOf(p)' # DrawOf(p) =>
         chain[page[p].press.draw] = "requested"]_<<page, chain>>

=============================================================================
