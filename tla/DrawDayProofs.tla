---------------------------- MODULE DrawDayProofs ----------------------------
(***************************************************************************)
(* The day of a draw as operators and readers see it, for any number of    *)
(* pages, readers, rounds, redraws and challenges: a run of the draw       *)
(* server works for the challenge it was started with and for no other,    *)
(* and the winners board lists draws that the contract has made.           *)
(***************************************************************************)
EXTENDS DrawDay, FiniteSetTheorems, TLAPS

-----------------------------------------------------------------------------
(* The server, its challenges and its processes. *)

(* A challenge and a run, as the server keeps them. *)
Challenge == [action : Actions, draw : Draws, state : {"live", "gone"}]
Run == [nonce : Nat, action : Actions, draw : Draws, pc : Open \cup {"done", "failed", "killed"},
        waited : BOOLEAN, late : BOOLEAN]

(* The types of the server and of the contract it looks at. *)
AdminTyped ==
  /\ chain \in [Draws -> {"none", "requested", "answered", "revealed"}]
  /\ challenges \in Seq(Challenge)
  /\ runs \in Seq(Run)
  /\ running \in BOOLEAN /\ last \in Nat

(* A challenge that started a run is gone for any other, and says what the *)
(* run does.                                                               *)
RunsAreSigned ==
  \A i \in DOMAIN runs :
    /\ runs[i].nonce \in DOMAIN challenges
    /\ challenges[runs[i].nonce].action = runs[i].action
    /\ challenges[runs[i].nonce].draw = runs[i].draw
    /\ challenges[runs[i].nonce].state = "gone"
    /\ \A j \in DOMAIN runs : runs[j].nonce = runs[i].nonce => j = i

(* The flag is up exactly while a process is at work, and there is no      *)
(* second one.                                                             *)
FlagTellsTheRun ==
  /\ running <=> \E i \in DOMAIN runs : runs[i].pc \in Open
  /\ \A i, j \in DOMAIN runs : runs[i].pc \in Open /\ runs[j].pc \in Open => i = j

(* The invariant of the server. *)
AdminInv == AdminTyped /\ RunsAreSigned /\ FlagTellsTheRun

(* What a page keeps: its choices, and the button that was pressed. *)
PressState == [pc : {"idle", "asking", "signing", "posting", "awaiting", "refused"}, action : Actions,
           draw : Draws, number : 1..MaxAttempt, nonce : Nat, run : Nat]
PageState == [round : Rounds, redraw : BOOLEAN, number : 1..MaxAttempt, mine : SUBSET Draws,
              press : PressState]

(* The pages need no more than their types. *)
RoomTyped == page \in [Pages -> PageState]

-----------------------------------------------------------------------------

(* At first there is neither a challenge nor a run. *)
LEMMA AdminInitHolds == AdminInit => AdminInv
<1> SUFFICES ASSUME AdminInit PROVE AdminInv
  OBVIOUS
<1>1. challenges \in Seq(Challenge) /\ runs \in Seq(Run) /\ DOMAIN runs = {} /\ running = FALSE /\ last = 0
  BY DEF AdminInit
<1>2. chain \in [Draws -> {"none", "requested", "answered", "revealed"}]
  BY DEF AdminInit
<1> QED
  BY <1>1, <1>2 DEF AdminInv, AdminTyped, RunsAreSigned, FlagTellsTheRun

(* A challenge that goes stays what it was for. *)
LEMMA Goes ==
  ASSUME AdminInv, NEW n \in DOMAIN challenges
  PROVE  LET g == [challenges[n] EXCEPT !.state = "gone"]
         IN  /\ g \in Challenge /\ g.state = "gone"
             /\ g.action = challenges[n].action /\ g.draw = challenges[n].draw
<1>1. challenges[n] \in Challenge
  BY DEF AdminInv, AdminTyped
<1> QED
  BY <1>1 DEF Challenge

(* A sequence that grows, or changes in one place. *)
LEMMA SeqFacts ==
  ASSUME NEW S, NEW s \in Seq(S)
  PROVE  /\ \A x \in S : /\ Append(s, x) \in Seq(S)
                         /\ DOMAIN Append(s, x) = DOMAIN s \cup {Len(s) + 1}
                         /\ Len(s) + 1 \notin DOMAIN s
                         /\ Append(s, x)[Len(s) + 1] = x
                         /\ \A i \in DOMAIN s : Append(s, x)[i] = s[i]
         /\ \A x \in S, i \in DOMAIN s : [s EXCEPT ![i] = x] \in Seq(S)
         /\ \A i \in DOMAIN s : s[i] \in S
OBVIOUS

(* Whatever the contract does with a draw, it does not undo. *)
OnChain(c, d, status) ==
  \/ status = "partial" /\ c[d] \in {"answered", "revealed"}
  \/ status = "revealed" /\ c[d] = "revealed"

(* No draw goes back on chain, and the chain writes no file. *)
LEMMA ChainMoves ==
  ASSUME AdminInv, \/ \E tx \in mempool : Mine(tx)
                   \/ \E d \in Draws : Answer(d)
  PROVE  /\ chain' \in [Draws -> {"none", "requested", "answered", "revealed"}]
         /\ \A d \in Draws : \A status : OnChain(chain, d, status) => OnChain(chain', d, status)
         /\ UNCHANGED <<fileVars, serverVars>>
<1>1. ASSUME NEW tx \in mempool, Mine(tx)
      PROVE  /\ chain' \in [Draws -> {"none", "requested", "answered", "revealed"}]
             /\ \A d \in Draws : /\ chain[d] = "revealed" => chain'[d] = "revealed"
                                 /\ chain[d] = "answered" => chain'[d] \in {"answered", "revealed"}
  BY <1>1 DEF Mine, AdminInv, AdminTyped
<1>2. ASSUME NEW d \in Draws, Answer(d)
      PROVE  /\ chain' \in [Draws -> {"none", "requested", "answered", "revealed"}]
             /\ \A e \in Draws : chain[e] \in {"answered", "revealed"} => chain'[e] = chain[e]
  BY <1>2 DEF Answer, AdminInv, AdminTyped
<1> QED
  BY <1>1, <1>2 DEF OnChain, Mine, Answer

(* A challenge is handed out. *)
LEMMA CreateHolds ==
  ASSUME AdminInv, NEW action \in Actions, NEW d \in Draws, CreateChallenge(action, d)
  PROVE  AdminInv'
<1> DEFINE c == [action |-> action, draw |-> d, state |-> "live"]
<1>1. c \in Challenge
  BY DEF Challenge
<1>2. challenges' = Append(challenges, c) /\ UNCHANGED <<chain, runs, running, last>>
  BY DEF CreateChallenge, chainVars
<1> HIDE DEF c
<1> QED
  BY <1>1, <1>2, SeqFacts DEF AdminInv, AdminTyped, RunsAreSigned, FlagTellsTheRun

(* A challenge that is gone, or goes, is of no use for another run. *)
LEMMA ChallengesGo ==
  ASSUME AdminInv, UNCHANGED <<chain, runs, running, last>>, challenges' \in Seq(Challenge),
         DOMAIN challenges' = DOMAIN challenges,
         \A n \in DOMAIN challenges :
           /\ challenges'[n].action = challenges[n].action /\ challenges'[n].draw = challenges[n].draw
           /\ challenges[n].state = "gone" => challenges'[n].state = "gone"
  PROVE  AdminInv'
  BY DEF AdminInv, AdminTyped, RunsAreSigned, FlagTellsTheRun

(* A challenge that burns stays in its place, and the others as they were. *)
LEMMA BurnTyped ==
  ASSUME AdminInv, NEW n
  PROVE  /\ Burn(n) \in Seq(Challenge) /\ DOMAIN Burn(n) = DOMAIN challenges
         /\ \A m \in DOMAIN challenges :
              /\ Burn(n)[m].action = challenges[m].action /\ Burn(n)[m].draw = challenges[m].draw
              /\ challenges[m].state = "gone" \/ m = n => Burn(n)[m].state = "gone"
<1>1. CASE n \in DOMAIN challenges
  <2>1. PICK g \in Challenge : /\ g = [challenges[n] EXCEPT !.state = "gone"]
                               /\ g.state = "gone" /\ g.action = challenges[n].action
                               /\ g.draw = challenges[n].draw
    BY <1>1, Goes
  <2>2. Burn(n) = [challenges EXCEPT ![n] = g]
    BY <1>1, <2>1 DEF Burn
  <2>3. /\ Burn(n) \in Seq(Challenge) /\ DOMAIN Burn(n) = DOMAIN challenges
        /\ \A m \in DOMAIN challenges : Burn(n)[m] = IF m = n THEN g ELSE challenges[m]
    <3>1. challenges \in Seq(Challenge)
      BY DEF AdminInv, AdminTyped
    <3>2. [challenges EXCEPT ![n] = g] \in Seq(Challenge)
      BY <1>1, <3>1, SeqFacts
    <3> QED
      BY <1>1, <2>2, <3>1, <3>2
  <2> QED
    BY <2>1, <2>3
<1> QED
  BY <1>1 DEF Burn, AdminInv, AdminTyped

(* A run that starts takes a live challenge with it, while nothing runs. *)
LEMMA StartHolds ==
  ASSUME AdminInv, NEW n, NEW action, NEW d, StartRun(n, action, d)
  PROVE  AdminInv'
<1> DEFINE run == [nonce |-> n, action |-> action, draw |-> d,
                   pc |-> "started", waited |-> FALSE, late |-> FALSE]
<1>1. /\ n \in DOMAIN challenges /\ challenges[n] = [action |-> action, draw |-> d, state |-> "live"]
      /\ challenges' = Burn(n) /\ runs' = Append(runs, run) /\ running' = TRUE /\ ~ running
      /\ chain' = chain /\ last' = Len(runs) + 1
  BY DEF StartRun, Valid, chainVars
<1>2. action \in Actions /\ d \in Draws /\ n \in Nat
  BY <1>1 DEF AdminInv, AdminTyped, Challenge
<1>3. run \in Run /\ run.pc \in Open
  BY <1>2 DEF Run, Open
<1>4. run.nonce = n /\ run.action = action /\ run.draw = d
  OBVIOUS
<1>5. \A i \in DOMAIN runs : runs[i].nonce # n /\ runs[i].pc \notin Open
  BY <1>1 DEF AdminInv, RunsAreSigned, FlagTellsTheRun
<1>6. challenges'[n].action = action /\ challenges'[n].draw = d /\ challenges'[n].state = "gone"
  BY <1>1, BurnTyped
<1>7. \A m \in DOMAIN challenges :
        /\ challenges'[m].action = challenges[m].action /\ challenges'[m].draw = challenges[m].draw
        /\ challenges[m].state = "gone" => challenges'[m].state = "gone"
  BY <1>1, BurnTyped
<1>8. challenges' \in Seq(Challenge) /\ DOMAIN challenges' = DOMAIN challenges
  BY <1>1, BurnTyped
<1> HIDE DEF run
<1>9. /\ runs' \in Seq(Run) /\ DOMAIN runs' = DOMAIN runs \cup {Len(runs) + 1}
      /\ Len(runs) + 1 \notin DOMAIN runs
      /\ runs'[Len(runs) + 1] = run /\ \A i \in DOMAIN runs : runs'[i] = runs[i]
  BY <1>1, <1>3, SeqFacts DEF AdminInv, AdminTyped
<1>10. AdminTyped'
  BY <1>1, <1>8, <1>9 DEF AdminInv, AdminTyped
<1>11. RunsAreSigned'
  <2> SUFFICES ASSUME NEW i \in DOMAIN runs'
               PROVE  /\ runs'[i].nonce \in DOMAIN challenges'
                      /\ challenges'[runs'[i].nonce].action = runs'[i].action
                      /\ challenges'[runs'[i].nonce].draw = runs'[i].draw
                      /\ challenges'[runs'[i].nonce].state = "gone"
                      /\ \A j \in DOMAIN runs' : runs'[j].nonce = runs'[i].nonce => j = i
    BY DEF RunsAreSigned
  <2>1. CASE i = Len(runs) + 1
    BY <1>1, <1>4, <1>5, <1>6, <1>8, <1>9, <2>1
  <2>2. CASE i \in DOMAIN runs
    BY <1>4, <1>5, <1>7, <1>8, <1>9, <2>2 DEF AdminInv, RunsAreSigned
  <2> QED
    BY <1>9, <2>1, <2>2
<1>12. FlagTellsTheRun'
  BY <1>1, <1>3, <1>5, <1>9 DEF FlagTellsTheRun
<1> QED
  BY <1>10, <1>11, <1>12 DEF AdminInv

(* A refused run may cost the challenge, and no more. *)
LEMMA RefuseHolds ==
  ASSUME AdminInv, NEW n, NEW action, NEW d, RefuseRun(n, action, d)
  PROVE  AdminInv'
<1>1. challenges' = challenges \/ challenges' = Burn(n)
  BY DEF RefuseRun
<1>2. challenges \in Seq(Challenge) /\ UNCHANGED <<chain, runs, running, last>>
  BY DEF RefuseRun, chainVars, AdminInv, AdminTyped
<1> QED
  BY <1>1, <1>2, BurnTyped, ChallengesGo

(* A process gets on: what it is for does not change. *)
LEMMA RunGetsOn ==
  ASSUME AdminInv, NEW i \in DOMAIN runs, NEW r \in Run, runs[i].pc \in Open,
         runs' = [runs EXCEPT ![i] = r], UNCHANGED <<chain, challenges, last>>,
         r.nonce = runs[i].nonce, r.action = runs[i].action, r.draw = runs[i].draw,
         \/ r.pc \in Open /\ running' = running
         \/ r.pc \notin Open /\ running' = FALSE
  PROVE  AdminInv'
<1>1. runs' \in Seq(Run) /\ DOMAIN runs' = DOMAIN runs
      /\ runs'[i] = r /\ \A j \in DOMAIN runs : j # i => runs'[j] = runs[j]
  BY DEF AdminInv, AdminTyped
<1>2. AdminTyped'
  BY <1>1 DEF AdminInv, AdminTyped
<1>3. RunsAreSigned'
  BY <1>1 DEF AdminInv, RunsAreSigned
<1>4. FlagTellsTheRun'
  BY <1>1 DEF AdminInv, FlagTellsTheRun
<1> QED
  BY <1>2, <1>3, <1>4 DEF AdminInv

(* Every step of a process is a step of the one at work. *)
LEMMA RunStepHolds ==
  ASSUME AdminInv, NEW i \in DOMAIN runs, RunSteps(i)
  PROVE  AdminInv'
<1>1. runs[i] \in Run
  BY DEF AdminInv, AdminTyped
<1>2. \A pc \in Open \cup {"done", "failed"}, w, l \in BOOLEAN :
        [runs[i] EXCEPT !.pc = pc, !.waited = w, !.late = l] \in Run
  BY <1>1 DEF Run
<1>3. ASSUME NEW pc \in Open, runs[i].pc \in Open, Go(i, pc), UNCHANGED <<chain, challenges, running, last>>
      PROVE  AdminInv'
  <2> DEFINE r == [runs[i] EXCEPT !.pc = pc]
  <2>1. r \in Run /\ r.pc = pc
    BY <1>1 DEF Run
  <2> QED
    BY <1>1, <1>3, <2>1, RunGetsOn DEF Go, Run
<1>4. ASSUME NEW pc \in {"done", "failed"}, runs[i].pc \in Open, Settle(i, pc), UNCHANGED <<chain, challenges, last>>
      PROVE  AdminInv'
  <2> DEFINE r == [runs[i] EXCEPT !.pc = pc]
  <2>1. r \in Run /\ r.pc \notin Open
    BY <1>1 DEF Run, Open
  <2> QED
    BY <1>1, <1>4, <2>1, RunGetsOn DEF Settle, Go, Run
<1>5. CASE BuildLedger(i) \/ VerifyRun(i) \/ WriteHistory(i) \/ RunFails(i)
  BY <1>4, <1>5 DEF BuildLedger, VerifyRun, WriteHistory, RunFails, At, Open, chainVars
<1>6. CASE Resume(i)
  <2> DEFINE entry == [none |-> "sent", requested |-> "waiting", answered |-> "answered", revealed |-> "revealed"]
  <2>1. runs[i].pc \in Open /\ UNCHANGED <<chain, challenges, running, last>>
    BY <1>6 DEF Resume, At, Open
  <2>2. Go(i, entry[chain[runs[i].draw]])
    BY <1>6 DEF Resume
  <2>3. \A status \in {"none", "requested", "answered", "revealed"} : entry[status] \in Open
    BY DEF Open
  <2>4. chain[runs[i].draw] \in {"none", "requested", "answered", "revealed"}
    BY <1>1 DEF Run, AdminInv, AdminTyped
  <2> HIDE DEF entry
  <2> QED
    BY <1>3, <2>1, <2>2, <2>3, <2>4
<1>7. CASE Requested(i) \/ WordSeen(i) \/ SendReveal(i) \/ Revealed(i) \/ WriteWinners(i)
  BY <1>3, <1>7 DEF Requested, WordSeen, SendReveal, Revealed, WriteWinners, At, Open, chainVars
<1>8. CASE LogWaiting(i)
  <2> DEFINE r == [runs[i] EXCEPT !.waited = TRUE]
  <2>1. r \in Run /\ r.pc = runs[i].pc /\ r.nonce = runs[i].nonce /\ r.action = runs[i].action
        /\ r.draw = runs[i].draw
    BY <1>1 DEF Run
  <2>2. runs[i].pc \in Open /\ UNCHANGED <<chain, challenges, running, last>> /\ runs' = [runs EXCEPT ![i] = r]
    BY <1>8 DEF LogWaiting, At, Open, chainVars
  <2> QED
    BY <2>1, <2>2, RunGetsOn
<1>9. CASE RunTimesOut(i)
  <2> DEFINE r == [runs[i] EXCEPT !.pc = "failed", !.late = TRUE]
  <2>1. r \in Run /\ r.pc = "failed" /\ r.nonce = runs[i].nonce /\ r.action = runs[i].action
        /\ r.draw = runs[i].draw
    BY <1>1 DEF Run
  <2>2. /\ runs[i].pc \in Open /\ UNCHANGED <<chain, challenges, last>> /\ runs' = [runs EXCEPT ![i] = r]
        /\ running' = FALSE
    BY <1>9 DEF RunTimesOut, chainVars
  <2> QED
    BY <2>1, <2>2, RunGetsOn DEF Open
<1> QED
  BY <1>5, <1>6, <1>7, <1>8, <1>9 DEF RunSteps

(* What else happens around the server. *)
LEMMA WorldStepHolds ==
  ASSUME AdminInv, WorldSteps
  PROVE  AdminInv'
<1>1. ASSUME NEW n \in DOMAIN challenges, ChallengeExpires(n) PROVE AdminInv'
  <2>1. challenges' = Burn(n) /\ UNCHANGED <<chain, runs, running, last>>
    BY <1>1 DEF ChallengeExpires, Burn, chainVars
  <2> QED
    BY <2>1, BurnTyped, ChallengesGo
<1>2. CASE (\E tx \in mempool : Mine(tx)) \/ (\E d \in Draws : Answer(d))
  BY <1>2, ChainMoves DEF AdminInv, AdminTyped, RunsAreSigned, FlagTellsTheRun, serverVars
<1> QED
  BY <1>1, <1>2, RunStepHolds DEF WorldSteps

(* A restart kills the process and forgets the challenges. *)
LEMMA RestartHolds ==
  ASSUME AdminInv, ServerRestarts
  PROVE  AdminInv'
<1>1. /\ challenges' = [n \in DOMAIN challenges |-> [challenges[n] EXCEPT !.state = "gone"]]
      /\ runs' = [i \in DOMAIN runs |->
                    IF runs[i].pc \in Open THEN [runs[i] EXCEPT !.pc = "killed"] ELSE runs[i]]
      /\ running' = FALSE /\ last' = 0 /\ chain' = chain
  BY DEF ServerRestarts, chainVars
<1>2. /\ challenges' \in Seq(Challenge) /\ DOMAIN challenges' = DOMAIN challenges
      /\ \A n \in DOMAIN challenges :
           /\ challenges'[n].action = challenges[n].action
           /\ challenges'[n].draw = challenges[n].draw
           /\ challenges'[n].state = "gone"
  <2>1. \A n \in DOMAIN challenges :
          /\ challenges'[n] \in Challenge
          /\ challenges'[n].action = challenges[n].action
          /\ challenges'[n].draw = challenges[n].draw
          /\ challenges'[n].state = "gone"
    BY <1>1, Goes
  <2>2. challenges' \in Seq(Challenge) /\ DOMAIN challenges' = DOMAIN challenges
    BY <1>1, <2>1 DEF AdminInv, AdminTyped
  <2> QED
    BY <2>1, <2>2
<1>3. /\ runs' \in Seq(Run) /\ DOMAIN runs' = DOMAIN runs
      /\ \A i \in DOMAIN runs :
           /\ runs'[i].nonce = runs[i].nonce /\ runs'[i].action = runs[i].action
           /\ runs'[i].draw = runs[i].draw /\ runs'[i].pc \notin Open
  <2>1. ASSUME NEW r \in Run, r.pc \in Open
        PROVE  LET k == [r EXCEPT !.pc = "killed"]
               IN  /\ k \in Run /\ k.pc \notin Open /\ k.nonce = r.nonce
                   /\ k.action = r.action /\ k.draw = r.draw
    BY <2>1 DEF Run, Open
  <2>2. \A i \in DOMAIN runs :
           /\ runs'[i] \in Run
           /\ runs'[i].nonce = runs[i].nonce /\ runs'[i].action = runs[i].action
           /\ runs'[i].draw = runs[i].draw /\ runs'[i].pc \notin Open
    <3>1. \A i \in DOMAIN runs : runs[i] \in Run
      BY DEF AdminInv, AdminTyped
    <3> QED
      BY <1>1, <2>1, <3>1
  <2>3. runs' \in Seq(Run) /\ DOMAIN runs' = DOMAIN runs
    BY <1>1, <2>2 DEF AdminInv, AdminTyped
  <2> QED
    BY <2>2, <2>3
<1>4. AdminTyped'
  BY <1>1, <1>2, <1>3 DEF AdminInv, AdminTyped
<1>5. RunsAreSigned'
  BY <1>2, <1>3 DEF AdminInv, RunsAreSigned
<1>6. FlagTellsTheRun'
  BY <1>1, <1>3 DEF FlagTellsTheRun
<1> QED
  BY <1>4, <1>5, <1>6 DEF AdminInv

-----------------------------------------------------------------------------
(* The pages. *)

(* A page opens on a round of the draw. *)
LEMMA RoomInitHolds == RoomInit => RoomTyped
BY DrawAdminAssumption DEF RoomInit, RoomTyped, PageState, PressState, NoRun, Base, Rounds, Draws, Actions

(* A page can only ask for a draw there may be. *)
LEMMA DrawOfTyped == ASSUME RoomTyped, NEW p \in Pages PROVE DrawOf(p) \in Draws
BY DrawAdminAssumption DEF RoomTyped, PageState, DrawOf, Draws

(* What a page does is its own, or a call the server answers as always. *)
LEMMA RoomStepHolds ==
  ASSUME AdminInv, RoomTyped, NEW p \in Pages, RoomSteps(p)
  PROVE  AdminInv' /\ RoomTyped'
<1>0. page[p] \in PageState /\ page[p].press \in PressState /\ page[p].press.draw \in Draws
      /\ page[p].press.action \in Actions
  BY DEF RoomTyped, PageState, PressState
<1>1. UNCHANGED adminVars => AdminInv'
  BY DEF adminVars, chainVars, serverVars, AdminInv, AdminTyped, RunsAreSigned, FlagTellsTheRun
<1>2. AdminInv'
  <2>1. CASE ChallengeGiven(p)
    BY <1>0, <2>1, CreateHolds DEF ChallengeGiven
  <2>2. CASE RunAccepted(p)
    BY <2>2, StartHolds DEF RunAccepted
  <2>3. CASE RunRefused(p)
    BY <2>3, RefuseHolds DEF RunRefused
  <2> QED
    BY <1>1, <2>1, <2>2, <2>3
    DEF RoomSteps, Press, Sign, Succeed, Fail, FailAndRedraw, GiveUp, SelectRound, SelectRedraw
<1> SUFFICES RoomTyped'
  BY <1>2
<1>3. NoRun \in PressState
  BY DrawAdminAssumption DEF PressState, NoRun, Base, Rounds, Draws, Actions
<1>4. ASSUME NEW s \in PageState, page' = [page EXCEPT ![p] = s] PROVE RoomTyped'
  BY <1>4 DEF RoomTyped
<1>5. \A q \in PressState : [page[p] EXCEPT !.press = q] \in PageState
  BY <1>0 DEF PageState
<1>6. CASE Press(p)
  <2>1. DrawOf(p) \in Draws
    BY DrawOfTyped
  <2> DEFINE action == IF DrawOf(p) \in locked THEN "broadcast" ELSE "ledger"
  <2>2. PICK q \in PressState : q = [NoRun EXCEPT !.pc = "asking", !.action = action, !.draw = DrawOf(p),
                                              !.number = page[p].number]
    BY <1>0, <1>3, <2>1 DEF PageState, PressState, Actions
  <2>3. page' = [page EXCEPT ![p].press = q]
    BY <1>6, <2>2 DEF Press
  <2>4. PICK s \in PageState : s = [page[p] EXCEPT !.press = q]
    BY <1>5
  <2> QED
    BY <1>4, <2>3, <2>4
<1>7. ASSUME NEW q \in PressState, page' = [page EXCEPT ![p].press = q] PROVE RoomTyped'
  <2>1. PICK s \in PageState : s = [page[p] EXCEPT !.press = q]
    BY <1>5
  <2> QED
    BY <1>4, <1>7, <2>1
<1>8. CASE ChallengeGiven(p)
  <2>1. PICK n \in Nat : n = Len(challenges) + 1
    BY DEF AdminInv, AdminTyped
  <2>2. PICK q \in PressState : q = [page[p].press EXCEPT !.pc = "signing", !.nonce = n]
    BY <1>0 DEF PressState
  <2>3. page' = [page EXCEPT ![p].press = q]
    BY <1>8, <2>1, <2>2 DEF ChallengeGiven
  <2> QED
    BY <1>7, <2>3
<1>9. CASE Sign(p)
  <2>1. PICK q \in PressState : q = [page[p].press EXCEPT !.pc = "posting"]
    BY <1>0 DEF PressState
  <2>2. page' = [page EXCEPT ![p].press = q]
    BY <1>9, <2>1 DEF Sign
  <2> QED
    BY <1>7, <2>2
<1>10. CASE RunAccepted(p)
  <2>1. PICK n \in Nat : n = Len(runs) + 1
    BY DEF AdminInv, AdminTyped
  <2>2. PICK q \in PressState : q = [page[p].press EXCEPT !.pc = "awaiting", !.run = n]
    BY <1>0 DEF PressState
  <2>3. page' = [page EXCEPT ![p].press = q]
    BY <1>10, <2>1, <2>2 DEF RunAccepted
  <2> QED
    BY <1>7, <2>3
<1>11. CASE RunRefused(p)
  <2>1. last \in Nat
    BY DEF AdminInv, AdminTyped
  <2>2. PICK q \in PressState : q = [page[p].press EXCEPT !.pc = "refused", !.run = last]
    BY <1>0, <2>1 DEF PressState
  <2>3. page' = [page EXCEPT ![p].press = q]
    BY <1>11, <2>2 DEF RunRefused
  <2> QED
    BY <1>7, <2>3
<1>12. CASE Fail(p) \/ GiveUp(p)
  BY <1>3, <1>7, <1>12 DEF Fail, GiveUp
<1>13. CASE Succeed(p)
  <2>1. PICK m \in SUBSET Draws :
          m = IF page[p].press.action = "broadcast" THEN {page[p].press.draw} ELSE page[p].mine
    BY <1>0 DEF PageState
  <2>2. PICK s \in PageState : s = [page[p] EXCEPT !.press = NoRun, !.mine = m]
    BY <1>0, <1>3 DEF PageState
  <2>3. page' = [page EXCEPT ![p] = s]
    BY <1>13, <2>1, <2>2 DEF Succeed
  <2> QED
    BY <1>4, <2>3
<1>14. CASE FailAndRedraw(p)
  <2> DEFINE press == page[p].press
  <2>1. PICK n \in 1..MaxAttempt :
          n = IF press.draw.attempt # 0 /\ press.number < MaxAttempt THEN press.number + 1 ELSE press.number
    BY <1>0, DrawAdminAssumption DEF PressState
  <2>2. PICK s \in PageState : s = [page[p] EXCEPT !.press = NoRun, !.redraw = TRUE, !.number = n]
    BY <1>0, <1>3 DEF PageState
  <2>3. page' = [page EXCEPT ![p] = s]
    BY <1>14, <2>1, <2>2 DEF FailAndRedraw
  <2> QED
    BY <1>4, <2>3
<1>15. ASSUME NEW r \in Rounds, SelectRound(p, r) PROVE RoomTyped'
  <2>1. PICK s \in PageState : s = [page[p] EXCEPT !.round = r, !.redraw = FALSE, !.number = 1, !.mine = {}]
    <3>1. 1 \in 1..MaxAttempt /\ {} \in SUBSET Draws
      BY DrawAdminAssumption
    <3> QED
      BY <1>0, <3>1 DEF PageState
  <2> QED
    BY <1>4, <1>15, <2>1 DEF SelectRound
<1>16. ASSUME NEW enabled \in BOOLEAN, NEW number \in 1..MaxAttempt, SelectRedraw(p, enabled, number)
       PROVE  RoomTyped'
  <2>1. PICK s \in PageState : s = [page[p] EXCEPT !.redraw = enabled, !.number = number, !.mine = {}]
    BY <1>0 DEF PageState
  <2> QED
    BY <1>4, <1>16, <2>1 DEF SelectRedraw
<1> QED
  BY <1>2, <1>6, <1>8, <1>9, <1>10, <1>11, <1>12, <1>13, <1>14, <1>15, <1>16 DEF RoomSteps

-----------------------------------------------------------------------------
(* The board. *)

(* What a file says of a draw, and what a reader has asked for. *)
Snap == [draw : Draws, status : {"missing", "partial", "revealed"}]
Request == [pc : {"idle", "waiting", "given"}, waits : SUBSET Rounds, lists : SUBSET Snap]

(* The types of the files and of the readers. *)
BoardTyped ==
  /\ winners \in Snap /\ history \in [Rounds -> Snap]
  /\ tasks \in [Rounds -> {"none", "started", "partial", "revealed", "written"}]
  /\ reader \in [Readers -> Request]

(* What is said of a draw is true of the contract c. *)
Drawn(c, s) == OnChain(c, s.draw, s.status)

(* The files, and what the processes that write them have read. *)
FilesAreDrawn ==
  /\ winners = NoFile \/ Drawn(chain, winners)
  /\ \A r \in Rounds : history[r] = NoFile \/ (history[r].draw.round = r /\ Drawn(chain, history[r]))
  /\ \A i \in DOMAIN runs :
       runs[i].pc \in {"revealed", "published"} => OnChain(chain, runs[i].draw, "revealed")
  /\ \A r \in Rounds : tasks[r] \in {"partial", "revealed"} => OnChain(chain, Base(r), tasks[r])

(* A round that is waited for is not listed yet. *)
OneDrawPerRound ==
  \A b \in Readers : \A s \in reader[b].lists :
    /\ Drawn(chain, s) /\ s.draw.round \notin reader[b].waits
    /\ \A t \in reader[b].lists : t.draw.round = s.draw.round => t = s

(* The invariant of the board. *)
BoardInv == BoardTyped /\ FilesAreDrawn /\ OneDrawPerRound

(* A file that is missing speaks of no draw. *)
LEMMA NoFileTyped == NoFile \in Snap /\ NoFile.status = "missing" /\ \A r \in Rounds : Base(r) \in Draws /\ Base(r).round = r
BY DrawAdminAssumption DEF NoFile, Snap, Base, Draws, Rounds

(* A snapshot speaks of the draw it was asked for. *)
LEMMA SnapshotTyped ==
  \A d \in Draws, status \in {"partial", "revealed"} :
    LET s == Snapshot(d, status) IN s \in Snap /\ s.draw = d /\ s.status = status
BY DEF Snapshot, Snap

(* At first there are no files. *)
LEMMA BoardInitHolds == AdminInit /\ BoardInit => BoardInv
<1> SUFFICES ASSUME AdminInit, BoardInit PROVE BoardInv
  OBVIOUS
<1>1. winners = NoFile /\ history = [r \in Rounds |-> NoFile] /\ DOMAIN runs = {}
  BY DEF AdminInit
<1>2. tasks = [r \in Rounds |-> "none"] /\ \A b \in Readers : reader[b].lists = {}
  BY DEF BoardInit, NoRequest
<1>3. BoardTyped
  BY <1>1, <1>2, NoFileTyped DEF BoardInit, NoRequest, Request, BoardTyped
<1> QED
  BY <1>1, <1>2, <1>3 DEF BoardInv, FilesAreDrawn, OneDrawPerRound

(* What the server and the contract do leaves the board as good as it was. *)
LEMMA BoardStays ==
  ASSUME AdminInv, BoardInv, UNCHANGED boardVars,
         \A d \in Draws : \A status : OnChain(chain, d, status) => OnChain(chain', d, status),
         winners' \in Snap, history' \in [Rounds -> Snap],
         winners' = winners \/ Drawn(chain', winners'),
         \A r \in Rounds : \/ history'[r] = history[r]
                           \/ history'[r].draw.round = r /\ Drawn(chain', history'[r]),
         \A i \in DOMAIN runs' : runs'[i].pc \in {"revealed", "published"} => OnChain(chain', runs'[i].draw, "revealed")
  PROVE  BoardInv'
<1>1. BoardTyped'
  BY DEF BoardInv, BoardTyped, boardVars
<1>2. \A s \in Snap : Drawn(chain, s) => Drawn(chain', s)
  BY DEF Drawn, Snap
<1>3. FilesAreDrawn'
  <2>1. winners' = NoFile \/ Drawn(chain', winners')
    BY <1>2 DEF BoardInv, BoardTyped, FilesAreDrawn
  <2>2. \A r \in Rounds : history'[r] = NoFile \/ (history'[r].draw.round = r /\ Drawn(chain', history'[r]))
    BY <1>2 DEF BoardInv, BoardTyped, FilesAreDrawn
  <2>3. \A r \in Rounds : tasks'[r] \in {"partial", "revealed"} => OnChain(chain', Base(r), tasks'[r])
    BY NoFileTyped DEF BoardInv, FilesAreDrawn, boardVars
  <2> QED
    BY <2>1, <2>2, <2>3 DEF FilesAreDrawn, NoFile
<1>4. OneDrawPerRound'
  <2>1. \A b \in Readers : reader[b].lists \subseteq Snap
    BY DEF BoardInv, BoardTyped, Request
  <2> QED
    BY <1>2, <2>1 DEF BoardInv, OneDrawPerRound, boardVars
<1> QED
  BY <1>1, <1>3, <1>4 DEF BoardInv

(* A step that writes neither of the files nor the contract. *)
LEMMA RunsStay ==
  ASSUME AdminInv, BoardInv, UNCHANGED boardVars, UNCHANGED <<chain, winners, history>>,
         \A i \in DOMAIN runs' : runs'[i].pc \in {"revealed", "published"} =>
           /\ i \in DOMAIN runs /\ runs'[i].draw = runs[i].draw
           /\ runs[i].pc \in {"revealed", "published"} \/ OnChain(chain, runs[i].draw, "revealed")
  PROVE  BoardInv'
<1>1. \A d, status : OnChain(chain', d, status) <=> OnChain(chain, d, status)
  BY DEF OnChain
<1>2. \A i \in DOMAIN runs' : runs'[i].pc \in {"revealed", "published"} => OnChain(chain', runs'[i].draw, "revealed")
  BY <1>1 DEF BoardInv, FilesAreDrawn
<1>3. winners' \in Snap /\ history' \in [Rounds -> Snap]
  BY DEF BoardInv, BoardTyped
<1>4. winners' = winners /\ \A r \in Rounds : history'[r] = history[r]
  OBVIOUS
<1>5. \A d \in Draws : \A status : OnChain(chain, d, status) => OnChain(chain', d, status)
  BY <1>1
<1> QED
  BY <1>2, <1>3, <1>4, <1>5, BoardStays

(* A call of the API writes no file. *)
LEMMA RequestsKeepBoard ==
  ASSUME AdminInv, BoardInv, UNCHANGED boardVars,
         \/ \E action \in Actions, d \in Draws : \E n : CreateChallenge(action, d) \/ RefuseRun(n, action, d)
         \/ \E action, d, n : StartRun(n, action, d)
         \/ \E n : ChallengeExpires(n)
         \/ SyncFinals \/ ServerRestarts
         \/ UNCHANGED adminVars
  PROVE  BoardInv'
<1>1. UNCHANGED <<chain, winners, history>>
  BY DEF CreateChallenge, RefuseRun, StartRun, ChallengeExpires, SyncFinals, ServerRestarts,
         adminVars, chainVars, fileVars
<1>2. ASSUME NEW action, NEW d, NEW n, StartRun(n, action, d) PROVE BoardInv'
  <2> DEFINE run == [nonce |-> n, action |-> action, draw |-> d,
                     pc |-> "started", waited |-> FALSE, late |-> FALSE]
  <2>1. runs' = Append(runs, run) /\ run.pc = "started"
    BY <1>2 DEF StartRun
  <2> HIDE DEF run
  <2>2. \A i \in DOMAIN runs' : runs'[i] = run \/ (i \in DOMAIN runs /\ runs'[i] = runs[i])
    BY <2>1 DEF AdminInv, AdminTyped
  <2> QED
    BY <1>1, <2>1, <2>2, RunsStay
<1>3. CASE ServerRestarts
  <2>1. runs' = [i \in DOMAIN runs |->
                  IF runs[i].pc \in Open THEN [runs[i] EXCEPT !.pc = "killed"] ELSE runs[i]]
    BY <1>3 DEF ServerRestarts
  <2>2. \A i \in DOMAIN runs : runs[i] \in Run
    BY DEF AdminInv, AdminTyped
  <2>3. \A i \in DOMAIN runs' : i \in DOMAIN runs /\ runs'[i].pc \notin {"revealed", "published"}
    BY <2>1, <2>2 DEF Run, Open
  <2> QED
    BY <1>1, <2>3, RunsStay
<1>4. runs' = runs => BoardInv'
  BY <1>1, RunsStay
<1> QED
  BY <1>2, <1>3, <1>4 DEF CreateChallenge, RefuseRun, ChallengeExpires, SyncFinals, adminVars, serverVars

(* A run that says it is revealed has seen it, and only then writes. *)
LEMMA RunKeepsBoard ==
  ASSUME AdminInv, BoardInv, UNCHANGED boardVars, NEW i \in DOMAIN runs, RunSteps(i)
  PROVE  BoardInv'
<1> DEFINE d == runs[i].draw
<1>0. runs[i] \in Run /\ d \in Draws /\ chain' = chain
  <2>1. runs[i] \in Run
    BY DEF AdminInv, AdminTyped
  <2>2. chain' = chain
    BY DEF RunSteps, BuildLedger, VerifyRun, Resume, Requested, LogWaiting, WordSeen,
           SendReveal, Revealed, WriteWinners, WriteHistory, RunFails, RunTimesOut, chainVars
  <2> QED
    BY <2>1, <2>2 DEF Run
<1>1. ASSUME NEW pc, Go(i, pc), pc \in {"revealed", "published"} => runs[i].pc = "revealed" \/ chain[d] = "revealed"
      PROVE  \A j \in DOMAIN runs' : runs'[j].pc \in {"revealed", "published"} =>
               /\ j \in DOMAIN runs /\ runs'[j].draw = runs[j].draw
               /\ runs[j].pc \in {"revealed", "published"} \/ OnChain(chain, runs[j].draw, "revealed")
  BY <1>0, <1>1 DEF Go, OnChain, Run, AdminInv, AdminTyped
<1>2. CASE BuildLedger(i) \/ VerifyRun(i) \/ RunFails(i) \/ Requested(i) \/ SendReveal(i)
  <2>1. PICK pc \in {"done", "failed", "waiting", "revealing"} : Go(i, pc)
    BY <1>2 DEF BuildLedger, VerifyRun, RunFails, Requested, SendReveal, Settle
  <2>2. UNCHANGED <<chain, winners, history>>
    BY <1>2 DEF BuildLedger, VerifyRun, RunFails, Requested, SendReveal, chainVars, fileVars
  <2> QED
    BY <1>1, <2>1, <2>2, RunsStay
<1>3. CASE Resume(i)
  <2> DEFINE entry == [none |-> "sent", requested |-> "waiting", answered |-> "answered", revealed |-> "revealed"]
  <2>1. Go(i, entry[chain[d]]) /\ UNCHANGED <<chain, winners, history>>
    BY <1>3 DEF Resume, fileVars
  <2>2. chain[d] \in {"none", "requested", "answered", "revealed"}
    BY <1>0 DEF AdminInv, AdminTyped
  <2>3. entry[chain[d]] \in {"revealed", "published"} => chain[d] = "revealed"
    BY <2>2
  <2> HIDE DEF entry
  <2> QED
    BY <1>1, <2>1, <2>3, RunsStay
<1>4. CASE WordSeen(i) \/ Revealed(i)
  <2>1. PICK pc : Go(i, pc) /\ (pc = "revealed" => chain[d] = "revealed") /\ pc # "published"
    BY <1>4 DEF WordSeen, Revealed
  <2>2. UNCHANGED <<chain, winners, history>>
    BY <1>4 DEF WordSeen, Revealed, chainVars, fileVars
  <2> QED
    BY <1>1, <2>1, <2>2, RunsStay
<1>5. CASE LogWaiting(i) \/ RunTimesOut(i)
  <2>1. UNCHANGED <<chain, winners, history>>
    BY <1>5 DEF LogWaiting, RunTimesOut, chainVars, fileVars
  <2>2. \A j \in DOMAIN runs' :
          /\ j \in DOMAIN runs /\ runs'[j].draw = runs[j].draw
          /\ runs'[j].pc \in {"revealed", "published"} => runs[j].pc \in {"revealed", "published"}
    <3>1. CASE LogWaiting(i)
      <4>1. runs' = [runs EXCEPT ![i] = [runs[i] EXCEPT !.waited = TRUE]]
        BY <3>1 DEF LogWaiting
      <4> QED
        BY <1>0, <4>1 DEF AdminInv, AdminTyped, Run
    <3>2. CASE RunTimesOut(i)
      <4>1. runs' = [runs EXCEPT ![i] = [runs[i] EXCEPT !.pc = "failed", !.late = TRUE]]
        BY <3>2 DEF RunTimesOut
      <4> QED
        BY <1>0, <4>1 DEF AdminInv, AdminTyped, Run
    <3> QED
      BY <1>5, <3>1, <3>2
  <2> QED
    BY <2>1, <2>2, RunsStay
<1>6. CASE WriteWinners(i) \/ WriteHistory(i)
  <2>1. OnChain(chain, d, "revealed") /\ \A e, status : OnChain(chain', e, status) <=> OnChain(chain, e, status)
    BY <1>0, <1>6 DEF WriteWinners, WriteHistory, At, BoardInv, FilesAreDrawn, OnChain
  <2>2. PICK s \in Snap : s = Snapshot(d, "revealed") /\ s.draw = d /\ s.status = "revealed"
    BY <1>0, SnapshotTyped
  <2>3. winners' = winners \/ winners' = s
    BY <1>6, <2>2 DEF WriteWinners, WriteHistory
  <2>4. history' = history \/ history' = [history EXCEPT ![d.round] = s]
    BY <1>6, <2>2 DEF WriteWinners, WriteHistory
  <2>5. \A r \in Rounds : history'[r] = history[r] \/ (history'[r] = s /\ s.draw.round = r)
    BY <1>0, <2>2, <2>4 DEF BoardInv, BoardTyped
  <2>6. winners' \in Snap /\ history' \in [Rounds -> Snap]
    BY <2>2, <2>3, <2>4 DEF BoardInv, BoardTyped
  <2>7. \A j \in DOMAIN runs' : runs'[j].pc \in {"revealed", "published"} => OnChain(chain', runs'[j].draw, "revealed")
    <3>1. PICK pc : Go(i, pc) /\ runs[i].pc \in {"revealed", "published"}
      BY <1>6 DEF WriteWinners, WriteHistory, At, Settle
    <3>2. \A j \in DOMAIN runs' :
            /\ j \in DOMAIN runs /\ runs'[j].draw = runs[j].draw
            /\ j # i => runs'[j].pc = runs[j].pc
      BY <1>0, <3>1 DEF Go, Run, AdminInv, AdminTyped
    <3> QED
      <4> SUFFICES ASSUME NEW j \in DOMAIN runs', runs'[j].pc \in {"revealed", "published"}
                   PROVE  OnChain(chain', runs'[j].draw, "revealed")
        OBVIOUS
      <4>1. j \in DOMAIN runs /\ runs'[j].draw = runs[j].draw /\ runs[j].pc \in {"revealed", "published"}
        BY <3>1, <3>2
      <4>2. OnChain(chain, runs[j].draw, "revealed")
        BY <4>1 DEF BoardInv, FilesAreDrawn
      <4> QED
        BY <2>1, <4>1, <4>2
  <2>8. winners' = s => Drawn(chain', winners')
    BY <2>1, <2>2 DEF Drawn
  <2>9. \A r \in Rounds : history'[r] = s => Drawn(chain', history'[r])
    BY <2>1, <2>2 DEF Drawn
  <2>10. \A e \in Draws : \A status : OnChain(chain, e, status) => OnChain(chain', e, status)
    BY <2>1
  <2> QED
    BY <2>3, <2>5, <2>6, <2>7, <2>8, <2>9, <2>10, BoardStays
<1> QED
  BY <1>2, <1>3, <1>4, <1>5, <1>6 DEF RunSteps

(* What the chain and the processes do keeps it. *)
LEMMA WorldKeepsBoard ==
  ASSUME AdminInv, BoardInv, UNCHANGED boardVars, WorldSteps
  PROVE  BoardInv'
<1>1. CASE (\E tx \in mempool : Mine(tx)) \/ (\E d \in Draws : Answer(d))
  <2>1. UNCHANGED <<winners, history, runs>>
    BY <1>1, ChainMoves DEF fileVars, serverVars
  <2>2. \A d \in Draws : \A status : OnChain(chain, d, status) => OnChain(chain', d, status)
    BY <1>1, ChainMoves
  <2>3. \A i \in DOMAIN runs : runs[i].draw \in Draws
    <3>1. \A i \in DOMAIN runs : runs[i] \in Run
      BY DEF AdminInv, AdminTyped
    <3> QED
      BY <3>1 DEF Run
  <2>4. \A i \in DOMAIN runs' : runs'[i].pc \in {"revealed", "published"} =>
          OnChain(chain', runs'[i].draw, "revealed")
    BY <2>1, <2>2, <2>3 DEF BoardInv, FilesAreDrawn
  <2>5. winners' \in Snap /\ history' \in [Rounds -> Snap]
    BY <2>1 DEF BoardInv, BoardTyped
  <2> QED
    BY <2>1, <2>2, <2>4, <2>5, BoardStays
<1> QED
  BY <1>1, RunKeepsBoard, RequestsKeepBoard DEF WorldSteps

(* The steps of the board: a task ends by giving at most the history file  *)
(* of its round, to the readers who wait for it.                           *)
LEMMA GiveHolds ==
  ASSUME BoardInv, NEW r \in Rounds, NEW given \in SUBSET Snap, UNCHANGED adminVars, GiveTo(r, given),
         \A s \in given : Drawn(chain, s) /\ s.draw.round = r,
         \A s, t \in given : s = t
  PROVE  BoardInv'
<1>1. /\ tasks' = [tasks EXCEPT ![r] = "none"]
      /\ reader' = [b \in Readers |->
           IF r \in reader[b].waits
           THEN [reader[b] EXCEPT !.waits = reader[b].waits \ {r}, !.lists = reader[b].lists \cup given]
           ELSE reader[b]]
      /\ UNCHANGED <<chain, winners, history, runs>>
  BY DEF GiveTo, adminVars, chainVars, fileVars, serverVars
<1>2. \A b \in Readers : reader[b] \in Request
  BY DEF BoardInv, BoardTyped
<1>3. ASSUME NEW q \in Request
      PROVE  LET g == [q EXCEPT !.waits = q.waits \ {r}, !.lists = q.lists \cup given]
             IN  g \in Request /\ g.waits = q.waits \ {r} /\ g.lists = q.lists \cup given
  BY <1>3 DEF Request
<1>4. \A b \in Readers :
        /\ reader'[b] \in Request
        /\ \/ reader'[b] = reader[b]
           \/ /\ r \in reader[b].waits /\ reader'[b].waits = reader[b].waits \ {r}
              /\ reader'[b].lists = reader[b].lists \cup given
  BY <1>1, <1>2, <1>3
<1>5. BoardTyped'
  BY <1>1, <1>4 DEF BoardInv, BoardTyped
<1>6. FilesAreDrawn'
  BY <1>1 DEF BoardInv, BoardTyped, FilesAreDrawn
<1>7. OneDrawPerRound'
  <2> SUFFICES ASSUME NEW b \in Readers, NEW s \in reader'[b].lists
               PROVE  /\ Drawn(chain, s) /\ s.draw.round \notin reader'[b].waits
                      /\ \A t \in reader'[b].lists : t.draw.round = s.draw.round => t = s
    BY <1>1 DEF OneDrawPerRound
  <2>1. \A t \in reader[b].lists :
          /\ Drawn(chain, t) /\ t.draw.round \notin reader[b].waits
          /\ \A u \in reader[b].lists : u.draw.round = t.draw.round => u = t
    BY DEF BoardInv, OneDrawPerRound
  <2>2. CASE reader'[b] = reader[b]
    BY <2>1, <2>2
  <2>3. CASE r \in reader[b].waits /\ reader'[b].waits = reader[b].waits \ {r}
             /\ reader'[b].lists = reader[b].lists \cup given
    BY <2>1, <2>3
  <2> QED
    BY <1>4, <2>2, <2>3
<1> QED
  BY <1>5, <1>6, <1>7 DEF BoardInv

(* Every step of a reader or of a rebuild keeps it. *)
LEMMA BoardStepHolds ==
  ASSUME AdminInv, BoardInv, BoardSteps
  PROVE  BoardInv'
<1>1. ASSUME NEW b \in Readers, AskBoard(b) PROVE BoardInv'
  <2> DEFINE prior == IF winners.status = "revealed" THEN PriorRounds(winners.draw) ELSE {}
             missing == {r \in prior : history[r] = NoFile}
             lists == {history[r] : r \in prior \ missing} \cup {w \in {winners} : w # NoFile}
             q == [pc |-> "waiting", waits |-> missing, lists |-> lists]
  <2>1. /\ reader' = [reader EXCEPT ![b] = q]
        /\ tasks' = [r \in Rounds |-> IF r \in missing /\ tasks[r] = "none" THEN "started" ELSE tasks[r]]
        /\ UNCHANGED <<chain, winners, history, runs>>
    BY <1>1 DEF AskBoard, adminVars, chainVars, fileVars, serverVars
  <2>2. prior \subseteq Rounds /\ \A r \in prior : winners.draw.round # r
    <3>1. PriorRounds(winners.draw) \subseteq Rounds
      BY DEF PriorRounds, Rounds
    <3>2. ASSUME winners.draw.round \in PriorRounds(winners.draw) PROVE FALSE
      BY <3>2, DrawAdminAssumption DEF PriorRounds
    <3> QED
      BY <3>1, <3>2
  <2>3. \A r \in prior \ missing : /\ history[r] \in Snap /\ history[r].draw.round = r
                                  /\ Drawn(chain, history[r])
    BY <2>2 DEF BoardInv, BoardTyped, FilesAreDrawn
  <2>4. winners \in Snap /\ (winners # NoFile => Drawn(chain, winners))
    BY DEF BoardInv, BoardTyped, FilesAreDrawn
  <2>5. lists \in SUBSET Snap
        /\ \A s \in lists : /\ Drawn(chain, s) /\ s.draw.round \notin missing
                            /\ \A t \in lists : t.draw.round = s.draw.round => t = s
    BY <2>2, <2>3, <2>4
  <2>6. q \in Request /\ q.waits = missing /\ q.lists = lists
    BY <2>2, <2>5 DEF Request
  <2> HIDE DEF lists, missing, q
  <2>7. BoardTyped'
    BY <2>1, <2>6 DEF BoardInv, BoardTyped
  <2>8. FilesAreDrawn'
    BY <2>1 DEF BoardInv, BoardTyped, FilesAreDrawn
  <2>9. OneDrawPerRound'
    BY <2>1, <2>5, <2>6 DEF BoardInv, BoardTyped, OneDrawPerRound
  <2> QED
    BY <2>7, <2>8, <2>9 DEF BoardInv
<1>2. ASSUME NEW b \in Readers, (\E known \in BOOLEAN : GiveBoard(b, known)) \/ LeaveBoard(b)
      PROVE  BoardInv'
  <2>1. reader[b] \in Request
    BY DEF BoardInv, BoardTyped
  <2>2. PICK q \in Request : /\ reader' = [reader EXCEPT ![b] = q]
                             /\ q.lists = {} \/ (q.lists = reader[b].lists /\ q.waits = reader[b].waits)
    <3>1. [reader[b] EXCEPT !.pc = "given"] \in Request /\ NoRequest \in Request
      BY <2>1 DEF Request, NoRequest
    <3> QED
      BY <1>2, <2>1, <3>1 DEF GiveBoard, LeaveBoard, Request, NoRequest
  <2>3. UNCHANGED <<chain, winners, history, runs, tasks>>
    BY <1>2 DEF GiveBoard, LeaveBoard, adminVars, chainVars, fileVars, serverVars
  <2>4. BoardTyped'
    BY <2>2, <2>3 DEF BoardInv, BoardTyped
  <2>5. FilesAreDrawn'
    BY <2>3 DEF BoardInv, FilesAreDrawn
  <2>6. OneDrawPerRound'
    BY <2>2, <2>3 DEF BoardInv, BoardTyped, OneDrawPerRound
  <2> QED
    BY <2>4, <2>5, <2>6 DEF BoardInv
<1>3. ASSUME NEW r \in Rounds, RebuildReads(r) PROVE BoardInv'
  <2>1. CASE chain[Base(r)] \in {"none", "requested"}
    BY <1>3, <2>1, GiveHolds DEF RebuildReads
  <2>2. CASE chain[Base(r)] \notin {"none", "requested"}
    <3>1. Base(r) \in Draws
      BY NoFileTyped
    <3>2. PICK status \in {"partial", "revealed"} :
            OnChain(chain, Base(r), status) /\ tasks' = [tasks EXCEPT ![r] = status]
      BY <1>3, <2>2, <3>1 DEF RebuildReads, OnChain, AdminInv, AdminTyped
    <3>3. UNCHANGED <<chain, winners, history, runs, reader>>
      BY <1>3, <2>2 DEF RebuildReads, adminVars, chainVars, fileVars, serverVars
    <3>4. BoardTyped' /\ OneDrawPerRound'
      BY <3>2, <3>3 DEF BoardInv, BoardTyped, OneDrawPerRound
    <3>5. FilesAreDrawn'
      BY <3>2, <3>3 DEF BoardInv, BoardTyped, FilesAreDrawn
    <3> QED
      BY <3>4, <3>5 DEF BoardInv
  <2> QED
    BY <2>1, <2>2
<1>4. ASSUME NEW r \in Rounds, RebuildWrites(r) PROVE BoardInv'
  <2>1. /\ history' = [history EXCEPT ![r] = Snapshot(Base(r), tasks[r])]
        /\ tasks' = [tasks EXCEPT ![r] = "written"] /\ UNCHANGED <<chain, winners, runs, reader>>
    BY <1>4 DEF RebuildWrites, chainVars, serverVars
  <2>2. PICK s \in Snap : s = Snapshot(Base(r), tasks[r]) /\ s.draw.round = r /\ Drawn(chain, s)
    BY <1>4, NoFileTyped, SnapshotTyped DEF RebuildWrites, BoardInv, FilesAreDrawn, Drawn
  <2>3. BoardTyped' /\ OneDrawPerRound'
    BY <2>1, <2>2 DEF BoardInv, BoardTyped, OneDrawPerRound
  <2>4. FilesAreDrawn'
    BY <2>1, <2>2 DEF BoardInv, BoardTyped, FilesAreDrawn
  <2> QED
    BY <2>3, <2>4 DEF BoardInv
<1>5. ASSUME NEW r \in Rounds, RebuildEnds(r) \/ RebuildFails(r) PROVE BoardInv'
  <2>1. CASE RebuildEnds(r)
    <3> DEFINE given == {s \in {history[r]} : s.status = "revealed"}
    <3>1. given \in SUBSET Snap /\ \A s, t \in given : s = t
      BY DEF BoardInv, BoardTyped
    <3>2. \A s \in given : Drawn(chain, s) /\ s.draw.round = r
      BY NoFileTyped DEF BoardInv, FilesAreDrawn
    <3> QED
      BY <2>1, <3>1, <3>2, GiveHolds DEF RebuildEnds
  <2>2. CASE RebuildFails(r)
    BY <2>2, GiveHolds DEF RebuildFails
  <2> QED
    BY <1>5, <2>1, <2>2
<1>6. CASE NodeTurns
  BY <1>6 DEF NodeTurns, adminVars, chainVars, fileVars, serverVars, BoardInv, BoardTyped,
              FilesAreDrawn, OneDrawPerRound
<1> QED
  BY <1>1, <1>2, <1>3, <1>4, <1>5, <1>6 DEF BoardSteps

-----------------------------------------------------------------------------
(* The day as a whole. *)

(* The three together are inductive: a page needs what the server answers. *)
DayInv == AdminInv /\ RoomTyped /\ BoardInv

(* A board nobody touches stays as it is. *)
LEMMA BoardAtRest ==
  ASSUME AdminInv, BoardInv, UNCHANGED adminVars, UNCHANGED boardVars
  PROVE  BoardInv'
BY RequestsKeepBoard

(* They hold as the day begins. *)
LEMMA DayInitHolds == Init => DayInv
BY AdminInitHolds, RoomInitHolds, BoardInitHolds DEF Init, DayInv

(* And after every step of it. *)
LEMMA DayStepHolds == DayInv /\ [Next]_vars => DayInv'
<1> SUFFICES ASSUME DayInv, [Next]_vars PROVE DayInv'
  OBVIOUS
<1> USE DEF DayInv
<1>0. /\ UNCHANGED adminVars => AdminInv'
      /\ UNCHANGED roomVars => RoomTyped'
  BY DEF adminVars, chainVars, serverVars, roomVars, AdminInv, AdminTyped, RunsAreSigned,
         FlagTellsTheRun, RoomTyped
<1>1. CASE UNCHANGED vars
  BY <1>0, <1>1, BoardAtRest DEF vars
<1>2. CASE ApiSteps(Draws)
  <2>1. UNCHANGED <<roomVars, boardVars>>
    BY <1>2 DEF ApiSteps
  <2>2. PICK action \in Actions, d \in Draws : ApiCall(action, d)
    BY <1>2 DEF ApiSteps
  <2>3. AdminInv'
    BY <2>2, CreateHolds, StartHolds, RefuseHolds DEF ApiCall
  <2>4. BoardInv'
    BY <2>1, <2>2, RequestsKeepBoard DEF ApiCall
  <2> QED
    BY <1>0, <2>1, <2>3, <2>4
<1>3. CASE WorldSteps /\ UNCHANGED <<roomVars, boardVars>>
  BY <1>0, <1>3, WorldStepHolds, WorldKeepsBoard
<1>4. CASE SyncFinals /\ UNCHANGED <<roomVars, boardVars>>
  <2>1. AdminInv'
    BY <1>4 DEF SyncFinals, chainVars, serverVars, AdminInv, AdminTyped, RunsAreSigned, FlagTellsTheRun
  <2> QED
    BY <1>0, <1>4, <2>1, RequestsKeepBoard
<1>5. ASSUME NEW p \in Pages, RoomSteps(p), UNCHANGED boardVars PROVE DayInv'
  <2>1. AdminInv' /\ RoomTyped'
    BY <1>5, RoomStepHolds
  <2>2. page[p].press.action \in Actions /\ page[p].press.draw \in Draws
    BY DEF RoomTyped, PageState, PressState
  <2>3. BoardInv'
    BY <1>5, <2>2, RequestsKeepBoard
    DEF RoomSteps, Press, ChallengeGiven, Sign, RunAccepted, RunRefused, Succeed, Fail, FailAndRedraw,
        GiveUp, SelectRound, SelectRedraw
  <2> QED
    BY <2>1, <2>3
<1>6. CASE BoardSteps /\ UNCHANGED roomVars
  <2>1. AdminInv'
    <3>1. UNCHANGED <<chain, challenges, runs, running, last>>
      BY <1>6 DEF BoardSteps, NodeTurns, AskBoard, GiveBoard, LeaveBoard, RebuildReads, RebuildWrites, RebuildEnds,
                  RebuildFails, adminVars, chainVars, serverVars
    <3> QED
      BY <3>1 DEF AdminInv, AdminTyped, RunsAreSigned, FlagTellsTheRun
  <2> QED
    BY <1>0, <1>6, <2>1, BoardStepHolds
<1>7. CASE Restart
  <2>1. AdminInv' /\ UNCHANGED roomVars
    BY <1>7, RestartHolds DEF Restart
  <2>2. UNCHANGED <<chain, winners, history>>
    BY <1>7 DEF Restart, ServerRestarts, chainVars, fileVars
  <2>3. \A i \in DOMAIN runs' : runs'[i].pc \notin {"revealed", "published"}
    <3>1. runs' = [i \in DOMAIN runs |->
                    IF runs[i].pc \in Open THEN [runs[i] EXCEPT !.pc = "killed"] ELSE runs[i]]
      BY <1>7 DEF Restart, ServerRestarts
    <3>2. \A i \in DOMAIN runs : runs[i] \in Run
      BY DEF AdminInv, AdminTyped
    <3> QED
      BY <3>1, <3>2 DEF Run, Open
  <2>4. tasks' = [r \in Rounds |-> "none"] /\ reader' = [b \in Readers |-> NoRequest]
    BY <1>7 DEF Restart, BoardRestarts
  <2>5. NoRequest \in Request /\ NoRequest.lists = {}
    BY DEF NoRequest, Request
  <2>6. BoardTyped'
    BY <2>2, <2>4, <2>5 DEF BoardInv, BoardTyped
  <2>7. FilesAreDrawn'
    BY <2>2, <2>3, <2>4 DEF BoardInv, FilesAreDrawn
  <2>8. OneDrawPerRound'
    BY <2>4, <2>5 DEF OneDrawPerRound
  <2> QED
    BY <1>0, <2>1, <2>6, <2>7, <2>8 DEF BoardInv
<1> QED
  BY <1>1, <1>2, <1>3, <1>4, <1>5, <1>6, <1>7 DEF Next

(* What the invariant says of the runs. *)
LEMMA SignedFollows == AdminInv => SignedRunsOneAtATime
<1> SUFFICES ASSUME AdminInv PROVE SignedRunsOneAtATime
  OBVIOUS
<1> DEFINE atWork == {i \in DOMAIN runs : runs[i].pc \in Open}
<1>1. CASE running
  <2>1. PICK i \in DOMAIN runs : atWork = {i}
    BY <1>1 DEF AdminInv, FlagTellsTheRun
  <2> QED
    BY <1>1, <2>1, FS_Singleton DEF SignedRunsOneAtATime, AdminInv, RunsAreSigned
<1>2. CASE ~ running
  <2>1. atWork = {}
    BY <1>2 DEF AdminInv, FlagTellsTheRun
  <2> QED
    BY <1>2, <2>1, FS_EmptySet DEF SignedRunsOneAtATime, AdminInv, RunsAreSigned
<1> QED
  BY <1>1, <1>2

(* What it says of the board. *)
LEMMA BoardFollows == BoardInv => BoardListsRealDraws
BY DEF BoardInv, BoardTyped, OneDrawPerRound, Drawn, OnChain, BoardListsRealDraws

(* For any number of operators' pages, readers, rounds and challenges: no  *)
(* process works on a draw that its challenge was not signed for, and the  *)
(* flag stands for exactly one process at work.                            *)
THEOREM RunsCorrect == Spec => []SignedRunsOneAtATime
<1>1. DayInv => SignedRunsOneAtATime
  BY SignedFollows DEF DayInv
<1> QED
  BY <1>1, DayInitHolds, DayStepHolds, PTL DEF Spec

(* Whatever the processes have written by then, a board lists draws of the *)
(* contract, at most one of each round.                                    *)
THEOREM BoardCorrect == Spec => []BoardListsRealDraws
<1>1. DayInv => BoardListsRealDraws
  BY BoardFollows DEF DayInv
<1> QED
  BY <1>1, DayInitHolds, DayStepHolds, PTL DEF Spec
=============================================================================
