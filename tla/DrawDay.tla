------------------------------ MODULE DrawDay ------------------------------
(***************************************************************************)
(* A day of drawing: the operators' pages, the draw-admin API with its     *)
(* runs, and the board the public reads, around one contract.              *)
(***************************************************************************)
EXTENDS DrawRoom, WinnersBoard

vars == <<adminVars, roomVars, boardVars>>

Init == AdminInit /\ RoomInit /\ BoardInit

(* A page whose run died with the server learns it from its connection. *)
Restart ==
  /\ ServerRestarts
  /\ BoardRestarts
  /\ UNCHANGED roomVars

ApiSteps(draws) ==
  \E action \in Actions, d \in draws : ApiCall(action, d) /\ UNCHANGED <<roomVars, boardVars>>

Next ==
  \/ ApiSteps(Draws)
  \/ (WorldSteps \/ SyncFinals) /\ UNCHANGED <<roomVars, boardVars>>
  \/ \E p \in Pages : RoomSteps(p) /\ UNCHANGED boardVars
  \/ BoardSteps /\ UNCHANGED roomVars
  \/ Restart

Spec == Init /\ [][Next]_vars

(* Timers end every run, every rebuild and every request of a page; the    *)
(* event loop answers what is ready, a board once its proofs are there.    *)
(* Operators, wallets, nodes and the coordinator owe nothing.              *)
Fairness ==
  /\ \A i \in 1..MaxNonces :
       WF_vars(RunTimesOut(i) /\ UNCHANGED <<roomVars, boardVars>>)
  /\ \A p \in Pages :
       /\ WF_vars(~ PressAt(p, "signing") /\ GiveUp(p) /\ UNCHANGED boardVars)
       /\ WF_vars((Succeed(p) \/ Fail(p) \/ FailAndRedraw(p)) /\ UNCHANGED boardVars)
  /\ \A r \in Rounds : WF_vars(RebuildFails(r) /\ UNCHANGED roomVars)
  /\ \A b \in Readers : WF_vars(GiveBoard(b, FALSE) /\ UNCHANGED roomVars)

FairSpec == Spec /\ Fairness

(* Nobody waits for ever: the flag that keeps other runs away comes down,  *)
(* a pressed button ends unless the operator leaves the wallet's question  *)
(* open, and a reader of the board gets an answer or the node of the       *)
(* proofs gives none: nothing limits how long the server waits for it.     *)
NobodyWaitsForEver ==
  /\ running ~> ~ running
  /\ \A p \in Pages : page[p].press.pc # "idle" ~> page[p].press.pc \in {"idle", "signing"}
  /\ \A b \in Readers : reader[b].pc = "waiting" ~> reader[b].pc # "waiting" \/ ~ nodeUp

=============================================================================
