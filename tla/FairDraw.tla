------------------------------ MODULE FairDraw ------------------------------
(***************************************************************************)
(* What a Renaiss draw promises, whichever contract path carries it out.   *)
(*                                                                         *)
(* A draw has a public ledger.  While it is open the ledger may be         *)
(* replaced.  Sealing it freezes the ledger before any randomness exists.  *)
(* One random word is then drawn for the sealed ledger, and the outcome of *)
(* every item (a match of a round, a prize slot of a draw) is a function   *)
(* of the word, the draw, the item and the sealed ledger: neither the      *)
(* order nor the batching of the publications can influence it.  Nothing   *)
(* published ever changes.  The only way back is to discard the whole      *)
(* draw, and a sealed draw cannot be discarded: nobody can abandon a draw  *)
(* between asking for the word and learning it.                            *)
(***************************************************************************)

CONSTANTS
  Draws,              \* the identifiers of the draws
  Words,              \* the random words a coordinator can deliver
  NoLedger, NoWord,   \* the values of a draw that has none
  IsLedger(_),        \* which values may be sealed as a ledger
  Items(_),           \* the items of a ledger
  Outcome(_, _, _, _) \* outcome of an item: word, draw, item, ledger

VARIABLES
  phase,      \* per draw: "open", "ready", "sealed", "drawn" or "complete"
  ledger,     \* per draw: the ledger, or NoLedger
  word,       \* per draw: the word, or NoWord
  published   \* per draw: the outcomes of the items published so far

fairVars == <<phase, ledger, word, published>>

NothingPublished == [i \in {} |-> {}]

Init ==
  /\ phase = [d \in Draws |-> "open"]
  /\ ledger = [d \in Draws |-> NoLedger]
  /\ word = [d \in Draws |-> NoWord]
  /\ published = [d \in Draws |-> NothingPublished]

(* A ledger is registered, or replaces the registered one. *)
Register(d) ==
  /\ phase[d] \in {"open", "ready"}
  /\ IsLedger(ledger'[d])
  /\ phase' = [phase EXCEPT ![d] = "ready"]
  /\ ledger' = [ledger EXCEPT ![d] = ledger'[d]]
  /\ word' = [word EXCEPT ![d] = NoWord]
  /\ published' = [published EXCEPT ![d] = NothingPublished]

(* The registered ledger is frozen and the word is asked for. *)
Seal(d) ==
  /\ phase[d] = "ready"
  /\ phase' = [phase EXCEPT ![d] = "sealed"]
  /\ UNCHANGED <<ledger, word, published>>

(* The word arrives. *)
Draw(d, w) ==
  /\ phase[d] = "sealed"
  /\ phase' = [phase EXCEPT ![d] = "drawn"]
  /\ word' = [word EXCEPT ![d] = w]
  /\ UNCHANGED <<ledger, published>>

(* Some outcomes become public; the last ones complete the draw. *)
Publish(d, new) ==
  LET all == DOMAIN published[d] \cup new
  IN  /\ phase[d] = "drawn"
      /\ new # {}
      /\ new \subseteq Items(ledger[d]) \ DOMAIN published[d]
      /\ published' = [published EXCEPT ![d] =
                         [i \in all |-> Outcome(word[d], d, i, ledger[d])]]
      /\ phase' = [phase EXCEPT ![d] =
                     IF all = Items(ledger[d]) THEN "complete" ELSE "drawn"]
      /\ UNCHANGED <<ledger, word>>

(* The draw is abandoned as a whole. *)
Discard(d) ==
  /\ phase[d] # "sealed"
  /\ phase' = [phase EXCEPT ![d] = "open"]
  /\ ledger' = [ledger EXCEPT ![d] = NoLedger]
  /\ word' = [word EXCEPT ![d] = NoWord]
  /\ published' = [published EXCEPT ![d] = NothingPublished]

Next ==
  \E d \in Draws :
    \/ Register(d)
    \/ Seal(d)
    \/ \E w \in Words : Draw(d, w)
    \/ \E new \in SUBSET Items(ledger[d]) : Publish(d, new)
    \/ Discard(d)

Spec == Init /\ [][Next]_fairVars
=============================================================================
