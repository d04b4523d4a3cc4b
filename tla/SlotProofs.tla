----------------------------- MODULE SlotProofs -------------------------------
(***************************************************************************)
(* The per-draw path of LuckyDraw: its lists of slots and tickets, and the *)
(* fairness of its choices.                                                *)
(*                                                                         *)
(* The argument: the tickets computed lazily are always a prefix of the    *)
(* picks of the draw's word, because a pick depends on the word, the draw  *)
(* and the number of tickets before it only.  So the ticket published for  *)
(* a slot is the one that an eager computation in slot order gives it,     *)
(* whichever functions revealed the slots and in whatever order.           *)
(***************************************************************************)
EXTENDS LuckyDrawProofs, MatchRunner

-----------------------------------------------------------------------------
(* The lists of a draw. *)

(* The first n tickets of a draw. *)
Picks(d, draw, n) == PickTickets(draw.totalTickets, n, <<draw.randomWord, d>>)

(* The lists of a draw: the tickets computed are the first picks of the draw's
   word, and every revealed slot has its own. *)
SlotPicked(d, draw) ==
  LET n == Len(draw.revealedPrizeSlots) IN
  /\ draw.prizeSlotCount =< draw.totalTickets
  /\ Len(draw.allComputedTickets) =< draw.prizeSlotCount
  /\ draw.allComputedTickets = Picks(d, draw, Len(draw.allComputedTickets))
  /\ IsInjective(draw.revealedPrizeSlots)
  /\ Len(draw.revealedTickets) = n
  /\ \A i \in 1..n :
       /\ draw.revealedPrizeSlots[i] < Len(draw.allComputedTickets)
       /\ draw.revealedTickets[i] = draw.allComputedTickets[draw.revealedPrizeSlots[i] + 1]

(* A draw as _drawPrizeSlot may find it. *)
DrawnSoFar(d, draw) == IsDraw(draw) /\ SlotPicked(d, draw)

(* The seed of a pick has the word, the draw and the pick index. *)
LEMMA AppendThird ==
  ASSUME NEW a, NEW b, NEW c
  PROVE  Append(<<a, b>>, c) = <<a, b, c>>
<1> DEFINE S == {a, b, c}
<1>1. <<a, b>> \in Seq(S) /\ <<a, b, c>> \in Seq(S) /\ c \in S
  OBVIOUS
<1>2. /\ Append(<<a, b>>, c) \in Seq(S) /\ Len(Append(<<a, b>>, c)) = 3
      /\ Append(<<a, b>>, c)[1] = a /\ Append(<<a, b>>, c)[2] = b /\ Append(<<a, b>>, c)[3] = c
  <2>1. Len(<<a, b>>) = 2
    OBVIOUS
  <2> QED
    BY <1>1, <2>1, AppendProperties
<1> DEFINE s == Append(<<a, b>>, c)
           t == <<a, b, c>>
<1>3. Len(t) = 3 /\ t[1] = a /\ t[2] = b /\ t[3] = c
  OBVIOUS
<1>4. s \in Seq(S) /\ t \in Seq(S) /\ Len(s) = Len(t) /\ Len(s) = 3
  BY <1>1, <1>2, <1>3
<1>5. \A i \in 1..3 : i = 1 \/ i = 2 \/ i = 3
  OBVIOUS
<1>6. \A i \in 1..3 : s[i] = t[i]
  BY <1>2, <1>3, <1>5
<1> HIDE DEF s, t
<1>7. s = t
  BY <1>4, <1>6, SeqEqual
<1> QED
  BY <1>7 DEF s, t

(* The types of the figures and lists of a draw. *)
LEMMA DrawFigures ==
  ASSUME NEW draw, IsDraw(draw)
  PROVE  /\ draw.prizeSlotCount \in Nat /\ draw.totalTickets \in Nat
         /\ draw.revealedPrizeSlots \in Seq(Nat) /\ draw.revealedTickets \in Seq(Nat)
         /\ draw.allComputedTickets \in Seq(Nat)
         /\ Len(draw.allComputedTickets) \in Nat /\ Len(draw.revealedPrizeSlots) \in Nat
         /\ Len(draw.revealedTickets) \in Nat
<1>1. /\ draw.prizeSlotCount \in 0..MAX_PRIZE_SLOTS /\ draw.totalTickets \in Nat
      /\ draw.revealedPrizeSlots \in Seq(Nat) /\ draw.revealedTickets \in Seq(Nat)
      /\ draw.allComputedTickets \in Seq(Nat)
  BY DEF IsDraw
<1>2. draw.prizeSlotCount \in Nat
  <2>1. \A n \in 0..MAX_PRIZE_SLOTS : n \in Nat
    BY DEF MAX_PRIZE_SLOTS
  <2>2. draw.prizeSlotCount \in 0..MAX_PRIZE_SLOTS
    BY <1>1
  <2> QED
    BY <2>1, <2>2
<1>3. \A s \in Seq(Nat) : Len(s) \in Nat
  OBVIOUS
<1> QED
  BY <1>1, <1>2, <1>3

(* The picks of a draw, one after another. *)
LEMMA PicksSteps ==
  ASSUME HashesAreNumbers, NEW d, NEW draw, draw.totalTickets \in Nat
  PROVE  /\ Picks(d, draw, 0) = <<>>
         /\ \A n \in 1..draw.totalTickets :
              Picks(d, draw, n) = Append(Picks(d, draw, n - 1),
                                         NextTicket(d, draw, Picks(d, draw, n - 1)))
         /\ \A n \in 0..draw.totalTickets : Picked(draw.totalTickets, n, Picks(d, draw, n))
<1> DEFINE total == draw.totalTickets
           seed == <<draw.randomWord, d>>
<1>1. total \in Nat
  OBVIOUS
<1> HIDE DEF total
<1>2. /\ PickTickets(total, 0, seed) = <<>>
      /\ \A k \in 1..total :
              PickTickets(total, k, seed) = OneMore(total, k, seed, PickTickets(total, k - 1, seed))
      /\ \A k \in 0..total : Picked(total, k, PickTickets(total, k, seed))
  BY <1>1, PickTicketsSteps, PickTicketsPicked
<1>3. ASSUME NEW k \in 1..total
      PROVE  OneMore(total, k, seed, PickTickets(total, k - 1, seed))
               = Append(PickTickets(total, k - 1, seed), NextTicket(d, draw, PickTickets(total, k - 1, seed)))
  <2>1. k - 1 \in 0..total
    BY <1>1
  <2>2. Len(PickTickets(total, k - 1, seed)) = k - 1
    BY <1>2, <2>1 DEF Picked
  <2>3. Append(seed, k - 1) = <<draw.randomWord, d, k - 1>>
    BY AppendThird
  <2> QED
    BY <2>2, <2>3 DEF OneMore, NextTicket, total
<1> QED
  BY <1>2, <1>3 DEF Picks, total

(* _ensurePrizeSlotComputed computes picks of the draw's word ... *)
LEMMA EnsureComputedPicks ==
  ASSUME HashesAreNumbers, NEW d, NEW draw, DrawnSoFar(d, draw), NEW slot \in 0..(draw.prizeSlotCount - 1)
  PROVE  EnsureComputed(d, draw, slot)
           = IF slot + 1 =< Len(draw.allComputedTickets) THEN draw.allComputedTickets
             ELSE Picks(d, draw, slot + 1)
<1> DEFINE all == draw.allComputedTickets
           len == Len(all)
           Solves(f) == f = [n \in 0..(slot + 1) |->
                               IF n <= Len(all) THEN all
                               ELSE Append(f[n - 1], NextTicket(d, draw, f[n - 1]))]
           g == [n \in 0..(slot + 1) |-> IF n =< Len(all) THEN all ELSE Picks(d, draw, n)]
           h == CHOOSE f : Solves(f)
<1>1. /\ len \in Nat /\ draw.prizeSlotCount \in Nat /\ draw.totalTickets \in Nat
      /\ len =< draw.prizeSlotCount /\ draw.prizeSlotCount =< draw.totalTickets
      /\ all = Picks(d, draw, len)
  BY DrawFigures DEF DrawnSoFar, SlotPicked
<1> HIDE DEF len
<1>2. \A n \in 1..(slot + 1) : Picks(d, draw, n) = Append(Picks(d, draw, n - 1),
                                         NextTicket(d, draw, Picks(d, draw, n - 1)))
  <2>1. \A n \in 1..(slot + 1) : n \in 1..draw.totalTickets
    BY <1>1
  <2> QED
    BY <1>1, <2>1, PicksSteps
<1>3. \A n \in 0..(slot + 1) : g[n] = IF n =< Len(all) THEN all
                                     ELSE Append(g[n - 1], NextTicket(d, draw, g[n - 1]))
  <2> SUFFICES ASSUME NEW n \in 0..(slot + 1), ~ (n =< len)
               PROVE  Picks(d, draw, n) = Append(g[n - 1], NextTicket(d, draw, g[n - 1]))
    BY DEF len
  <2>1. n \in 1..(slot + 1) /\ n - 1 \in 0..(slot + 1)
    BY <1>1
  <2>2. g[n - 1] = Picks(d, draw, n - 1)
    <3>1. CASE n - 1 =< len
      <4>1. n - 1 = len
        BY <1>1, <2>1, <3>1
      <4> QED
        BY <1>1, <2>1, <4>1 DEF len
    <3>2. CASE ~ (n - 1 =< len)
      BY <2>1, <3>2 DEF len
    <3> QED
      BY <3>1, <3>2
  <2> QED
    BY <1>2, <2>1, <2>2
<1>4. Solves(g)
  BY <1>3, Zenon
<1>5. Solves(h)
  BY <1>4, Zenon
<1>6. EnsureComputed(d, draw, slot) = h[slot + 1]
  BY Zenon DEF EnsureComputed
<1> HIDE DEF h
<1>7. \A n \in 0..(slot + 1) : h[n] = IF n <= Len(all) THEN all
                                     ELSE Append(h[n - 1], NextTicket(d, draw, h[n - 1]))
  BY <1>5, Zenon
<1>8. SameStep(g, h, slot + 1)
  <2>1. g[0] = h[0]
    <3>1. 0 \in 0..(slot + 1) /\ 0 =< Len(all)
      BY <1>1 DEF len
    <3> QED
      BY <1>7, <3>1
  <2>2. ASSUME NEW k \in 1..(slot + 1), g[k - 1] = h[k - 1] PROVE g[k] = h[k]
    <3>1. k \in 0..(slot + 1)
      OBVIOUS
    <3> HIDE DEF g
    <3> QED
      BY <1>3, <1>7, <2>2, <3>1
  <2> HIDE DEF g
  <2> QED
    BY <2>1, <2>2 DEF SameStep
<1>9. g[slot + 1] = h[slot + 1]
  <2>1. slot + 1 \in Nat /\ slot + 1 \in 0..(slot + 1)
    BY <1>1
  <2> HIDE DEF g
  <2> QED
    BY <1>8, <2>1, IterUnique
<1> QED
  <2>1. slot + 1 \in 0..(slot + 1)
    BY <1>1
  <2> QED
    BY <1>6, <1>9, <2>1

(* ... after those it has already. *)
LEMMA EnsuredTickets ==
  ASSUME HashesAreNumbers, NEW d, NEW draw, DrawnSoFar(d, draw), NEW slot \in 0..(draw.prizeSlotCount - 1)
  PROVE  LET all == draw.allComputedTickets
             computed == EnsureComputed(d, draw, slot) IN
         /\ computed \in Seq(Nat) /\ Len(computed) =< draw.prizeSlotCount /\ Len(all) =< Len(computed)
         /\ computed = Picks(d, draw, Len(computed)) /\ slot < Len(computed)
         /\ \A i \in 1..Len(all) : computed[i] = all[i]
<1> DEFINE all == draw.allComputedTickets
           len == Len(all)
           total == draw.totalTickets
<1>1. /\ len \in Nat /\ draw.prizeSlotCount \in Nat /\ total \in Nat
      /\ len =< draw.prizeSlotCount /\ draw.prizeSlotCount =< total
      /\ all = Picks(d, draw, len) /\ all \in Seq(Nat)
  BY DrawFigures DEF DrawnSoFar, SlotPicked
<1>2. EnsureComputed(d, draw, slot) = IF slot + 1 =< len THEN all ELSE Picks(d, draw, slot + 1)
  BY EnsureComputedPicks
<1>3. CASE slot + 1 =< len
  <2>1. slot < len
    BY <1>1, <1>3
  <2> QED
    BY <1>1, <1>2, <1>3, <2>1
<1>4. CASE ~ (slot + 1 =< len)
  <2> DEFINE computed == Picks(d, draw, slot + 1)
  <2>1. slot + 1 \in len..total /\ slot + 1 \in 0..total /\ len \in 0..total
        /\ slot + 1 =< draw.prizeSlotCount /\ slot < slot + 1
    BY <1>1, <1>4
  <2>2. Picked(total, slot + 1, computed)
    BY <1>1, <2>1, PicksSteps
  <2>3. computed \in Seq(Nat) /\ Len(computed) = slot + 1
    <3>1. 1..total \subseteq Nat
      OBVIOUS
    <3>2. Seq(1..total) \subseteq Seq(Nat)
      BY <3>1, SeqMonotonic
    <3> QED
      BY <2>2, <3>2 DEF Picked
  <2>4. ASSUME NEW i \in 1..len PROVE computed[i] = all[i]
    BY <1>1, <2>1, <2>4, PickTicketsPrefix DEF Picks
  <2>5. EnsureComputed(d, draw, slot) = computed
    BY <1>2, <1>4
  <2> HIDE DEF computed, len
  <2>6. computed = Picks(d, draw, Len(computed))
    BY <2>3 DEF computed
  <2>7. len =< Len(computed)
    BY <1>1, <1>4, <2>1, <2>3
  <2> QED
    BY <2>1, <2>3, <2>4, <2>5, <2>6, <2>7 DEF len
<1> QED
  BY <1>3, <1>4

(* _drawPrizeSlot keeps the lists in order. *)
LEMMA DrawSlotPicks ==
  ASSUME HashesAreNumbers, NEW d, NEW draw, DrawnSoFar(d, draw), NEW slot, Drawable(draw, slot)
  PROVE  LET new == DrawSlot(d, draw, slot) IN
         /\ DrawnSoFar(d, new)
         /\ new.revealedPrizeSlots = Append(draw.revealedPrizeSlots, slot)
         /\ \A f \in DrawFields \ {"revealedPrizeSlots", "revealedTickets", "allComputedTickets"} :
              new[f] = draw[f]
<1> DEFINE new == DrawSlot(d, draw, slot)
           computed == EnsureComputed(d, draw, slot)
           slots == draw.revealedPrizeSlots
           tickets == draw.revealedTickets
           all == draw.allComputedTickets
           n == Len(slots)
<1>0. /\ draw.prizeSlotCount \in Nat /\ slots \in Seq(Nat) /\ tickets \in Seq(Nat) /\ all \in Seq(Nat)
      /\ n \in Nat /\ Len(all) \in Nat
  BY DrawFigures DEF DrawnSoFar
<1>1. slot \in 0..(draw.prizeSlotCount - 1) /\ \A i \in 1..n : slots[i] # slot
  BY DEF Drawable, Contains
<1>2. /\ computed \in Seq(Nat) /\ Len(computed) =< draw.prizeSlotCount /\ Len(all) =< Len(computed)
      /\ computed = Picks(d, draw, Len(computed)) /\ slot < Len(computed)
      /\ \A i \in 1..Len(all) : computed[i] = all[i]
  BY <1>1, EnsuredTickets
<1>3. new = [draw EXCEPT !.allComputedTickets = computed, !.revealedPrizeSlots = Append(slots, slot),
                         !.revealedTickets = Append(tickets, computed[slot + 1])]
  BY DEF DrawSlot
<1> HIDE DEF computed
<1>4. slot \in Nat /\ slot + 1 \in 1..Len(computed) /\ computed[slot + 1] \in Nat
  <2>1. slot \in Nat /\ slot + 1 \in 1..Len(computed)
    BY <1>0, <1>1, <1>2
  <2> QED
    BY <1>2, <2>1
<1>5. /\ IsDraw(new)
      /\ new.allComputedTickets = computed /\ new.revealedPrizeSlots = Append(slots, slot)
      /\ new.revealedTickets = Append(tickets, computed[slot + 1])
      /\ \A f \in DrawFields \ {"revealedPrizeSlots", "revealedTickets", "allComputedTickets"} :
              new[f] = draw[f]
  <2>1. Append(slots, slot) \in Seq(Nat) /\ Append(tickets, computed[slot + 1]) \in Seq(Nat)
    BY <1>0, <1>4
  <2>2. IsDraw(draw)
    BY DEF DrawnSoFar
  <2> HIDE DEF slots, tickets, new
  <2> QED
    BY <1>2, <1>3, <2>1, <2>2 DEF IsDraw, DrawFields
<1>6. /\ new.prizeSlotCount = draw.prizeSlotCount /\ new.totalTickets = draw.totalTickets
      /\ new.randomWord = draw.randomWord
  BY <1>5 DEF DrawFields
<1>7. SlotPicked(d, draw)
  BY DEF DrawnSoFar
<1> HIDE DEF new, all, slots, tickets
<1>8. SlotPicked(d, new)
  <2>1. Picks(d, new, Len(computed)) = Picks(d, draw, Len(computed))
    BY <1>6 DEF Picks
  <2>2. n = Len(slots) /\ n \in Nat
    BY <1>0
  <2>3. IsInjective(Append(slots, slot)) /\ Len(Append(slots, slot)) = n + 1
    <3>1. slot \notin ToSet(slots)
      BY <1>0, <1>1 DEF ToSet
    <3>2. IsInjective(slots)
      BY <1>7 DEF SlotPicked, slots
    <3> QED
      BY <1>0, <1>4, <3>1, <3>2, AppendDistinct
  <2>4. Len(tickets) = n /\ Len(Append(tickets, computed[slot + 1])) = n + 1
    BY <1>0, <1>7 DEF SlotPicked, tickets, slots
  <2>5. ASSUME NEW i \in 1..(n + 1)
        PROVE  /\ Append(slots, slot)[i] < Len(computed)
               /\ Append(tickets, computed[slot + 1])[i] = computed[Append(slots, slot)[i] + 1]
    <3>1. CASE i = n + 1
      <4>1. Append(slots, slot)[i] = slot
        BY <1>0, <3>1
      <4>2. Append(tickets, computed[slot + 1])[i] = computed[slot + 1]
        BY <1>0, <2>4, <3>1
      <4> QED
        BY <1>2, <4>1, <4>2
    <3>2. CASE i # n + 1
      <4>1. i \in 1..n /\ i \in 1..Len(tickets)
        BY <2>2, <2>4, <3>2
      <4>2. Append(slots, slot)[i] = slots[i] /\ slots[i] \in Nat
        BY <1>0, <4>1
      <4>3. Append(tickets, computed[slot + 1])[i] = tickets[i]
        BY <1>0, <4>1
      <4>4. slots[i] < Len(all) /\ tickets[i] = all[slots[i] + 1]
        BY <1>7, <4>1 DEF SlotPicked, slots, tickets, all
      <4>5. slots[i] + 1 \in 1..Len(all)
        <5>1. \A x, y \in Nat : x < y => x + 1 \in 1..y
          OBVIOUS
        <5>2. slots[i] \in Nat /\ Len(all) \in Nat
          BY <1>0, <4>2
        <5> QED
          BY <4>4, <5>1, <5>2
      <4>6. slots[i] < Len(computed)
        BY <1>0, <1>2, <4>2, <4>4
      <4> QED
        BY <1>2, <4>2, <4>3, <4>4, <4>5, <4>6
    <3> QED
      BY <3>1, <3>2
  <2>6. new.prizeSlotCount =< new.totalTickets
    BY <1>6, <1>7 DEF SlotPicked
  <2>7. Len(computed) =< new.prizeSlotCount /\ computed = Picks(d, new, Len(computed))
    BY <1>2, <1>6, <2>1
  <2> QED
    BY <1>5, <2>3, <2>4, <2>5, <2>6, <2>7 DEF SlotPicked
<1>9. IsDraw(new)
  BY <1>5
<1> QED
  BY <1>5, <1>8, <1>9 DEF DrawnSoFar, new, slots

(* The fields that a reveal extends. *)
ListFields == {"revealedPrizeSlots", "revealedTickets", "allComputedTickets"}

(* s is draw with the first k slots of a list drawn. *)
Extended(draw, s, slots, k) ==
  LET n == Len(draw.revealedPrizeSlots) IN
  /\ \A f \in DrawFields \ ListFields : s[f] = draw[f]
  /\ Len(s.revealedPrizeSlots) = n + k
  /\ \A i \in 1..n : s.revealedPrizeSlots[i] = draw.revealedPrizeSlots[i]
  /\ \A i \in 1..k : s.revealedPrizeSlots[n + i] = slots[i]

(* A list of slots drawNext and the others may draw one after another. *)
MayDraw(draw, slots) ==
  /\ Len(slots) \in Nat
  /\ \A i \in 1..Len(slots) : Drawable(draw, slots[i]) /\ \A j \in 1..(i - 1) : slots[j] # slots[i]

(* One more slot of the list is drawn ... *)
LEMMA ExtendedStep ==
  ASSUME HashesAreNumbers, NEW d, NEW draw, DrawnSoFar(d, draw), NEW slots, MayDraw(draw, slots),
         NEW k \in 1..Len(slots), NEW s, DrawnSoFar(d, s), Extended(draw, s, slots, k - 1)
  PROVE  DrawnSoFar(d, DrawSlot(d, s, slots[k])) /\ Extended(draw, DrawSlot(d, s, slots[k]), slots, k)
<1> DEFINE n == Len(draw.revealedPrizeSlots)
           old == s.revealedPrizeSlots
           new == DrawSlot(d, s, slots[k])
<1>1. n \in Nat /\ old \in Seq(Nat) /\ draw.revealedPrizeSlots \in Seq(Nat) /\ k \in Nat /\ k - 1 \in Nat
  BY DrawFigures DEF DrawnSoFar, MayDraw
<1>2. /\ \A f \in DrawFields \ ListFields : s[f] = draw[f]
      /\ Len(old) = n + (k - 1)
      /\ \A i \in 1..n : old[i] = draw.revealedPrizeSlots[i]
      /\ \A i \in 1..(k - 1) : old[n + i] = slots[i]
  BY DEF Extended
<1>3. Drawable(draw, slots[k]) /\ \A j \in 1..(k - 1) : slots[j] # slots[k]
  BY DEF MayDraw
<1>4. Drawable(s, slots[k])
  <2>1. s.prizeSlotCount = draw.prizeSlotCount
    BY <1>2 DEF DrawFields, ListFields
  <2>2. slots[k] \in 0..(s.prizeSlotCount - 1)
    BY <1>3, <2>1 DEF Drawable
  <2>3. ASSUME NEW i \in 1..Len(old) PROVE old[i] # slots[k]
    <3>1. CASE i \in 1..n
      BY <1>2, <1>3, <3>1 DEF Drawable, Contains
    <3>2. CASE i \notin 1..n
      <4>1. i - n \in 1..(k - 1) /\ n + (i - n) = i
        BY <1>1, <1>2, <3>2
      <4>2. old[n + (i - n)] = slots[i - n] /\ slots[i - n] # slots[k]
        BY <1>2, <1>3, <4>1
      <4> QED
        BY <4>1, <4>2
    <3> QED
      BY <3>1, <3>2
  <2> QED
    BY <2>2, <2>3 DEF Drawable, Contains
<1>5. /\ DrawnSoFar(d, new)
      /\ new.revealedPrizeSlots = Append(old, slots[k])
      /\ \A f \in DrawFields \ ListFields : new[f] = s[f]
  BY <1>4, DrawSlotPicks DEF ListFields
<1> HIDE DEF new, old, n
<1>6. Len(Append(old, slots[k])) = n + k /\ Append(old, slots[k])[n + k] = slots[k]
      /\ \A i \in 1..Len(old) : Append(old, slots[k])[i] = old[i]
  <2>1. Len(old) + 1 = n + k
    BY <1>1, <1>2
  <2> QED
    BY <1>1, <1>2, <2>1
<1>7. Extended(draw, new, slots, k)
  <2>1. \A i \in 1..n : Append(old, slots[k])[i] = draw.revealedPrizeSlots[i]
    <3>1. \A i \in 1..n : i \in 1..Len(old)
      BY <1>1, <1>2
    <3> QED
      BY <1>2, <1>6, <3>1
  <2>2. ASSUME NEW i \in 1..k PROVE Append(old, slots[k])[n + i] = slots[i]
    <3>1. CASE i = k
      BY <1>6, <3>1
    <3>2. CASE i # k
      <4>1. i \in 1..(k - 1) /\ n + i \in 1..Len(old)
        BY <1>1, <1>2, <3>2
      <4> QED
        BY <1>2, <1>6, <4>1
    <3> QED
      BY <3>1, <3>2
  <2>3. \A f \in DrawFields \ ListFields : new[f] = draw[f]
    BY <1>2, <1>5
  <2> QED
    BY <1>5, <1>6, <2>1, <2>2, <2>3 DEF Extended, n
<1> QED
  BY <1>5, <1>7 DEF new

(* ... until all are. *)
LEMMA DrawSlotsPicks ==
  ASSUME HashesAreNumbers, NEW d, NEW draw, DrawnSoFar(d, draw), NEW slots, MayDraw(draw, slots)
  PROVE  DrawnSoFar(d, DrawSlots(d, draw, slots))
         /\ Extended(draw, DrawSlots(d, draw, slots), slots, Len(slots))
<1> DEFINE len == Len(slots)
           S == [state : DrawState, ledgerHash : Nat, totalTickets : Nat,
                 prizeSlotCount : 0..MAX_PRIZE_SLOTS, requestId : 0..MaxRequests,
                 randomWord : Words \cup {0}, revealedPrizeSlots : Seq(Nat),
                 revealedTickets : Seq(Nat), allComputedTickets : Seq(Nat)]
           G == [at \in Nat \X S |->
                  IF DrawSlot(d, at[2], slots[at[1]]) \in S THEN DrawSlot(d, at[2], slots[at[1]]) ELSE at[2]]
           Good(k, s) == DrawnSoFar(d, s) /\ Extended(draw, s, slots, k)
<1>1. len \in Nat /\ draw \in S
  BY DEF MayDraw, DrawnSoFar, IsDraw
<1>2. \A s : DrawnSoFar(d, s) => s \in S
  BY DEF DrawnSoFar, IsDraw
<1>3. Good(0, draw)
  BY DrawFigures DEF Extended, DrawnSoFar
<1>4. G \in [Nat \X S -> S]
  <2> HIDE DEF S
  <2> QED
    OBVIOUS
<1>5. \A k \in Nat, s \in S : G[<<k, s>>] = IF DrawSlot(d, s, slots[k]) \in S THEN DrawSlot(d, s, slots[k]) ELSE s
  <2> HIDE DEF S
  <2> QED
    OBVIOUS
<1>6. \A k \in 1..len : \A s : Good(k - 1, s) => Good(k, DrawSlot(d, s, slots[k]))
  BY ExtendedStep
<1> HIDE DEF S, G, Good, len
<1>7. PICK f : IsRun(f, len, S, draw, G)
  BY <1>1, <1>4, IterExists
<1>8. f \in [0..len -> S] /\ f[0] = draw /\ \A k \in 1..len : f[k] = G[<<k, f[k - 1]>>]
  BY <1>7 DEF IsRun
<1>9. ASSUME NEW k \in 1..len, Good(k - 1, f[k - 1])
      PROVE  f[k] = DrawSlot(d, f[k - 1], slots[k]) /\ Good(k, f[k])
  <2>1. k \in Nat /\ k - 1 \in 0..len /\ f[k - 1] \in S
    BY <1>1, <1>8
  <2>2. Good(k, DrawSlot(d, f[k - 1], slots[k]))
    BY <1>6, <1>9
  <2>3. DrawSlot(d, f[k - 1], slots[k]) \in S
    BY <1>2, <2>2 DEF Good
  <2>4. f[k] = DrawSlot(d, f[k - 1], slots[k])
    BY <1>5, <1>8, <2>1, <2>3
  <2> QED
    BY <2>2, <2>4
<1>10. \A k \in 0..len : Good(k, f[k])
  <2> DEFINE T == {k \in Nat : k =< len => Good(k, f[k])}
  <2>1. ASSUME NEW k \in T PROVE k + 1 \in T
    <3> SUFFICES ASSUME k + 1 =< len PROVE Good(k + 1, f[k + 1])
      OBVIOUS
    <3>1. k + 1 \in 1..len /\ (k + 1) - 1 = k /\ Good(k, f[k])
      BY <1>1
    <3> QED
      BY <1>9, <3>1
  <2>2. 0 \in T /\ T \subseteq Nat
    BY <1>3, <1>8
  <2> HIDE DEF T
  <2>3. \A k \in Nat : k \in T
    BY <2>1, <2>2, NatInd
  <2> QED
    BY <1>1, <2>3 DEF T
<1>11. \A k \in 1..len : f[k] = DrawSlot(d, f[k - 1], slots[k])
  <2>1. \A k \in 1..len : k - 1 \in 0..len
    BY <1>1
  <2> QED
    BY <1>9, <1>10, <2>1
<1> DEFINE Solves(p) == p = [k \in 0..Len(slots) |-> IF k = 0 THEN draw ELSE DrawSlot(d, p[k - 1], slots[k])]
           h == CHOOSE p : Solves(p)
<1>12. Solves(f)
  <2>1. \A k \in 0..len : f[k] = IF k = 0 THEN draw ELSE DrawSlot(d, f[k - 1], slots[k])
    <3>1. \A k \in 0..len : k = 0 \/ k \in 1..len
      BY <1>1
    <3> QED
      BY <1>8, <1>11, <3>1
  <2>2. f = [k \in 0..len |-> f[k]]
    BY <1>8
  <2>3. f = [k \in 0..len |-> IF k = 0 THEN draw ELSE DrawSlot(d, f[k - 1], slots[k])]
    BY <2>1, <2>2
  <2> QED
    BY <2>3 DEF len
<1>13. Solves(h)
  BY <1>12, Zenon
<1>14. DrawSlots(d, draw, slots) = h[len]
  BY Zenon DEF DrawSlots, len
<1> HIDE DEF h
<1>15. \A k \in 0..len : h[k] = IF k = 0 THEN draw ELSE DrawSlot(d, h[k - 1], slots[k])
  BY <1>13, Zenon DEF len
<1>16. SameStep(f, h, len)
  <2>1. 0 \in 0..len /\ \A k \in 1..len : k \in 0..len /\ k # 0
    BY <1>1
  <2> QED
    BY <1>8, <1>11, <1>15, <2>1 DEF SameStep
<1>17. f[len] = h[len] /\ Good(len, f[len])
  <2>1. len \in 0..len
    BY <1>1
  <2> QED
    BY <1>1, <1>10, <1>16, <2>1, IterUnique
<1> QED
  BY <1>14, <1>17 DEF Good, len

-----------------------------------------------------------------------------
(* The moves of a draw. *)

(* What a state of a draw says of the rest of it. *)
SlotLife(draw) ==
  /\ draw.state \notin {"RandomnessReady", "Fulfilled"} =>
       draw.revealedPrizeSlots = <<>> /\ draw.revealedTickets = <<>> /\ draw.allComputedTickets = <<>>
  /\ draw.state # "Draft" => draw.ledgerHash # 0 /\ draw.prizeSlotCount # 0
  /\ draw.state = "RandomnessReady" => Len(draw.revealedPrizeSlots) < draw.prizeSlotCount
  /\ draw.state = "Fulfilled" => Len(draw.revealedPrizeSlots) = draw.prizeSlotCount

(* What holds of a draw between two calls. *)
SlotOK(d, draw) == DrawnSoFar(d, draw) /\ SlotLife(draw)

(* What the calls and the answer do to one draw: finalize, reset, request,
   answer and reveal. *)
SlotRegisters(old, new) ==
  \E hash, tickets, slots \in Nat :
    /\ old.state \in {"Draft", "LedgerFinalized"}
    /\ hash # 0 /\ tickets # 0 /\ ValidPrizeSlotCount(slots) /\ tickets >= slots
    /\ new = [ResetWinners(old) EXCEPT
                !.ledgerHash = hash, !.totalTickets = tickets, !.prizeSlotCount = slots,
                !.randomWord = 0, !.requestId = 0, !.state = "LedgerFinalized"]

SlotEmpties(old, new) == old.state # "RandomnessRequested" /\ new = EmptyDraw

SlotAsks(old, new) ==
  \E id \in 0..MaxRequests :
    /\ old.state = "LedgerFinalized"
    /\ new = [old EXCEPT !.requestId = id, !.state = "RandomnessRequested"]

SlotLearns(old, new) ==
  \E word \in Words :
    /\ old.state = "RandomnessRequested"
    /\ new = [ResetWinners(old) EXCEPT !.randomWord = word, !.state = "RandomnessReady"]

RevealedDraw(d, draw, drawn) ==
  [draw EXCEPT
     !.revealedPrizeSlots = drawn.revealedPrizeSlots,
     !.revealedTickets = drawn.revealedTickets,
     !.allComputedTickets =
        IF AllRevealed(drawn) THEN EnsureComputed(d, drawn, draw.prizeSlotCount - 1)
        ELSE drawn.allComputedTickets,
     !.state = IF AllRevealed(drawn) THEN "Fulfilled" ELSE "RandomnessReady"]

SlotReveals(d, old, new) ==
  \E slots :
    /\ old.state = "RandomnessReady"
    /\ Len(slots) \in 1..Remaining(old)
    /\ MayDraw(old, slots)
    /\ new = RevealedDraw(d, old, DrawSlots(d, old, slots))

SlotMove(d, old, new) ==
  \/ SlotRegisters(old, new) \/ SlotEmpties(old, new) \/ SlotAsks(old, new)
  \/ SlotLearns(old, new) \/ SlotReveals(d, old, new)

OneDrawMoves ==
  \E d \in DrawIds : \E new : draws' = [draws EXCEPT ![d] = new] /\ SlotMove(d, draws[d], new)

(* The part that the five reveal functions share is a move ... *)
LEMMA RevealSlotsMoves ==
  ASSUME NEW a, NEW d \in DrawIds, IsDraw(draws[d]), NEW slots, RevealSlots(a, d, slots)
  PROVE  OneDrawMoves
<1> DEFINE old == draws[d]
           new == RevealedDraw(d, old, DrawSlots(d, old, slots))
<1>1. /\ old.state = "RandomnessReady" /\ Len(slots) \in 1..Remaining(old)
      /\ \A i \in 1..Len(slots) : Drawable(old, slots[i]) /\ \A j \in 1..(i - 1) : slots[j] # slots[i]
      /\ draws' = [draws EXCEPT ![d] = new]
  BY DEF RevealSlots, RevealedDraw
<1>2. MayDraw(old, slots)
  <2>1. Remaining(old) \in Int
    BY DrawFigures DEF Remaining
  <2>2. Len(slots) \in Nat
    BY <1>1, <2>1
  <2> QED
    BY <1>1, <2>2 DEF MayDraw
<1>3. SlotReveals(d, old, new)
  BY <1>1, <1>2 DEF SlotReveals
<1> QED
  BY <1>1, <1>3 DEF OneDrawMoves, SlotMove

(* ... and so is every call on the per-draw path ... *)
LEMMA SlotCallMoves ==
  ASSUME CoordinatorTypeOK, NEW a \in Accounts, NEW d \in DrawIds, IsDraw(draws[d]), SlotCall(a, d)
  PROVE  OneDrawMoves
<1>1. ASSUME NEW hash \in Nat, NEW tickets \in Nat, NEW slots \in Nat,
             FinalizeLedger(a, d, hash, tickets, slots)
      PROVE  OneDrawMoves
  <2> DEFINE new == [ResetWinners(draws[d]) EXCEPT
                       !.ledgerHash = hash, !.totalTickets = tickets, !.prizeSlotCount = slots,
                       !.randomWord = 0, !.requestId = 0, !.state = "LedgerFinalized"]
  <2>1. draws' = [draws EXCEPT ![d] = new]
    BY <1>1, Zenon DEF FinalizeLedger
  <2>2. /\ draws[d].state \in {"Draft", "LedgerFinalized"}
        /\ hash # 0 /\ tickets # 0 /\ ValidPrizeSlotCount(slots) /\ tickets >= slots
    BY <1>1, Zenon DEF FinalizeLedger
  <2>3. SlotRegisters(draws[d], new)
    BY <2>2, Zenon DEF SlotRegisters
  <2> HIDE DEF new
  <2> QED
    BY <2>1, <2>3 DEF OneDrawMoves, SlotMove
<1>2. CASE ResetDraft(a, d)
  BY <1>2 DEF ResetDraft, SlotEmpties, OneDrawMoves, SlotMove
<1>3. CASE RequestDraw(a, d)
  <2>1. nextRequestId \in 0..MaxRequests
    BY <1>3, CoordinatorAssumption DEF RequestDraw, RequestRandomWords, CoordinatorTypeOK
  <2> QED
    BY <1>3, <2>1 DEF RequestDraw, SlotAsks, OneDrawMoves, SlotMove
<1>4. CASE \E slots : RevealSlots(a, d, slots)
  BY <1>4, RevealSlotsMoves
<1>5. LedgerHashes \subseteq Nat /\ TicketCounts \subseteq Nat /\ SlotCounts \subseteq Nat
  BY RoundAssumption, SlotAssumption
<1> QED
  BY <1>1, <1>2, <1>3, <1>4, <1>5
  DEF SlotCall, DrawNext, DrawBatch, DrawPrizeSlot, DrawPrizeSlots, DrawRandomPrizeSlot

(* ... and an accepted answer ... *)
LEMMA FulfillDrawMoves ==
  ASSUME SlotShape, NEW id \in RequestIds, NEW word \in Words, FulfillDraw(id, word)
  PROVE  OneDrawMoves
<1>1. drawIdByRequestId[id] \in DrawIds
  BY DEF FulfillDraw, SlotShape
<1> QED
  BY <1>1 DEF FulfillDraw, OneDrawMoves, SlotMove, SlotLearns

(* ... and no other step touches a draw. *)
LEMMA DrawsMove ==
  ASSUME CoordinatorTypeOK, SlotShape, \A d \in DrawIds : IsDraw(draws[d]), [Next]_vars
  PROVE  UNCHANGED draws \/ OneDrawMoves
<1>1. ASSUME NEW a \in Accounts, NEW d \in DrawIds, SlotCall(a, d) PROVE OneDrawMoves
  BY <1>1, SlotCallMoves
<1>2. ASSUME NEW id \in RequestIds, NEW word \in Words, FulfillRandomWords(id, word)
      PROVE  UNCHANGED draws \/ OneDrawMoves
  BY <1>2, FulfillDrawMoves DEF FulfillRandomWords, slotVars
<1> QED
  BY <1>1, <1>2 DEF Next, vars, slotVars

(* A draw with nothing computed and nothing revealed. *)
NoLists(draw) ==
  draw.revealedPrizeSlots = <<>> /\ draw.revealedTickets = <<>> /\ draw.allComputedTickets = <<>>

(* Its empty lists are in order. *)
LEMMA NothingPicked ==
  ASSUME HashesAreNumbers, NEW d, NEW draw, IsDraw(draw), NoLists(draw),
         draw.prizeSlotCount =< draw.totalTickets
  PROVE  SlotPicked(d, draw) /\ Len(draw.revealedPrizeSlots) = 0
<1>1. draw.prizeSlotCount \in Nat /\ draw.totalTickets \in Nat
  BY DrawFigures
<1>2. Picks(d, draw, 0) = <<>>
  BY <1>1, PicksSteps
<1>3. Len(<<>>) = 0 /\ IsInjective(<<>>)
  BY DEF IsInjective
<1> QED
  BY <1>1, <1>2, <1>3 DEF SlotPicked, NoLists

(* An empty draw is in order. *)
LEMMA EmptyDrawOK == ASSUME HashesAreNumbers, NEW d PROVE SlotOK(d, EmptyDraw)
<1>1. IsDraw(EmptyDraw) /\ NoLists(EmptyDraw) /\ EmptyDraw.prizeSlotCount = 0 /\ EmptyDraw.totalTickets = 0
      /\ EmptyDraw.state = "Draft"
  BY CoordinatorAssumption DEF EmptyDraw, IsDraw, NoLists, DrawState, MAX_PRIZE_SLOTS
<1>2. SlotPicked(d, EmptyDraw)
  BY <1>1, NothingPicked
<1> QED
  BY <1>1, <1>2 DEF SlotOK, DrawnSoFar, SlotLife, NoLists

(* _resetWinnerStorage empties the lists and leaves the rest alone. *)
LEMMA ResetDrawn ==
  ASSUME NEW draw, IsDraw(draw)
  PROVE  LET new == ResetWinners(draw) IN
         /\ IsDraw(new) /\ NoLists(new)
         /\ \A f \in DrawFields \ ListFields : new[f] = draw[f]
<1> DEFINE new == ResetWinners(draw)
<1>1. <<>> \in Seq(Nat)
  OBVIOUS
<1>2. new = [draw EXCEPT !.revealedPrizeSlots = <<>>, !.revealedTickets = <<>>, !.allComputedTickets = <<>>]
  BY DEF ResetWinners
<1> HIDE DEF new
<1>3. IsDraw(new) /\ NoLists(new)
  BY <1>1, <1>2 DEF IsDraw, NoLists
<1>4. \A f \in DrawFields \ ListFields : new[f] = draw[f]
  BY <1>2 DEF IsDraw, DrawFields, ListFields
<1> QED
  BY <1>3, <1>4 DEF new

(* Every move leaves the draw in order: a new ledger ... *)
LEMMA SlotRegistersOK ==
  ASSUME HashesAreNumbers, NEW d, NEW old, IsDraw(old), NEW new, SlotRegisters(old, new)
  PROVE  SlotOK(d, new) /\ new.state = "LedgerFinalized" /\ new.randomWord = 0
<1>1. PICK hash, tickets, slots \in Nat :
        /\ hash # 0 /\ tickets # 0 /\ ValidPrizeSlotCount(slots) /\ tickets >= slots
        /\ new = [ResetWinners(old) EXCEPT
                    !.ledgerHash = hash, !.totalTickets = tickets, !.prizeSlotCount = slots,
                    !.randomWord = 0, !.requestId = 0, !.state = "LedgerFinalized"]
  BY DEF SlotRegisters
<1>2. hash \in Nat /\ tickets \in Nat /\ slots \in 1..MAX_PRIZE_SLOTS /\ slots \in Nat
  BY <1>1 DEF ValidPrizeSlotCount, MAX_PRIZE_SLOTS
<1>3. /\ IsDraw(new) /\ NoLists(new) /\ new.state = "LedgerFinalized" /\ new.ledgerHash = hash
      /\ new.prizeSlotCount = slots /\ new.totalTickets = tickets /\ new.randomWord = 0
  <2> DEFINE reset == ResetWinners(old)
  <2>1. IsDraw(reset) /\ NoLists(reset)
    BY ResetDrawn
  <2>2. new = [reset EXCEPT
                 !.ledgerHash = hash, !.totalTickets = tickets, !.prizeSlotCount = slots,
                 !.randomWord = 0, !.requestId = 0, !.state = "LedgerFinalized"]
    BY <1>1
  <2> HIDE DEF reset
  <2>3. "LedgerFinalized" \in DrawState /\ 0 \in 0..MaxRequests /\ slots \in 0..MAX_PRIZE_SLOTS
    BY <1>2, CoordinatorAssumption DEF DrawState, MAX_PRIZE_SLOTS
  <2>4. IsDraw(new)
    BY <1>2, <2>1, <2>2, <2>3 DEF IsDraw
  <2>5. NoLists(new)
    BY <2>1, <2>2 DEF IsDraw, NoLists
  <2>6. /\ new.state = "LedgerFinalized" /\ new.ledgerHash = hash
        /\ new.prizeSlotCount = slots /\ new.totalTickets = tickets /\ new.randomWord = 0
    BY <2>1, <2>2 DEF IsDraw
  <2> QED
    BY <2>4, <2>5, <2>6
<1>4. SlotPicked(d, new)
  BY <1>1, <1>2, <1>3, NothingPicked
<1> QED
  BY <1>1, <1>2, <1>3, <1>4 DEF SlotOK, DrawnSoFar, SlotLife, NoLists

(* ... a request ... *)
LEMMA SlotAsksOK ==
  ASSUME HashesAreNumbers, NEW d, NEW old, SlotOK(d, old), NEW new, SlotAsks(old, new)
  PROVE  /\ SlotOK(d, new)
         /\ old.state = "LedgerFinalized" /\ new.state = "RandomnessRequested" /\ NoLists(old) /\ NoLists(new)
         /\ \A f \in {"ledgerHash", "totalTickets", "prizeSlotCount", "randomWord"} : new[f] = old[f]
<1>1. PICK id \in 0..MaxRequests :
        old.state = "LedgerFinalized" /\ new = [old EXCEPT !.requestId = id, !.state = "RandomnessRequested"]
  BY DEF SlotAsks
<1>2. IsDraw(old) /\ SlotPicked(d, old) /\ SlotLife(old)
  BY DEF SlotOK, DrawnSoFar
<1>3. NoLists(old) /\ old.ledgerHash # 0 /\ old.prizeSlotCount # 0
  BY <1>1, <1>2 DEF SlotLife, NoLists
<1>4. /\ IsDraw(new) /\ NoLists(new) /\ new.state = "RandomnessRequested"
      /\ \A f \in {"ledgerHash", "totalTickets", "prizeSlotCount", "randomWord"} : new[f] = old[f]
  BY <1>1, <1>2, <1>3 DEF IsDraw, NoLists, DrawState
<1>5. new.ledgerHash = old.ledgerHash /\ new.totalTickets = old.totalTickets /\ new.prizeSlotCount = old.prizeSlotCount
  BY <1>4
<1>6. SlotPicked(d, new)
  BY <1>2, <1>4, <1>5, NothingPicked DEF SlotPicked
<1> QED
  BY <1>1, <1>3, <1>4, <1>5, <1>6 DEF SlotOK, DrawnSoFar, SlotLife, NoLists

(* ... an answer ... *)
LEMMA SlotLearnsOK ==
  ASSUME HashesAreNumbers, NEW d, NEW old, SlotOK(d, old), NEW new, SlotLearns(old, new)
  PROVE  /\ SlotOK(d, new)
         /\ old.state = "RandomnessRequested" /\ new.state = "RandomnessReady" /\ NoLists(old) /\ NoLists(new)
         /\ new.randomWord \in Words
         /\ \A f \in {"ledgerHash", "totalTickets", "prizeSlotCount"} : new[f] = old[f]
<1>1. PICK word \in Words :
        old.state = "RandomnessRequested"
        /\ new = [ResetWinners(old) EXCEPT !.randomWord = word, !.state = "RandomnessReady"]
  BY DEF SlotLearns
<1>2. IsDraw(old) /\ SlotPicked(d, old) /\ SlotLife(old)
  BY DEF SlotOK, DrawnSoFar
<1>3. NoLists(old) /\ old.ledgerHash # 0 /\ old.prizeSlotCount # 0 /\ old.prizeSlotCount \in Nat
  BY <1>1, <1>2, DrawFigures DEF SlotLife, NoLists
<1>4. /\ IsDraw(new) /\ NoLists(new) /\ new.state = "RandomnessReady" /\ new.randomWord = word
      /\ new.ledgerHash = old.ledgerHash /\ new.totalTickets = old.totalTickets
      /\ new.prizeSlotCount = old.prizeSlotCount
  <2> DEFINE reset == ResetWinners(old)
  <2>1. /\ IsDraw(reset) /\ NoLists(reset)
        /\ \A f \in DrawFields \ ListFields : reset[f] = old[f]
    BY <1>2, ResetDrawn
  <2>2. new = [reset EXCEPT !.randomWord = word, !.state = "RandomnessReady"]
    BY <1>1
  <2> HIDE DEF reset
  <2>3. "RandomnessReady" \in DrawState
    BY DEF DrawState
  <2>4. IsDraw(new) /\ NoLists(new) /\ new.state = "RandomnessReady" /\ new.randomWord = word
    BY <2>1, <2>2, <2>3 DEF IsDraw, NoLists
  <2>5. /\ new.ledgerHash = reset.ledgerHash /\ new.totalTickets = reset.totalTickets
        /\ new.prizeSlotCount = reset.prizeSlotCount
    BY <2>1, <2>2 DEF IsDraw
  <2>6. /\ reset.ledgerHash = old.ledgerHash /\ reset.totalTickets = old.totalTickets
        /\ reset.prizeSlotCount = old.prizeSlotCount
    BY <2>1 DEF DrawFields, ListFields
  <2> QED
    BY <2>4, <2>5, <2>6
<1>6. SlotPicked(d, new) /\ Len(new.revealedPrizeSlots) = 0
  BY <1>2, <1>4, NothingPicked DEF SlotPicked
<1> QED
  BY <1>1, <1>3, <1>4, <1>6 DEF SlotOK, DrawnSoFar, SlotLife, NoLists

(* Longer lists of computed tickets serve the revealed slots as well. *)
LEMMA LongerTickets ==
  ASSUME NEW d, NEW drawn, DrawnSoFar(d, drawn), NEW new, IsDraw(new),
         \A f \in DrawFields \ {"allComputedTickets", "state"} : new[f] = drawn[f],
         Len(new.allComputedTickets) =< drawn.prizeSlotCount,
         Len(drawn.allComputedTickets) =< Len(new.allComputedTickets),
         new.allComputedTickets = Picks(d, drawn, Len(new.allComputedTickets)),
         \A i \in 1..Len(drawn.allComputedTickets) : new.allComputedTickets[i] = drawn.allComputedTickets[i]
  PROVE  DrawnSoFar(d, new)
<1> DEFINE n == Len(drawn.revealedPrizeSlots)
<1>1. /\ new.prizeSlotCount = drawn.prizeSlotCount /\ new.totalTickets = drawn.totalTickets
      /\ new.randomWord = drawn.randomWord /\ new.revealedPrizeSlots = drawn.revealedPrizeSlots
      /\ new.revealedTickets = drawn.revealedTickets
  BY DEF DrawFields
<1>2. SlotPicked(d, drawn) /\ IsDraw(drawn)
  BY DEF DrawnSoFar
<1>3. /\ drawn.revealedPrizeSlots \in Seq(Nat) /\ n \in Nat
      /\ Len(drawn.allComputedTickets) \in Nat /\ Len(new.allComputedTickets) \in Nat
  BY <1>2, DrawFigures
<1>4. ASSUME NEW i \in 1..n
      PROVE  /\ new.revealedPrizeSlots[i] < Len(new.allComputedTickets)
             /\ new.revealedTickets[i] = new.allComputedTickets[new.revealedPrizeSlots[i] + 1]
  <2> DEFINE slot == drawn.revealedPrizeSlots[i]
  <2>1. /\ slot < Len(drawn.allComputedTickets) /\ slot \in Nat
        /\ drawn.revealedTickets[i] = drawn.allComputedTickets[slot + 1]
    BY <1>2, <1>3 DEF SlotPicked
  <2> HIDE DEF slot
  <2>2. slot < Len(new.allComputedTickets) /\ slot + 1 \in 1..Len(drawn.allComputedTickets)
    <3>1. \A x, y, z \in Nat : x < y /\ y =< z => x < z /\ x + 1 \in 1..y
      OBVIOUS
    <3> QED
      BY <1>3, <2>1, <3>1
  <2> QED
    BY <1>1, <2>1, <2>2 DEF slot
<1>5. Picks(d, new, Len(new.allComputedTickets)) = Picks(d, drawn, Len(new.allComputedTickets))
  BY <1>1 DEF Picks
<1>6. SlotPicked(d, new)
  BY <1>1, <1>2, <1>4, <1>5 DEF SlotPicked
<1> QED
  BY <1>6 DEF DrawnSoFar

(* What a reveal does to a draw. *)
RevealsBatch(old, new) ==
  /\ old.state = "RandomnessReady"
  /\ new.state = IF Len(new.revealedPrizeSlots) = new.prizeSlotCount THEN "Fulfilled" ELSE "RandomnessReady"
  /\ \A f \in DrawFields \ ({"state"} \cup ListFields) : new[f] = old[f]
  /\ \E batch \in SUBSET (0..(old.prizeSlotCount - 1)) :
       /\ batch # {} /\ batch \cap ToSet(old.revealedPrizeSlots) = {}
       /\ ToSet(new.revealedPrizeSlots) = ToSet(old.revealedPrizeSlots) \cup batch

(* ... and a reveal, which adds slots that were not revealed before. *)
LEMMA SlotRevealsOK ==
  ASSUME HashesAreNumbers, NEW d, NEW old, SlotOK(d, old), NEW new, SlotReveals(d, old, new)
  PROVE  SlotOK(d, new) /\ RevealsBatch(old, new)
<1>1. PICK slots :
        /\ old.state = "RandomnessReady" /\ Len(slots) \in 1..Remaining(old) /\ MayDraw(old, slots)
        /\ new = RevealedDraw(d, old, DrawSlots(d, old, slots))
  BY DEF SlotReveals
<1> DEFINE drawn == DrawSlots(d, old, slots)
           n == Len(old.revealedPrizeSlots)
           count == old.prizeSlotCount
           all == IF AllRevealed(drawn) THEN EnsureComputed(d, drawn, count - 1)
                  ELSE drawn.allComputedTickets
<1>2. IsDraw(old) /\ SlotPicked(d, old) /\ SlotLife(old) /\ DrawnSoFar(d, old)
  BY DEF SlotOK, DrawnSoFar
<1>3. n \in Nat /\ count \in Nat /\ count # 0 /\ old.revealedPrizeSlots \in Seq(Nat)
  BY <1>1, <1>2, DrawFigures DEF SlotLife
<1>4. DrawnSoFar(d, drawn) /\ Extended(old, drawn, slots, Len(slots))
  BY <1>1, <1>2, DrawSlotsPicks
<1> HIDE DEF drawn
<1>5. /\ Len(slots) \in Nat /\ Len(slots) # 0 /\ n + Len(slots) =< count
  BY <1>1, <1>3 DEF Remaining
<1>6. /\ IsDraw(drawn) /\ Len(drawn.revealedPrizeSlots) = n + Len(slots)
      /\ \A f \in DrawFields \ ListFields : drawn[f] = old[f]
      /\ \A i \in 1..n : drawn.revealedPrizeSlots[i] = old.revealedPrizeSlots[i]
      /\ \A i \in 1..Len(slots) : drawn.revealedPrizeSlots[n + i] = slots[i]
  BY <1>4 DEF DrawnSoFar, Extended
<1>7. drawn.prizeSlotCount = count /\ drawn.state = old.state
  BY <1>6 DEF DrawFields, ListFields
<1>8. /\ all \in Seq(Nat) /\ Len(all) =< drawn.prizeSlotCount
      /\ Len(drawn.allComputedTickets) =< Len(all) /\ all = Picks(d, drawn, Len(all))
      /\ \A i \in 1..Len(drawn.allComputedTickets) : all[i] = drawn.allComputedTickets[i]
  <2>1. CASE AllRevealed(drawn)
    <3>1. count - 1 \in 0..(drawn.prizeSlotCount - 1)
      BY <1>3, <1>7
    <3> QED
      BY <1>4, <2>1, <3>1, EnsuredTickets
  <2>2. CASE ~ AllRevealed(drawn)
    BY <1>4, <1>6, <2>2, DrawFigures DEF DrawnSoFar, SlotPicked
  <2> QED
    BY <2>1, <2>2
<1>9. new = [old EXCEPT !.revealedPrizeSlots = drawn.revealedPrizeSlots,
                        !.revealedTickets = drawn.revealedTickets, !.allComputedTickets = all,
                        !.state = IF AllRevealed(drawn) THEN "Fulfilled" ELSE "RandomnessReady"]
  BY <1>1 DEF RevealedDraw, drawn
<1> HIDE DEF all
<1>10. /\ IsDraw(new)
       /\ new.revealedPrizeSlots = drawn.revealedPrizeSlots /\ new.revealedTickets = drawn.revealedTickets
       /\ new.allComputedTickets = all
       /\ new.state = IF AllRevealed(drawn) THEN "Fulfilled" ELSE "RandomnessReady"
       /\ \A f \in DrawFields \ ({"state"} \cup ListFields) : new[f] = old[f]
  <2>1. drawn.revealedPrizeSlots \in Seq(Nat) /\ drawn.revealedTickets \in Seq(Nat)
    BY <1>6, DrawFigures
  <2>2. {"Fulfilled", "RandomnessReady"} \subseteq DrawState
    BY DEF DrawState
  <2>3. new.state = IF AllRevealed(drawn) THEN "Fulfilled" ELSE "RandomnessReady"
    BY <1>2, <1>9 DEF IsDraw
  <2>4. (IF AllRevealed(drawn) THEN "Fulfilled" ELSE "RandomnessReady") \in DrawState
    BY <2>2
  <2>5. IsDraw(new)
    BY <1>2, <1>8, <1>9, <2>1, <2>4 DEF IsDraw
  <2>6. /\ new.revealedPrizeSlots = drawn.revealedPrizeSlots /\ new.revealedTickets = drawn.revealedTickets
        /\ new.allComputedTickets = all
    BY <1>2, <1>9 DEF IsDraw
  <2>7. \A f \in DrawFields \ ({"state"} \cup ListFields) : new[f] = old[f]
    BY <1>2, <1>9 DEF IsDraw, DrawFields, ListFields
  <2> QED
    BY <2>3, <2>5, <2>6, <2>7
<1>11. DrawnSoFar(d, new)
  <2>1. \A f \in DrawFields \ {"allComputedTickets", "state"} : new[f] = drawn[f]
    <3>1. \A f \in DrawFields \ ({"state"} \cup ListFields) : new[f] = drawn[f]
      BY <1>6, <1>10
    <3> QED
      BY <1>10, <3>1 DEF ListFields
  <2> QED
    BY <1>4, <1>8, <1>10, <2>1, LongerTickets
<1>12. new.prizeSlotCount = count /\ new.ledgerHash = old.ledgerHash
  BY <1>10 DEF DrawFields, ListFields
<1>13. /\ new.state = IF Len(new.revealedPrizeSlots) = new.prizeSlotCount THEN "Fulfilled" ELSE "RandomnessReady"
       /\ Len(new.revealedPrizeSlots) =< count /\ Len(new.revealedPrizeSlots) \in Nat
  BY <1>3, <1>5, <1>6, <1>7, <1>10, <1>12 DEF AllRevealed
<1>14. SlotLife(new)
  <2>1. old.ledgerHash # 0 /\ old.prizeSlotCount # 0
    BY <1>1, <1>2 DEF SlotLife
  <2> QED
    BY <1>3, <1>12, <1>13, <2>1 DEF SlotLife
<1> DEFINE batch == {slots[i] : i \in 1..Len(slots)}
<1>15. ToSet(drawn.revealedPrizeSlots) = ToSet(old.revealedPrizeSlots) \cup batch
  <2> DEFINE a == drawn.revealedPrizeSlots
             b == old.revealedPrizeSlots
             k == Len(slots)
  <2>1. DOMAIN a = 1..(n + k) /\ DOMAIN b = 1..n
    BY <1>3, <1>6, DrawFigures
  <2>2. ToSet(a) = {a[i] : i \in 1..(n + k)} /\ ToSet(b) = {b[i] : i \in 1..n}
    BY <2>1 DEF ToSet
  <2>3. \A i \in 1..(n + k) : IF i \in 1..n THEN a[i] = b[i] ELSE i - n \in 1..k /\ a[i] = slots[i - n]
    <3>1. ASSUME NEW i \in 1..(n + k), i \notin 1..n
          PROVE  i - n \in 1..k /\ n + (i - n) = i
      BY <1>3, <1>5, <3>1
    <3> QED
      BY <1>6, <3>1
  <2>4. /\ \A i \in 1..n : i \in 1..(n + k) /\ a[i] = b[i]
        /\ \A i \in 1..k : n + i \in 1..(n + k) /\ a[n + i] = slots[i]
    BY <1>3, <1>5, <1>6
  <2> HIDE DEF a, b, n, k
  <2> QED
    BY <2>2, <2>3, <2>4 DEF a, b, k
<1>16. batch \in SUBSET (0..(count - 1)) /\ batch # {} /\ batch \cap ToSet(old.revealedPrizeSlots) = {}
  <2>1. \A i \in 1..Len(slots) : Drawable(old, slots[i])
    BY <1>1 DEF MayDraw
  <2>2. 1 \in 1..Len(slots)
    BY <1>5
  <2>3. \A slot : Drawable(old, slot) => slot \in 0..(count - 1) /\ slot \notin ToSet(old.revealedPrizeSlots)
    BY <1>3 DEF Drawable, Contains, ToSet
  <2> QED
    BY <2>1, <2>2, <2>3
<1> QED
  BY <1>1, <1>10, <1>11, <1>13, <1>14, <1>15, <1>16 DEF SlotOK, RevealsBatch

-----------------------------------------------------------------------------
(* The inductive invariant of the per-draw path. *)

(* Every move keeps a draw in order. *)
LEMMA SlotMoveOK ==
  ASSUME HashesAreNumbers, NEW d, NEW old, SlotOK(d, old), NEW new, SlotMove(d, old, new)
  PROVE  SlotOK(d, new)
<1>1. IsDraw(old)
  BY DEF SlotOK, DrawnSoFar
<1>2. CASE SlotEmpties(old, new)
  BY <1>2, EmptyDrawOK DEF SlotEmpties
<1> QED
  BY <1>1, <1>2, SlotRegistersOK, SlotAsksOK, SlotLearnsOK, SlotRevealsOK DEF SlotMove

(* The inductive invariant of the per-draw path. *)
SlotInv == RequestInv /\ drawIdList \in Seq(DrawIds) /\ \A d \in DrawIds : SlotOK(d, draws[d])

(* It holds initially ... *)
LEMMA SlotInvInit == HashesAreNumbers /\ Init => SlotInv
<1> SUFFICES ASSUME HashesAreNumbers, Init PROVE SlotInv
  OBVIOUS
<1>1. drawIdList \in Seq(DrawIds) /\ \A d \in DrawIds : draws[d] = EmptyDraw
  BY DEF Init, SlotInit
<1> QED
  BY <1>1, EmptyDrawOK, RequestInvInit DEF SlotInv

(* The list of draws only ever gains a draw identifier. *)
LEMMA DrawIdsListed ==
  ASSUME drawIdList \in Seq(DrawIds), [Next]_vars
  PROVE  drawIdList' \in Seq(DrawIds)
<1>1. ASSUME NEW a \in Accounts, NEW d \in DrawIds, SlotCall(a, d)
      PROVE  drawIdList' = drawIdList \/ drawIdList' = Remember(drawIdList, d)
  BY <1>1 DEF SlotCall, FinalizeLedger, ResetDraft, RequestDraw, DrawNext, DrawBatch, DrawPrizeSlot,
              DrawPrizeSlots, DrawRandomPrizeSlot, RevealSlots
<1>2. ASSUME NEW id \in RequestIds, NEW word \in Words, FulfillRandomWords(id, word)
      PROVE  drawIdList' = drawIdList
  BY <1>2 DEF FulfillRandomWords, FulfillDraw, slotVars
<1>3. drawIdList' = drawIdList \/ \E d \in DrawIds : drawIdList' = Remember(drawIdList, d)
  BY <1>1, <1>2 DEF Next, vars, slotVars
<1> QED
  BY <1>3, RememberType

(* ... every step keeps it ... *)
LEMMA SlotInvNext == HashesAreNumbers /\ SlotInv /\ [Next]_vars => SlotInv'
<1> SUFFICES ASSUME HashesAreNumbers, SlotInv, [Next]_vars PROVE SlotInv'
  OBVIOUS
<1>1. RequestInv /\ RequestInv' /\ drawIdList' \in Seq(DrawIds)
  BY RequestInvNext, DrawIdsListed DEF SlotInv
<1>2. CoordinatorTypeOK /\ SlotShape
  BY <1>1 DEF RequestInv, RoundInv
<1>3. CASE UNCHANGED draws
  BY <1>1, <1>3 DEF SlotInv
<1>4. CASE OneDrawMoves
  <2>1. PICK d \in DrawIds : \E new : draws' = [draws EXCEPT ![d] = new] /\ SlotMove(d, draws[d], new)
    BY <1>4 DEF OneDrawMoves
  <2>2. PICK new : draws' = [draws EXCEPT ![d] = new] /\ SlotMove(d, draws[d], new)
    BY <2>1
  <2>3. SlotOK(d, new)
    BY <2>2, SlotMoveOK DEF SlotInv
  <2>4. \A e \in DrawIds : draws'[e] = IF e = d THEN new ELSE draws[e]
    BY <1>2, <2>2 DEF SlotShape
  <2> QED
    BY <1>1, <2>3, <2>4 DEF SlotInv
<1>5. \A d \in DrawIds : IsDraw(draws[d])
  BY DEF SlotInv, SlotOK, DrawnSoFar
<1> QED
  BY <1>2, <1>3, <1>4, <1>5, DrawsMove

(* ... so it always holds. *)
LEMMA SlotInvHolds ==
  ASSUME HashesAreNumbers
  PROVE  Spec => []SlotInv
BY SlotInvInit, SlotInvNext, PTL DEF Spec

(* The contract's storage keeps its Solidity types, on both paths. *)
THEOREM TypeCorrect ==
  ASSUME HashesAreNumbers
  PROVE  Spec => []TypeOK
<1>1. SlotInv => SlotTypeOK
  BY DEF SlotInv, SlotOK, DrawnSoFar, SlotTypeOK, RequestInv, SlotShape
<1>2. SlotInv => CoordinatorTypeOK /\ RoundTypeOK
  BY DEF SlotInv, RequestInv, RoundInv
<1> QED
  BY <1>1, <1>2, AccessIsTyped, SlotInvHolds, PTL DEF TypeOK

(* The computed tickets of a draw are different tickets of its pool. *)
LEMMA TicketsPicked ==
  ASSUME HashesAreNumbers, NEW d, NEW draw, DrawnSoFar(d, draw)
  PROVE  Picked(draw.totalTickets, Len(draw.allComputedTickets), draw.allComputedTickets)
<1>1. SlotPicked(d, draw) /\ IsDraw(draw)
  BY DEF DrawnSoFar
<1> DEFINE k == Len(draw.allComputedTickets)
<1>2. k \in Nat /\ draw.totalTickets \in Nat /\ draw.prizeSlotCount \in Nat /\ k =< draw.prizeSlotCount
      /\ draw.prizeSlotCount =< draw.totalTickets /\ draw.allComputedTickets = Picks(d, draw, k)
  BY <1>1, DrawFigures DEF SlotPicked
<1> HIDE DEF k
<1>3. k \in 0..draw.totalTickets
  BY <1>2
<1> QED
  BY <1>2, <1>3, PicksSteps DEF k

(* However the slots are revealed, the tickets are different tickets of the pool,
   no slot is revealed twice, and every slot has its own ticket. *)
THEOREM SlotTicketsCorrect ==
  ASSUME HashesAreNumbers
  PROVE  Spec => []SlotTicketsValid
<1>1. SlotInv => SlotTicketsValid
  <2> SUFFICES ASSUME SlotInv, NEW d \in DrawIds
               PROVE  LET draw == draws[d] IN
                      /\ DistinctTickets(draw.allComputedTickets, draw.totalTickets)
                      /\ IsInjective(draw.revealedPrizeSlots)
                      /\ Len(draw.revealedTickets) = Len(draw.revealedPrizeSlots)
                      /\ \A i \in DOMAIN draw.revealedTickets :
                           draw.revealedTickets[i] = draw.allComputedTickets[draw.revealedPrizeSlots[i] + 1]
    BY DEF SlotTicketsValid
  <2> DEFINE draw == draws[d]
  <2>1. DrawnSoFar(d, draw) /\ SlotPicked(d, draw) /\ IsDraw(draw)
    BY DEF SlotInv, SlotOK, DrawnSoFar
  <2> HIDE DEF draw
  <2>2. DistinctTickets(draw.allComputedTickets, draw.totalTickets)
    <3>1. \A T : \A s \in Seq(T) : ToSet(s) \subseteq T
      BY DEF ToSet
    <3>2. Picked(draw.totalTickets, Len(draw.allComputedTickets), draw.allComputedTickets)
      BY <2>1, TicketsPicked
    <3> QED
      BY <3>1, <3>2 DEF Picked, DistinctTickets
  <2>3. DOMAIN draw.revealedTickets = 1..Len(draw.revealedPrizeSlots)
    BY <2>1, DrawFigures DEF SlotPicked
  <2> QED
    BY <2>1, <2>2, <2>3 DEF SlotPicked, draw
<1> QED
  BY <1>1, SlotInvHolds, PTL

-----------------------------------------------------------------------------
(* Every move of a draw is a step of FairDraw. *)

(* The views of FairDraw, draw by draw. *)
LEMMA SlotViews ==
  /\ SlotPhases = [d \in DrawIds |-> SlotPhases[d]]
  /\ SlotLedgers = [d \in DrawIds |-> SlotLedgers[d]]
  /\ SlotWords = [d \in DrawIds |-> SlotWords[d]]
  /\ SlotResults = [d \in DrawIds |-> SlotResults[d]]
  /\ \A d \in DrawIds :
       /\ SlotPhases[d] = Phase[draws[d].state] /\ SlotLedgers[d] = SlotLedgerOf(draws[d])
       /\ SlotWords[d] = draws[d].randomWord /\ SlotResults[d] = SlotPublished(draws[d])
BY DEF SlotPhases, SlotLedgers, SlotWords, SlotResults

(* What is seen of the draws when one of them is replaced. *)
LEMMA DrawAbstracted ==
  ASSUME SlotShape, NEW r \in DrawIds, NEW new, draws' = [draws EXCEPT ![r] = new]
  PROVE  /\ SlotPhases' = [SlotPhases EXCEPT ![r] = Phase[new.state]]
         /\ SlotLedgers' = [SlotLedgers EXCEPT ![r] = SlotLedgerOf(new)]
         /\ SlotWords' = [SlotWords EXCEPT ![r] = new.randomWord]
         /\ SlotResults' = [SlotResults EXCEPT ![r] = SlotPublished(new)]
<1>1. draws = [q \in DrawIds |-> draws[q]]
  BY DEF SlotShape
<1>2. draws'[r] = new /\ \A q \in DrawIds : q # r => draws'[q] = draws[q]
  BY <1>1
<1>3. SlotPhases' = [SlotPhases EXCEPT ![r] = Phase[new.state]]
  <2>1. ASSUME NEW q \in DrawIds, q # r
        PROVE  Phase[draws'[q].state] = Phase[draws[q].state]
    BY <1>2, <2>1, Zenon
  <2>2. Phase[draws'[r].state] = Phase[new.state]
    BY <1>2, Zenon
  <2> QED
    BY <2>1, <2>2 DEF SlotPhases
<1>4. SlotLedgers' = [SlotLedgers EXCEPT ![r] = SlotLedgerOf(new)]
  <2>1. ASSUME NEW q \in DrawIds, q # r
        PROVE  SlotLedgerOf(draws'[q]) = SlotLedgerOf(draws[q])
    BY <1>2, <2>1, Zenon
  <2>2. SlotLedgerOf(draws'[r]) = SlotLedgerOf(new)
    BY <1>2, Zenon
  <2> QED
    BY <2>1, <2>2 DEF SlotLedgers
<1>5. SlotWords' = [SlotWords EXCEPT ![r] = new.randomWord]
  <2>1. ASSUME NEW q \in DrawIds, q # r
        PROVE  draws'[q].randomWord = draws[q].randomWord
    BY <1>2, <2>1, Zenon
  <2>2. draws'[r].randomWord = new.randomWord
    BY <1>2, Zenon
  <2> QED
    BY <2>1, <2>2 DEF SlotWords
<1>6. SlotResults' = [SlotResults EXCEPT ![r] = SlotPublished(new)]
  <2>1. ASSUME NEW q \in DrawIds, q # r
        PROVE  SlotPublished(draws'[q]) = SlotPublished(draws[q])
    BY <1>2, <2>1, Zenon
  <2>2. SlotPublished(draws'[r]) = SlotPublished(new)
    BY <1>2, Zenon
  <2> QED
    BY <2>1, <2>2 DEF SlotResults
<1> QED
  BY <1>3, <1>4, <1>5, <1>6

(* A draw without revealed slots has published nothing. *)
LEMMA NothingPublished ==
  ASSUME NEW draw, NoLists(draw)
  PROVE  SlotPublished(draw) = [i \in {} |-> {}]
<1>1. ToSet(draw.revealedPrizeSlots) = {}
  BY DEF NoLists, ToSet
<1> QED
  BY <1>1 DEF SlotPublished

(* The slots revealed are slots of the draw, and the last one completes it. *)
LEMMA RevealedSlots ==
  ASSUME NEW d, NEW draw, DrawnSoFar(d, draw)
  PROVE  /\ ToSet(draw.revealedPrizeSlots) \subseteq 0..(draw.prizeSlotCount - 1)
         /\ IsFiniteSet(ToSet(draw.revealedPrizeSlots))
         /\ Cardinality(ToSet(draw.revealedPrizeSlots)) = Len(draw.revealedPrizeSlots)
         /\ Len(draw.revealedPrizeSlots) =< draw.prizeSlotCount
         /\ Len(draw.revealedPrizeSlots) = draw.prizeSlotCount
              <=> ToSet(draw.revealedPrizeSlots) = 0..(draw.prizeSlotCount - 1)
<1> DEFINE slots == draw.revealedPrizeSlots
           S == ToSet(slots)
           count == draw.prizeSlotCount
           T == 0..(count - 1)
<1>1. /\ SlotPicked(d, draw) /\ IsDraw(draw) /\ slots \in Seq(Nat) /\ count \in Nat /\ Len(slots) \in Nat
      /\ Len(draw.allComputedTickets) \in Nat
  BY DrawFigures DEF DrawnSoFar
<1>2. \A i \in 1..Len(slots) : slots[i] \in Nat /\ slots[i] < count
  <2>1. Len(draw.allComputedTickets) =< count
        /\ \A i \in 1..Len(slots) : slots[i] < Len(draw.allComputedTickets)
    BY <1>1 DEF SlotPicked
  <2>2. \A i \in 1..Len(slots) : slots[i] \in Nat
    BY <1>1
  <2>3. \A x, y, z \in Nat : x < y /\ y =< z => x < z
    OBVIOUS
  <2> QED
    BY <1>1, <2>1, <2>2, <2>3
<1>3. S \subseteq T
  <2>1. S = {slots[i] : i \in 1..Len(slots)}
    BY <1>1 DEF ToSet
  <2>2. \A x \in Nat : x < count => x \in T
    BY <1>1
  <2> QED
    BY <1>2, <2>1, <2>2
<1>4. IsFiniteSet(T) /\ Cardinality(T) = count
  <2>1. 0 \in Int /\ count - 1 \in Int /\ (0 > count - 1 <=> count = 0) /\ (count - 1) - 0 + 1 = count
    BY <1>1
  <2> HIDE DEF count
  <2>2. IsFiniteSet(T) /\ Cardinality(T) = IF 0 > count - 1 THEN 0 ELSE (count - 1) - 0 + 1
    BY <2>1, FS_Interval, Zenon
  <2> QED
    BY <2>1, <2>2
<1>5. Cardinality(S) = Len(slots)
  BY <1>1, InjectiveCount DEF SlotPicked
<1> HIDE DEF S, T
<1>6. IsFiniteSet(S) /\ Cardinality(S) =< Cardinality(T) /\ (Cardinality(S) = Cardinality(T) => S = T)
  BY <1>3, <1>4, FS_Subset
<1>7. Len(slots) = count <=> S = T
  BY <1>4, <1>5, <1>6
<1> QED
  BY <1>3, <1>4, <1>5, <1>6, <1>7 DEF S, T

(* What a draw has published is what FairDraw says: the ticket that a
   computation of all slots in order would give each revealed slot. *)
LEMMA PublishedFairly ==
  ASSUME HashesAreNumbers, NEW d, NEW draw, DrawnSoFar(d, draw), draw.state # "Draft"
  PROVE  SlotPublished(draw)
           = [slot \in ToSet(draw.revealedPrizeSlots) |->
                SlotOutcome(draw.randomWord, d, slot, SlotLedgerOf(draw))]
<1> DEFINE l == SlotLedgerOf(draw)
           slots == draw.revealedPrizeSlots
           k == Len(draw.allComputedTickets)
<1>1. l.totalTickets = draw.totalTickets /\ l.prizeSlotCount = draw.prizeSlotCount
  BY DEF SlotLedgerOf
<1>2. /\ SlotPicked(d, draw) /\ IsDraw(draw) /\ slots \in Seq(Nat) /\ k \in Nat
      /\ draw.prizeSlotCount \in Nat /\ draw.totalTickets \in Nat
      /\ k =< draw.prizeSlotCount /\ draw.prizeSlotCount =< draw.totalTickets
      /\ draw.allComputedTickets = Picks(d, draw, k)
  BY DrawFigures DEF DrawnSoFar, SlotPicked
<1> HIDE DEF l, k
<1>3. ASSUME NEW slot \in ToSet(slots)
      PROVE  draw.revealedTickets[CHOOSE i \in DOMAIN slots : slots[i] = slot]
               = SlotOutcome(draw.randomWord, d, slot, l)
  <2> DEFINE i == CHOOSE j \in DOMAIN slots : slots[j] = slot
  <2>1. i \in DOMAIN slots /\ slots[i] = slot
    BY DEF ToSet
  <2> HIDE DEF i
  <2>2. i \in 1..Len(slots) /\ slot \in Nat
    BY <1>2, <2>1
  <2>3. slot < k /\ draw.revealedTickets[i] = draw.allComputedTickets[slot + 1]
    BY <1>2, <2>1, <2>2 DEF SlotPicked, k
  <2>4. slot + 1 \in 1..k /\ k \in 0..draw.totalTickets /\ draw.prizeSlotCount \in k..draw.totalTickets
    BY <1>2, <2>2, <2>3
  <2>5. PickTickets(draw.totalTickets, draw.prizeSlotCount, <<draw.randomWord, d>>)[slot + 1]
          = PickTickets(draw.totalTickets, k, <<draw.randomWord, d>>)[slot + 1]
    BY <1>2, <2>4, PickTicketsPrefix
  <2> QED
    BY <1>1, <1>2, <2>3, <2>5 DEF Picks, SlotOutcome, i
<1> QED
  BY <1>3 DEF SlotPublished, l

(* Finalizing a draw's ledger is FairDraw's Register ... *)
LEMMA SlotRegistersFairly ==
  ASSUME HashesAreNumbers, NEW d, NEW old, IsDraw(old), NEW new, SlotRegisters(old, new)
  PROVE  /\ Phase[old.state] \in {"open", "ready"} /\ Phase[new.state] = "ready"
         /\ IsSlotLedger(SlotLedgerOf(new)) /\ new.randomWord = 0
         /\ SlotPublished(new) = [i \in {} |-> {}]
<1>1. SlotOK(d, new) /\ new.state = "LedgerFinalized" /\ new.randomWord = 0
  BY SlotRegistersOK
<1>2. IsDraw(new) /\ SlotPicked(d, new) /\ SlotLife(new)
  BY <1>1 DEF SlotOK, DrawnSoFar
<1>3. NoLists(new) /\ new.ledgerHash # 0 /\ new.prizeSlotCount # 0
  BY <1>1, <1>2 DEF SlotLife, NoLists
<1>4. new.prizeSlotCount \in Nat /\ new.totalTickets \in Nat /\ new.prizeSlotCount =< new.totalTickets
  BY <1>2, DrawFigures DEF SlotPicked
<1>5. SlotLedgerOf(new) = [hash |-> new.ledgerHash, totalTickets |-> new.totalTickets,
                           prizeSlotCount |-> new.prizeSlotCount]
  BY <1>1 DEF SlotLedgerOf
<1>6. SlotLedgerOf(new) # NoLedger
  BY <1>3, <1>5 DEF NoLedger
<1>7. new.prizeSlotCount > 0 /\ new.totalTickets >= new.prizeSlotCount
  BY <1>3, <1>4
<1>8. IsSlotLedger(SlotLedgerOf(new))
  <2> DEFINE l == SlotLedgerOf(new)
  <2>1. l.hash = new.ledgerHash /\ l.totalTickets = new.totalTickets /\ l.prizeSlotCount = new.prizeSlotCount
    BY <1>5
  <2> HIDE DEF l
  <2>2. l # NoLedger
    BY <1>6 DEF l
  <2>3. IsSlotLedger(l)
    BY <1>3, <1>7, <2>1, <2>2 DEF IsSlotLedger
  <2> QED
    BY <2>3 DEF l
<1>9. Phase[old.state] \in {"open", "ready"} /\ Phase[new.state] = "ready"
  BY <1>1 DEF SlotRegisters, Phase
<1> QED
  BY <1>1, <1>3, <1>8, <1>9, NothingPublished

(* The published part of a draw grows by a batch of slots, as in FairDraw. *)
PublishesBatch(d, old, new, batch) ==
  LET l == SlotLedgerOf(old)
      all == DOMAIN SlotPublished(old) \cup batch IN
  /\ batch # {} /\ batch \subseteq SlotItems(l) \ DOMAIN SlotPublished(old)
  /\ SlotPublished(new) = [slot \in all |-> SlotOutcome(old.randomWord, d, slot, l)]
  /\ Phase[new.state] = IF all = SlotItems(l) THEN "complete" ELSE "drawn"

(* ... revealing slots is its Publish ... *)
LEMMA SlotRevealsFairly ==
  ASSUME HashesAreNumbers, NEW d, NEW old, SlotOK(d, old), NEW new, SlotReveals(d, old, new)
  PROVE  /\ SlotLedgerOf(new) = SlotLedgerOf(old) /\ new.randomWord = old.randomWord
         /\ Phase[old.state] = "drawn"
         /\ \E batch \in SUBSET SlotItems(SlotLedgerOf(old)) : PublishesBatch(d, old, new, batch)
<1> DEFINE l == SlotLedgerOf(old)
<1>1. /\ SlotOK(d, new) /\ old.state = "RandomnessReady"
      /\ new.state = IF Len(new.revealedPrizeSlots) = new.prizeSlotCount THEN "Fulfilled" ELSE "RandomnessReady"
      /\ \A f \in DrawFields \ ({"state"} \cup ListFields) : new[f] = old[f]
      /\ \E batch \in SUBSET (0..(old.prizeSlotCount - 1)) :
           /\ batch # {} /\ batch \cap ToSet(old.revealedPrizeSlots) = {}
           /\ ToSet(new.revealedPrizeSlots) = ToSet(old.revealedPrizeSlots) \cup batch
  <2>1. SlotOK(d, new) /\ RevealsBatch(old, new)
    BY SlotRevealsOK
  <2> QED
    BY <2>1, Zenon DEF RevealsBatch
<1>2. PICK batch \in SUBSET (0..(old.prizeSlotCount - 1)) :
           /\ batch # {} /\ batch \cap ToSet(old.revealedPrizeSlots) = {}
           /\ ToSet(new.revealedPrizeSlots) = ToSet(old.revealedPrizeSlots) \cup batch
  BY <1>1
<1>3. DrawnSoFar(d, old) /\ DrawnSoFar(d, new)
  BY <1>1 DEF SlotOK
<1>4. /\ new.ledgerHash = old.ledgerHash /\ new.totalTickets = old.totalTickets
      /\ new.prizeSlotCount = old.prizeSlotCount /\ new.randomWord = old.randomWord
  BY <1>1 DEF DrawFields, ListFields
<1>5. new.state \in {"RandomnessReady", "Fulfilled"} /\ new.state # "Draft" /\ old.state # "Draft"
  BY <1>1
<1>6. SlotLedgerOf(new) = l /\ l = [hash |-> old.ledgerHash, totalTickets |-> old.totalTickets,
                                    prizeSlotCount |-> old.prizeSlotCount]
  BY <1>4, <1>5 DEF SlotLedgerOf
<1>7. SlotItems(l) = 0..(old.prizeSlotCount - 1)
  <2>1. l # NoLedger
    <3>1. old.ledgerHash # 0
      BY <1>5 DEF SlotOK, SlotLife
    <3> QED
      BY <1>6, <3>1 DEF NoLedger
  <2>2. l.prizeSlotCount = old.prizeSlotCount
    BY <1>6
  <2> HIDE DEF l
  <2> QED
    BY <2>1, <2>2 DEF SlotItems
<1>8. SlotPublished(new) = [slot \in ToSet(new.revealedPrizeSlots) |-> SlotOutcome(old.randomWord, d, slot, l)]
  BY <1>3, <1>4, <1>5, <1>6, PublishedFairly
<1>9. DOMAIN SlotPublished(old) = ToSet(old.revealedPrizeSlots)
  BY DEF SlotPublished
<1>10. Phase[new.state] = IF ToSet(new.revealedPrizeSlots) = SlotItems(l) THEN "complete" ELSE "drawn"
  <2>1. Len(new.revealedPrizeSlots) = new.prizeSlotCount <=> ToSet(new.revealedPrizeSlots) = SlotItems(l)
    BY <1>3, <1>4, <1>7, RevealedSlots
  <2>2. Phase["Fulfilled"] = "complete" /\ Phase["RandomnessReady"] = "drawn"
    BY DEF Phase
  <2> QED
    BY <1>1, <2>1, <2>2
<1>11. Phase[old.state] = "drawn"
  BY <1>1 DEF Phase
<1>12. PublishesBatch(d, old, new, batch)
  <2> HIDE DEF l
  <2>1. /\ batch # {} /\ batch \subseteq SlotItems(l) \ DOMAIN SlotPublished(old)
        /\ DOMAIN SlotPublished(old) \cup batch = ToSet(new.revealedPrizeSlots)
    BY <1>2, <1>7, <1>9
  <2> QED
    BY <1>8, <1>10, <2>1 DEF PublishesBatch, l
<1>13. batch \in SUBSET SlotItems(l)
  BY <1>2, <1>7
<1> QED
  BY <1>4, <1>6, <1>11, <1>12, <1>13

(* ... and so every move of a draw is a step of FairDraw. *)
LEMMA DrawStepIsFair ==
  ASSUME HashesAreNumbers, SlotInv, NEW d \in DrawIds, NEW new, draws' = [draws EXCEPT ![d] = new],
         SlotMove(d, draws[d], new)
  PROVE  SlotsAsFairDraw!Next
<1> DEFINE old == draws[d]
<1>1. SlotOK(d, old) /\ IsDraw(old) /\ SlotShape
  BY DEF SlotInv, SlotOK, DrawnSoFar, RequestInv
<1>2. old.state \in DrawState
  BY <1>1 DEF IsDraw
<1>3. /\ SlotPhases[d] = Phase[old.state] /\ SlotLedgers[d] = SlotLedgerOf(old)
      /\ SlotWords[d] = old.randomWord /\ SlotResults[d] = SlotPublished(old)
  BY SlotViews
<1>4. /\ SlotPhases' = [SlotPhases EXCEPT ![d] = Phase[new.state]]
      /\ SlotLedgers' = [SlotLedgers EXCEPT ![d] = SlotLedgerOf(new)]
      /\ SlotWords' = [SlotWords EXCEPT ![d] = new.randomWord]
      /\ SlotResults' = [SlotResults EXCEPT ![d] = SlotPublished(new)]
  BY <1>1, DrawAbstracted
<1>5. /\ [SlotLedgers EXCEPT ![d] = SlotLedgerOf(old)] = SlotLedgers
      /\ [SlotWords EXCEPT ![d] = old.randomWord] = SlotWords
      /\ [SlotResults EXCEPT ![d] = SlotPublished(old)] = SlotResults
  BY SlotViews, UnchangedAt
<1>6. SlotMove(d, old, new)
  OBVIOUS
<1> HIDE DEF old
<1>7. CASE SlotRegisters(old, new)
  <2>1. /\ Phase[old.state] \in {"open", "ready"} /\ Phase[new.state] = "ready"
        /\ IsSlotLedger(SlotLedgerOf(new)) /\ new.randomWord = 0
        /\ SlotPublished(new) = [i \in {} |-> {}]
    BY <1>1, <1>7, SlotRegistersFairly
  <2>2. SlotLedgers'[d] = SlotLedgerOf(new)
    BY <1>4, SlotViews
  <2>3. SlotsAsFairDraw!Register(d)
    BY <1>3, <1>4, <2>1, <2>2 DEF SlotsAsFairDraw!Register, SlotsAsFairDraw!NothingPublished
  <2> QED
    BY <2>3 DEF SlotsAsFairDraw!Next
<1>8. CASE SlotEmpties(old, new)
  <2>1. Phase[old.state] # "sealed"
    BY <1>2, <1>8 DEF Phase, DrawState, SlotEmpties
  <2>2. new = EmptyDraw
    BY <1>8 DEF SlotEmpties
  <2>3. /\ Phase[EmptyDraw.state] = "open" /\ SlotLedgerOf(EmptyDraw) = NoLedger
        /\ EmptyDraw.randomWord = 0 /\ SlotPublished(EmptyDraw) = [i \in {} |-> {}]
    <3>1. NoLists(EmptyDraw)
      BY DEF NoLists, EmptyDraw
    <3>2. EmptyDraw.state = "Draft" /\ EmptyDraw.randomWord = 0
      BY DEF EmptyDraw
    <3> QED
      BY <3>1, <3>2, NothingPublished DEF Phase, SlotLedgerOf
  <2>4. SlotsAsFairDraw!Discard(d)
    BY <1>3, <1>4, <2>1, <2>2, <2>3 DEF SlotsAsFairDraw!Discard, SlotsAsFairDraw!NothingPublished
  <2> QED
    BY <2>4 DEF SlotsAsFairDraw!Next
<1>9. CASE SlotAsks(old, new)
  <2>1. /\ old.state = "LedgerFinalized" /\ new.state = "RandomnessRequested" /\ NoLists(old) /\ NoLists(new)
        /\ \A f \in {"ledgerHash", "totalTickets", "prizeSlotCount", "randomWord"} : new[f] = old[f]
    BY <1>1, <1>9, SlotAsksOK
  <2>2. /\ new.ledgerHash = old.ledgerHash /\ new.totalTickets = old.totalTickets
        /\ new.prizeSlotCount = old.prizeSlotCount /\ new.randomWord = old.randomWord
    BY <2>1
  <2>3. SlotLedgerOf(new) = SlotLedgerOf(old) /\ Phase[old.state] = "ready" /\ Phase[new.state] = "sealed"
    BY <2>1, <2>2 DEF SlotLedgerOf, Phase
  <2>4. SlotPublished(new) = SlotPublished(old)
    BY <2>1, NothingPublished
  <2>5. SlotLedgers' = SlotLedgers /\ SlotWords' = SlotWords /\ SlotResults' = SlotResults
    BY <1>4, <1>5, <2>2, <2>3, <2>4
  <2>6. SlotsAsFairDraw!Seal(d)
    BY <1>3, <1>4, <2>3, <2>5 DEF SlotsAsFairDraw!Seal
  <2> QED
    BY <2>6 DEF SlotsAsFairDraw!Next
<1>10. CASE SlotLearns(old, new)
  <2>1. /\ old.state = "RandomnessRequested" /\ new.state = "RandomnessReady" /\ NoLists(old) /\ NoLists(new)
        /\ new.randomWord \in Words
        /\ \A f \in {"ledgerHash", "totalTickets", "prizeSlotCount"} : new[f] = old[f]
    BY <1>1, <1>10, SlotLearnsOK
  <2>2. /\ new.ledgerHash = old.ledgerHash /\ new.totalTickets = old.totalTickets
        /\ new.prizeSlotCount = old.prizeSlotCount
    BY <2>1
  <2>3. SlotLedgerOf(new) = SlotLedgerOf(old) /\ Phase[old.state] = "sealed" /\ Phase[new.state] = "drawn"
    BY <2>1, <2>2 DEF SlotLedgerOf, Phase
  <2>4. SlotPublished(new) = SlotPublished(old)
    BY <2>1, NothingPublished
  <2>5. SlotLedgers' = SlotLedgers /\ SlotResults' = SlotResults
    BY <1>4, <1>5, <2>3, <2>4
  <2>6. SlotsAsFairDraw!Draw(d, new.randomWord)
    BY <1>3, <1>4, <2>3, <2>5 DEF SlotsAsFairDraw!Draw
  <2> QED
    BY <2>1, <2>6 DEF SlotsAsFairDraw!Next
<1>11. CASE SlotReveals(d, old, new)
  <2> DEFINE l == SlotLedgerOf(old)
  <2>1. /\ SlotLedgerOf(new) = l /\ new.randomWord = old.randomWord /\ Phase[old.state] = "drawn"
        /\ \E batch \in SUBSET SlotItems(l) : PublishesBatch(d, old, new, batch)
    BY <1>1, <1>11, SlotRevealsFairly
  <2> HIDE DEF l
  <2>2. PICK batch \in SUBSET SlotItems(l) : PublishesBatch(d, old, new, batch)
    BY <2>1
  <2>3. SlotLedgers' = SlotLedgers /\ SlotWords' = SlotWords
    BY <1>4, <1>5, <2>1 DEF l
  <2>4. SlotLedgers[d] = l
    BY <1>3 DEF l
  <2>5. SlotsAsFairDraw!Publish(d, batch)
    BY <1>3, <1>4, <2>1, <2>2, <2>3, <2>4 DEF SlotsAsFairDraw!Publish, PublishesBatch, l
  <2> QED
    BY <2>4, <2>5 DEF SlotsAsFairDraw!Next
<1> QED
  BY <1>6, <1>7, <1>8, <1>9, <1>10, <1>11 DEF SlotMove

(* The per-draw path implements FairDraw although its tickets are computed
   lazily and its slots are revealed in any order. *)
THEOREM SlotsImplementFairDraw ==
  ASSUME HashesAreNumbers
  PROVE  Spec => SlotDrawsAreFair
<1>1. Init => SlotsAsFairDraw!Init
  <2> SUFFICES ASSUME Init PROVE SlotsAsFairDraw!Init
    OBVIOUS
  <2>1. \A d \in DrawIds : draws[d] = EmptyDraw
    BY DEF Init, SlotInit
  <2>2. /\ Phase[EmptyDraw.state] = "open" /\ SlotLedgerOf(EmptyDraw) = NoLedger
        /\ EmptyDraw.randomWord = 0 /\ SlotPublished(EmptyDraw) = [i \in {} |-> {}]
    <3>1. NoLists(EmptyDraw)
      BY DEF NoLists, EmptyDraw
    <3>2. EmptyDraw.state = "Draft" /\ EmptyDraw.randomWord = 0
      BY DEF EmptyDraw
    <3> QED
      BY <3>1, <3>2, NothingPublished DEF Phase, SlotLedgerOf
  <2> QED
    BY <2>1, <2>2
    DEF SlotPhases, SlotLedgers, SlotWords, SlotResults, SlotsAsFairDraw!Init,
        SlotsAsFairDraw!NothingPublished
<1>2. SlotInv /\ [Next]_vars => [SlotsAsFairDraw!Next]_(SlotsAsFairDraw!fairVars)
  <2> SUFFICES ASSUME SlotInv, [Next]_vars
               PROVE  SlotsAsFairDraw!Next \/ UNCHANGED SlotsAsFairDraw!fairVars
    OBVIOUS
  <2>1. CASE UNCHANGED draws
    BY <2>1 DEF SlotPhases, SlotLedgers, SlotWords, SlotResults, SlotsAsFairDraw!fairVars
  <2>2. CASE OneDrawMoves
    BY <2>2, DrawStepIsFair DEF OneDrawMoves
  <2>3. CoordinatorTypeOK /\ SlotShape /\ \A d \in DrawIds : IsDraw(draws[d])
    BY DEF SlotInv, RequestInv, RoundInv, SlotOK, DrawnSoFar
  <2> QED
    BY <2>1, <2>2, <2>3, DrawsMove
<1> QED
  BY <1>1, <1>2, SlotInvHolds, PTL DEF Spec, SlotDrawsAreFair, SlotsAsFairDraw!Spec

-----------------------------------------------------------------------------
(* The choices are fair. *)

(* Over two cycles of the hash every free ticket is picked twice. *)
LEMMA TicketPicksEven ==
  ASSUME NEW total \in Nat, NEW computed, Picked(total, Len(computed), computed), Len(computed) =< total
  PROVE  TicketsEquallyLikely(total, computed)
<1> DEFINE free == 1..total \ ToSet(computed)
           n == Cardinality(free)
           picks == [hash \in 0..(2 * n - 1) |-> UniqueTicket(total, computed, hash)]
<1>1. computed \in Seq(1..total) /\ IsInjective(computed)
  BY DEF Picked
<1>2. /\ FreeFrom(total, computed, 1) = free /\ free \in SUBSET Nat /\ IsFiniteSet(free)
      /\ n = total - Len(computed) /\ n \in Nat
  BY <1>1, FreeTickets
<1> HIDE DEF free, n
<1>3. ASSUME NEW hash \in 0..(2 * n - 1)
      PROVE  picks[hash] = Found(free, hash % n, 0)
  <2>1. hash \in Nat /\ n # 0 /\ Len(computed) \in Nat
    BY <1>1, <1>2
  <2>2. Len(computed) < total
    BY <1>2, <2>1
  <2>3. UniqueTicket(total, computed, hash) = Found(free, hash % n, 0)
    BY <1>1, <1>2, <2>1, <2>2, UniqueTicketIsFree
  <2> QED
    BY <2>3
<1> HIDE DEF picks
<1>4. /\ \A t \in free : Cardinality(Hits(free, picks, t)) = 2
      /\ \A t : t \notin free => Cardinality(Hits(free, picks, t)) = 0
  <2>1. PicksByRank(free, 0, picks)
    BY <1>3 DEF PicksByRank, n
  <2> QED
    BY <1>2, <2>1, EachTwice
<1>5. DOMAIN picks = 0..(2 * n - 1)
  BY DEF picks
<1>6. \A ticket \in 1..total :
        Cardinality({hash \in DOMAIN picks : picks[hash] = ticket}) = IF ticket \in free THEN 2 ELSE 0
  BY <1>4, <1>5 DEF Hits, n
<1> QED
  BY <1>6, Zenon DEF TicketsEquallyLikely, picks, n, free

(* drawNext takes the least unrevealed slot. *)
LEMMA NextSlotIsLeast ==
  ASSUME NEW count \in Nat, NEW revealed,
         0..(count - 1) \ ToSet(revealed) # {}
  PROVE  NextUnrevealedSlot(count, revealed)
           = CHOOSE slot \in 0..(count - 1) \ ToSet(revealed) :
               \A other \in 0..(count - 1) \ ToSet(revealed) : slot =< other
<1> DEFINE left == 0..(count - 1) \ ToSet(revealed)
           P(slot) == /\ ~Contains(revealed, slot)
                      /\ \A earlier \in 0..(slot - 1) : Contains(revealed, earlier)
           Q(slot) == \A other \in left : slot =< other
           a == CHOOSE slot \in 0..(count - 1) : P(slot)
           b == CHOOSE slot \in left : Q(slot)
<1>1. \A t : Contains(revealed, t) <=> t \in ToSet(revealed)
  BY DEF Contains, ToSet
<1>2. \E slot \in left : Q(slot)
  <2>1. left \in SUBSET Nat /\ left # {}
    OBVIOUS
  <2> HIDE DEF left
  <2> QED
    BY <2>1, NatLeast
<1>3. b \in left /\ Q(b)
  BY <1>2
<1> HIDE DEF b
<1>4. b \in 0..(count - 1) /\ P(b)
  <2>1. b \in 0..(count - 1) /\ ~Contains(revealed, b)
    BY <1>1, <1>3
  <2>2. ASSUME NEW earlier \in 0..(b - 1), ~ Contains(revealed, earlier) PROVE FALSE
    <3>1. earlier \in left /\ ~ (b =< earlier)
      BY <1>1, <2>1, <2>2
    <3> QED
      BY <1>3, <3>1
  <2> QED
    BY <2>1, <2>2
<1>5. a \in 0..(count - 1) /\ P(a)
  BY <1>4
<1>6. NextUnrevealedSlot(count, revealed) = a
  BY DEF NextUnrevealedSlot
<1> HIDE DEF a
<1>7. a \in left /\ b =< a
  BY <1>1, <1>3, <1>5
<1>8. ~ (b < a)
  <2>1. b < a => b \in 0..(a - 1)
    BY <1>3, <1>5
  <2> QED
    BY <1>4, <1>5, <2>1
<1>9. a = b
  BY <1>4, <1>5, <1>7, <1>8
<1> QED
  BY <1>6, <1>9 DEF b

(* Over two cycles of the hash every slot left is picked twice. *)
LEMMA SlotPicksEven ==
  ASSUME NEW d, NEW draw, DrawnSoFar(d, draw), Len(draw.revealedPrizeSlots) < draw.prizeSlotCount
  PROVE  SlotsEquallyLikely(draw.prizeSlotCount, draw.revealedPrizeSlots)
<1> DEFINE revealed == draw.revealedPrizeSlots
           count == draw.prizeSlotCount
           left == 0..(count - 1) \ ToSet(revealed)
           n == Cardinality(left)
           picks == [hash \in 0..(2 * n - 1) |-> RandomUnrevealedSlot(count, revealed, hash)]
<1>1. count \in Nat /\ revealed \in Seq(Nat) /\ Len(revealed) \in Nat
  BY DrawFigures DEF DrawnSoFar
<1>2. count \in Nat \ {0} /\ Len(revealed) < count
  BY <1>1
<1>3. /\ ToSet(revealed) \subseteq 0..(count - 1) /\ IsFiniteSet(ToSet(revealed))
      /\ Cardinality(ToSet(revealed)) = Len(revealed)
  BY RevealedSlots
<1>4. FreeFrom(count - 1, revealed, 0) = left
  <2>1. \A t : Contains(revealed, t) <=> t \in ToSet(revealed)
    BY DEF Contains, ToSet
  <2> HIDE DEF revealed
  <2> QED
    BY <2>1 DEF FreeFrom
<1>5. IsFiniteSet(left) /\ n = count - Len(revealed) /\ n \in Nat \ {0}
  <2> DEFINE A == 0..(count - 1)
             B == ToSet(revealed)
  <2>1. IsFiniteSet(A) /\ Cardinality(A) = count
    <3>1. 0 \in Int /\ count - 1 \in Int /\ ~ (0 > count - 1) /\ (count - 1) - 0 + 1 = count
      BY <1>2
    <3> HIDE DEF count
    <3>2. IsFiniteSet(A) /\ Cardinality(A) = IF 0 > count - 1 THEN 0 ELSE (count - 1) - 0 + 1
      BY <3>1, FS_Interval, Zenon
    <3> QED
      BY <3>1, <3>2
  <2>2. A \cap B = B
    BY <1>3
  <2> HIDE DEF A, B
  <2>3. IsFiniteSet(A \ B) /\ Cardinality(A \ B) = Cardinality(A) - Cardinality(A \cap B)
    BY <2>1, FS_Difference, Zenon
  <2>4. Cardinality(B) = Len(revealed)
    BY <1>3 DEF B
  <2>5. IsFiniteSet(A \ B) /\ Cardinality(A \ B) = count - Len(revealed)
    BY <2>1, <2>2, <2>3, <2>4
  <2>6. left = A \ B
    BY DEF A, B
  <2>7. count - Len(revealed) \in Nat \ {0}
    BY <1>1, <1>2
  <2> QED
    BY <2>5, <2>6, <2>7
<1>6. left \in SUBSET Nat
  BY <1>1
<1> HIDE DEF left, n, count, revealed
<1>7. ASSUME NEW hash \in 0..(2 * n - 1)
      PROVE  picks[hash] = Found(left, hash % n, count)
  <2>1. hash \in Nat /\ hash % n \in Nat
    <3>1. hash \in Nat
      BY <1>5
    <3>2. hash % n \in 0..(n - 1)
      BY <1>5, <3>1, ModRange
    <3> QED
      BY <1>5, <3>1, <3>2
  <2>2. hash % (count - Len(revealed)) \in Nat
    BY <1>5, <2>1
  <2>3. RandomUnrevealedSlot(count, revealed, hash)
          = Found(FreeFrom(count - 1, revealed, 0), hash % (count - Len(revealed)), count)
    BY <1>2, <2>2, ScanFindsSlot
  <2>4. RandomUnrevealedSlot(count, revealed, hash) = Found(left, hash % n, count)
    BY <1>4, <1>5, <2>3
  <2> QED
    BY <2>4
<1> HIDE DEF picks
<1>8. \A t \in left : Cardinality(Hits(left, picks, t)) = 2
  <2>1. PicksByRank(left, count, picks)
    BY <1>7 DEF PicksByRank, n
  <2> QED
    BY <1>5, <1>6, <2>1, EachTwice
<1>9. DOMAIN picks = 0..(2 * n - 1)
  BY DEF picks
<1>10. \A slot \in left : Cardinality({hash \in DOMAIN picks : picks[hash] = slot}) = 2
  BY <1>8, <1>9 DEF Hits, n
<1>11. left # {}
  BY <1>5, FS_EmptySet DEF n
<1>12. NextUnrevealedSlot(count, revealed) = CHOOSE slot \in left : \A other \in left : slot =< other
  BY <1>1, <1>11, NextSlotIsLeast DEF left
<1>13. SlotsEquallyLikely(count, revealed)
  BY <1>10, <1>12, Zenon DEF SlotsEquallyLikely, picks, n, left
<1> QED
  BY <1>13 DEF count, revealed

(* No choice of a ticket or of a slot favours one of those that are left. *)
THEOREM PicksFair ==
  ASSUME HashesAreNumbers
  PROVE  Spec => []PicksAreFair
<1>1. SlotInv => PicksAreFair
  <2> SUFFICES ASSUME SlotInv, NEW d \in DrawIds
               PROVE  /\ TicketsEquallyLikely(draws[d].totalTickets, draws[d].allComputedTickets)
                      /\ draws[d].state = "RandomnessReady" =>
                           SlotsEquallyLikely(draws[d].prizeSlotCount, draws[d].revealedPrizeSlots)
    BY DEF PicksAreFair
  <2> DEFINE draw == draws[d]
  <2>1. DrawnSoFar(d, draw) /\ SlotPicked(d, draw) /\ IsDraw(draw) /\ SlotLife(draw)
    BY DEF SlotInv, SlotOK, DrawnSoFar
  <2> HIDE DEF draw
  <2>2. TicketsEquallyLikely(draw.totalTickets, draw.allComputedTickets)
    <3>1. Picked(draw.totalTickets, Len(draw.allComputedTickets), draw.allComputedTickets)
      BY <2>1, TicketsPicked
    <3>2. draw.totalTickets \in Nat /\ Len(draw.allComputedTickets) =< draw.totalTickets
      BY <2>1, DrawFigures DEF SlotPicked
    <3> QED
      BY <3>1, <3>2, TicketPicksEven
  <2>3. draw.state = "RandomnessReady" => SlotsEquallyLikely(draw.prizeSlotCount, draw.revealedPrizeSlots)
    BY <2>1, SlotPicksEven DEF SlotLife
  <2> QED
    BY <2>2, <2>3 DEF draw
<1> QED
  BY <1>1, SlotInvHolds, PTL

-----------------------------------------------------------------------------
(* The script of the per-draw path: what its winners file says.

   A run past its consistency checks has seen the draw fulfilled, and by the
   contract's own invariant what it lists are then the picks of the draw's
   word, whichever ledger was drawn from.  The ledger is another matter: while
   no build has come between a run or a call and its end (quiet), every run and
   every waiting call, those of killed runs included, carry the row on file, so
   the contract is a draft or holds that row from the first finalize call on. *)

(* The contract's storage, as the script meets it. *)
ChainInv == CoordinatorTypeOK /\ SlotShape /\ \A d \in DrawIds : SlotOK(d, draws[d])

(* What a step of the script's world does to the contract. *)
ChainStep ==
  \/ UNCHANGED <<draws, drawIdByRequestId, coordinatorVars>>
  \/ \E hash, tickets, slots \in Nat : FinalizeLedger(Deployer, TheDraw, hash, tickets, slots)
  \/ RequestDraw(Deployer, TheDraw)
  \/ \E a, slots : RevealSlots(a, TheDraw, slots)
  \/ \E id \in RequestIds, word \in Words : FulfillDraw(id, word)

(* The script has a draw to work on. *)
LEMMA TheDrawIsOne == TheDraw \in DrawIds
BY MatchRunnerAssumption DEF TheDraw

(* A typed draw is a record of its fields. *)
LEMMA DrawIsRecord == ASSUME NEW draw, IsDraw(draw) PROVE draw = [f \in DrawFields |-> draw[f]]
BY DEF IsDraw, DrawFields

(* Draw d is replaced. *)
Becomes(d, new) == draws' = [draws EXCEPT ![d] = new]

(* A finalize call replaces the figures of a draft or of a ledger nobody has
   asked a word for. *)
Finalizes(hash, tickets, slots) ==
  \E new :
    /\ Chain.state \in {"Draft", "LedgerFinalized"}
    /\ Becomes(TheDraw, new)
    /\ SlotMove(TheDraw, Chain, new)
    /\ new.state = "LedgerFinalized" /\ new.ledgerHash = hash
    /\ new.totalTickets = tickets /\ new.prizeSlotCount = slots

(* Every other accepted call carries the draw on and leaves its figures alone. *)
Carries(old, new) ==
  /\ old.state \notin {"Draft", "Fulfilled"} /\ new.state # "Draft"
  /\ \A f \in {"ledgerHash", "totalTickets", "prizeSlotCount"} : new[f] = old[f]

(* Some draw is carried on. *)
CarriesOn == \E d \in DrawIds : \E new :
  Becomes(d, new) /\ SlotMove(d, draws[d], new) /\ Carries(draws[d], new)

(* A finalize call of any figures. *)
LEMMA FinalizeLedgerMoves ==
  ASSUME NEW a, NEW hash \in Nat, NEW tickets \in Nat, NEW slots \in Nat, IsDraw(Chain),
         FinalizeLedger(a, TheDraw, hash, tickets, slots)
  PROVE  Finalizes(hash, tickets, slots)
<1> DEFINE reset == ResetWinners(Chain)
           new == [reset EXCEPT !.ledgerHash = hash, !.totalTickets = tickets, !.prizeSlotCount = slots,
                                !.randomWord = 0, !.requestId = 0, !.state = "LedgerFinalized"]
<1>1. draws' = [draws EXCEPT ![TheDraw] = new]
  BY Zenon DEF FinalizeLedger, Chain
<1>2. /\ Chain.state \in {"Draft", "LedgerFinalized"}
      /\ hash # 0 /\ tickets # 0 /\ ValidPrizeSlotCount(slots) /\ tickets >= slots
  BY Zenon DEF FinalizeLedger, Chain
<1>3. SlotRegisters(Chain, new)
  BY <1>2, Zenon DEF SlotRegisters
<1>4. IsDraw(reset)
  BY ResetDrawn
<1> HIDE DEF reset
<1>5. /\ new.state = "LedgerFinalized" /\ new.ledgerHash = hash
      /\ new.totalTickets = tickets /\ new.prizeSlotCount = slots
  BY <1>4 DEF IsDraw
<1>6. SlotMove(TheDraw, Chain, new)
  BY <1>3, Zenon DEF SlotMove
<1>7. Becomes(TheDraw, new)
  BY <1>1, Zenon DEF Becomes
<1>8. Chain.state \in {"Draft", "LedgerFinalized"}
  BY <1>2
<1> HIDE DEF new
<1> QED
  BY <1>5, <1>6, <1>7, <1>8 DEF Finalizes

(* A request carries a draw on ... *)
LEMMA RequestCarriesOn ==
  ASSUME HashesAreNumbers, ChainInv, NEW a, RequestDraw(a, TheDraw)
  PROVE  CarriesOn
<1> DEFINE new == [Chain EXCEPT !.requestId = nextRequestId, !.state = "RandomnessRequested"]
<1>1. /\ draws' = [draws EXCEPT ![TheDraw] = new] /\ Chain.state = "LedgerFinalized"
      /\ RequestRandomWords
  BY DEF RequestDraw, Chain
<1>2. nextRequestId \in 0..MaxRequests
  BY <1>1, CoordinatorAssumption DEF ChainInv, RequestRandomWords, CoordinatorTypeOK
<1>3. SlotAsks(Chain, new)
  BY <1>1, <1>2 DEF SlotAsks
<1>4. SlotOK(TheDraw, Chain)
  BY TheDrawIsOne DEF ChainInv, Chain
<1> HIDE DEF new
<1>5. Carries(Chain, new)
  BY <1>3, <1>4, SlotAsksOK DEF Carries
<1> QED
  BY <1>1, <1>3, <1>5, TheDrawIsOne DEF CarriesOn, SlotMove, Chain, Becomes

(* ... and so do a reveal ... *)
LEMMA RevealCarriesOn ==
  ASSUME HashesAreNumbers, ChainInv, NEW a, NEW slots, RevealSlots(a, TheDraw, slots)
  PROVE  CarriesOn
<1> DEFINE new == RevealedDraw(TheDraw, Chain, DrawSlots(TheDraw, Chain, slots))
<1>1. /\ Chain.state = "RandomnessReady" /\ Len(slots) \in 1..Remaining(Chain)
      /\ \A i \in 1..Len(slots) : Drawable(Chain, slots[i]) /\ \A j \in 1..(i - 1) : slots[j] # slots[i]
      /\ draws' = [draws EXCEPT ![TheDraw] = new]
  BY DEF RevealSlots, RevealedDraw, Chain
<1>2. SlotOK(TheDraw, Chain) /\ IsDraw(Chain)
  BY TheDrawIsOne DEF ChainInv, Chain, SlotOK, DrawnSoFar
<1>3. MayDraw(Chain, slots)
  <2>1. Remaining(Chain) \in Int
    BY <1>2, DrawFigures DEF Remaining
  <2>2. Len(slots) \in Nat
    BY <1>1, <2>1
  <2> QED
    BY <1>1, <2>2 DEF MayDraw
<1>4. SlotReveals(TheDraw, Chain, new)
  BY <1>1, <1>3 DEF SlotReveals
<1> HIDE DEF new
<1>5. RevealsBatch(Chain, new)
  BY <1>2, <1>4, SlotRevealsOK
<1>6. Carries(Chain, new)
  <2>1. \A f \in {"ledgerHash", "totalTickets", "prizeSlotCount"} : new[f] = Chain[f]
    BY <1>5 DEF RevealsBatch, DrawFields, ListFields
  <2>2. Chain.state = "RandomnessReady" /\ new.state \in {"Fulfilled", "RandomnessReady"}
    BY <1>5 DEF RevealsBatch
  <2> QED
    BY <2>1, <2>2 DEF Carries
<1> QED
  BY <1>1, <1>4, <1>6, TheDrawIsOne DEF CarriesOn, SlotMove, Chain, Becomes

(* ... and an answer. *)
LEMMA AnswerCarriesOn ==
  ASSUME HashesAreNumbers, ChainInv, NEW id \in RequestIds, NEW word \in Words, FulfillDraw(id, word)
  PROVE  CarriesOn
<1> DEFINE d == drawIdByRequestId[id]
           new == [ResetWinners(draws[d]) EXCEPT !.randomWord = word, !.state = "RandomnessReady"]
<1>1. d \in DrawIds
  BY DEF FulfillDraw, ChainInv, SlotShape
<1>2. draws' = [draws EXCEPT ![d] = new] /\ SlotLearns(draws[d], new)
  BY DEF FulfillDraw, SlotLearns
<1>3. SlotOK(d, draws[d])
  BY <1>1 DEF ChainInv
<1> HIDE DEF d, new
<1>4. Carries(draws[d], new)
  BY <1>2, <1>3, SlotLearnsOK DEF Carries
<1> QED
  BY <1>1, <1>2, <1>4 DEF CarriesOn, SlotMove, Becomes

(* What a step of the script's world does to the contract's draws. *)
LEMMA ChainStepEffect ==
  ASSUME HashesAreNumbers, ChainInv, ChainStep
  PROVE  \/ UNCHANGED draws
         \/ \E hash, tickets, slots \in Nat : Finalizes(hash, tickets, slots)
         \/ CarriesOn
<1>1. IsDraw(Chain)
  BY TheDrawIsOne DEF ChainInv, Chain, SlotOK, DrawnSoFar
<1> QED
  BY <1>1, FinalizeLedgerMoves, RequestCarriesOn, RevealCarriesOn, AnswerCarriesOn DEF ChainStep

(* The contract's storage stays in order. *)
LEMMA ChainInvKept ==
  ASSUME HashesAreNumbers, ChainInv, ChainStep
  PROVE  ChainInv'
<1>1. UNCHANGED draws \/ OneDrawMoves
  BY ChainStepEffect, TheDrawIsOne DEF Finalizes, CarriesOn, OneDrawMoves, Chain, Becomes
<1>2. /\ drawIdByRequestId' \in [RequestIds -> DrawIds \cup {0}]
      /\ UNCHANGED coordinatorVars \/ RequestRandomWords \/ \E id \in RequestIds : Callback(id)
  <2>1. drawIdByRequestId \in [RequestIds -> DrawIds \cup {0}]
    BY DEF ChainInv, SlotShape
  <2> QED
    BY <2>1, TheDrawIsOne DEF ChainStep, FinalizeLedger, RequestDraw, RevealSlots, FulfillDraw
<1>3. CoordinatorTypeOK'
  BY <1>2, CoordinatorStep DEF ChainInv
<1>4. CASE UNCHANGED draws
  BY <1>2, <1>3, <1>4 DEF ChainInv, SlotShape
<1>5. CASE OneDrawMoves
  <2>1. PICK d \in DrawIds : \E new : draws' = [draws EXCEPT ![d] = new] /\ SlotMove(d, draws[d], new)
    BY <1>5 DEF OneDrawMoves
  <2>2. PICK new : draws' = [draws EXCEPT ![d] = new] /\ SlotMove(d, draws[d], new)
    BY <2>1
  <2>3. SlotOK(d, new)
    BY <2>2, SlotMoveOK DEF ChainInv
  <2>4. new = [f \in DrawFields |-> new[f]]
    BY <2>3, DrawIsRecord DEF SlotOK, DrawnSoFar
  <2>5. SlotShape
    BY DEF ChainInv
  <2>6. SlotShape' /\ draws'[d] = new /\ \A e \in DrawIds \ {d} : draws'[e] = draws[e]
    BY <1>2, <2>2, <2>4, <2>5, ReplaceDraw
  <2> QED
    BY <1>3, <2>3, <2>6 DEF ChainInv
<1> QED
  BY <1>1, <1>4, <1>5

(* The contract's draw, after a finalize call ... *)
LEMMA FinalizedChain ==
  ASSUME ChainInv, NEW hash, NEW tickets, NEW slots, Finalizes(hash, tickets, slots)
  PROVE  /\ Chain.state \in {"Draft", "LedgerFinalized"} /\ Chain'.state = "LedgerFinalized"
         /\ ChainRow' = [hash |-> hash, tickets |-> tickets, slots |-> slots]
<1>1. \A new : Becomes(TheDraw, new) => Chain' = new
  BY TheDrawIsOne DEF Becomes, ChainInv, SlotShape, Chain, TheDraw
<1> QED
  BY <1>1 DEF Finalizes, ChainRow

(* ... and after another. *)
LEMMA CarriedChain ==
  ASSUME ChainInv, UNCHANGED draws \/ CarriesOn
  PROVE  \/ Chain' = Chain
         \/ /\ Chain.state \notin {"Draft", "Fulfilled"} /\ Chain'.state # "Draft"
            /\ ChainRow' = ChainRow
<1>1. CASE UNCHANGED draws
  BY <1>1 DEF Chain, TheDraw
<1>2. CASE CarriesOn
  <2>1. PICK d \in DrawIds : \E new : Becomes(d, new) /\ Carries(draws[d], new)
    BY <1>2 DEF CarriesOn
  <2>2. PICK new : Becomes(d, new) /\ Carries(draws[d], new)
    BY <2>1
  <2>3. \A e \in DrawIds : draws'[e] = IF e = d THEN new ELSE draws[e]
    BY <2>2 DEF ChainInv, SlotShape, Becomes
  <2>4. Chain' = draws'[TheDraw] /\ Chain = draws[TheDraw]
    BY DEF Chain, TheDraw
  <2>5. CASE d = TheDraw
    <3>1. Chain' = new /\ Carries(Chain, new)
      BY <2>2, <2>3, <2>4, <2>5
    <3> QED
      BY <3>1 DEF Carries, ChainRow
  <2>6. CASE d # TheDraw
    BY <2>3, <2>4, <2>6, TheDrawIsOne
  <2> QED
    BY <2>5, <2>6
<1> QED
  BY <1>1, <1>2

(* The ledger row a draw holds. *)
RowOf(draw) == [hash |-> draw.ledgerHash, tickets |-> draw.totalTickets, slots |-> draw.prizeSlotCount]
(* The draw has left Draft, with row r. *)
OnRow(draw, r) == draw.state # "Draft" /\ RowOf(draw) = r
(* The draw may still take row r, or has it. *)
FreshOr(draw, r) == draw.state = "Draft" \/ RowOf(draw) = r

(* Where a run can be, and what it remembers. *)
RunPcs ==
  {"idle", "status", "finalize", "request", "await", "count", "slots", "reveal", "mining", "winners"}
(* A run's record. *)
RunRecord ==
  [pc : RunPcs, broadcast : BOOLEAN, row : MatchLedgers \cup {NoRow}, count : Nat, seen : Seq(Nat)]

(* Where a run relies on the row it saw the contract hold. *)
Committed == {"request", "await", "count", "slots", "reveal", "winners"}

(* A run of the script, the draw, the ledger file's row, and whether no build
   has come in between. *)
RunOK(run, draw, r, q) ==
  /\ run.pc # "idle" => run.row \in MatchLedgers
  /\ run.pc = "winners" => draw.state = "Fulfilled"
  /\ q => /\ run.pc # "idle" => run.row = r
          /\ run.pc \in Committed => OnRow(draw, r)
          /\ run.pc = "finalize" => FreshOr(draw, r)

(* A call that is sent and not mined. *)
CallOK(tx, runs, draw, r, q) ==
  /\ tx = [call |-> tx.call, by |-> tx.by, row |-> tx.row, slots |-> tx.slots]
  /\ tx.call \in {"finalize", "request", "reveal"} /\ tx.row \in MatchLedgers
  /\ tx.by \in MatchRuns => runs[tx.by].pc = "mining"
  /\ q => /\ tx.row = r /\ FreshOr(draw, r)
          /\ tx.call # "finalize" => OnRow(draw, r)

(* The calls that are sent and not mined: one of each run at most. *)
QueueOK(queue, runs, draw, r, q) ==
  /\ \E S : queue \in Seq(S)
  /\ \A i \in 1..Len(queue) : CallOK(queue[i], runs, draw, r, q)
  /\ \A i, j \in 1..Len(queue) : queue[i].by \in MatchRuns /\ queue[j].by = queue[i].by => i = j

(* The winners file. *)
FileOK(file, draw, q) ==
  file # NotAnnounced =>
    /\ draw.state = "Fulfilled" /\ file.winners = draw.allComputedTickets
    /\ q => file.row.hash = draw.ledgerHash

(* A step leaves the draw, or carries it on. *)
Kept(old, new) ==
  \/ new = old
  \/ old.state \notin {"Draft", "Fulfilled"} /\ new.state # "Draft" /\ RowOf(new) = RowOf(old)

(* A finalize call gives the draw row l. *)
Given(old, new, l) ==
  old.state \in {"Draft", "LedgerFinalized"} /\ new.state = "LedgerFinalized" /\ RowOf(new) = l

(* A draw that is carried on stays on its row, and a fulfilled one as it is. *)
LEMMA KeptFacts ==
  ASSUME NEW old, NEW new, Kept(old, new)
  PROVE  /\ \A r : OnRow(old, r) => OnRow(new, r)
         /\ \A r : FreshOr(old, r) => FreshOr(new, r)
         /\ old.state = "Fulfilled" => new = old
BY DEF Kept, OnRow, FreshOr

(* So runs, calls and the winners file stay in order ... *)
LEMMA KeptInOrder ==
  ASSUME NEW old, NEW new, Kept(old, new), NEW r, NEW q
  PROVE  /\ \A run : RunOK(run, old, r, q) => RunOK(run, new, r, q)
         /\ \A tx, runs : CallOK(tx, runs, old, r, q) => CallOK(tx, runs, new, r, q)
         /\ \A file : FileOK(file, old, q) => FileOK(file, new, q)
<1>1. /\ OnRow(old, r) => OnRow(new, r)
      /\ \A l : FreshOr(old, l) => FreshOr(new, l)
      /\ old.state = "Fulfilled" => new = old
  BY KeptFacts
<1> QED
  BY <1>1 DEF RunOK, CallOK, FileOK

(* ... as they do when a call of the current row is mined, or, after a build
   came in between, one of any row. *)
LEMMA GivenInOrder ==
  ASSUME NEW old, NEW new, NEW tx, NEW runs, NEW r, NEW q, CallOK(tx, runs, old, r, q),
         Given(old, new, tx.row)
  PROVE  /\ \A run : RunOK(run, old, r, q) => RunOK(run, new, r, q)
         /\ \A other, m : CallOK(other, m, old, r, q) => CallOK(other, m, new, r, q)
         /\ \A file : FileOK(file, old, q) => FileOK(file, new, q)
<1>1. old.state \in {"Draft", "LedgerFinalized"} /\ new.state = "LedgerFinalized" /\ RowOf(new) = tx.row
  BY DEF Given
<1>2. q => OnRow(new, r) /\ FreshOr(new, r)
  BY <1>1 DEF CallOK, OnRow, FreshOr
<1>3. old.state # "Fulfilled"
  BY <1>1
<1> QED
  BY <1>2, <1>3 DEF RunOK, CallOK, FileOK

(* The queue, when runs go on and the draw is carried on ... *)
LEMMA QueueKept ==
  ASSUME NEW queue, NEW old, NEW new, NEW runs, NEW next, NEW r, NEW q, QueueOK(queue, runs, old, r, q),
         Kept(old, new), \A p \in MatchRuns : runs[p].pc = "mining" => next[p].pc = "mining"
  PROVE  QueueOK(queue, next, new, r, q)
<1>1. \A tx : CallOK(tx, runs, old, r, q) => CallOK(tx, runs, new, r, q)
  BY KeptInOrder
<1>2. \A tx : CallOK(tx, runs, new, r, q) => CallOK(tx, next, new, r, q)
  BY DEF CallOK
<1> QED
  BY <1>1, <1>2 DEF QueueOK

(* ... when a run sends a call ... *)
LEMMA QueueSent ==
  ASSUME NEW queue, NEW draw, NEW runs, NEW next, NEW r, NEW q, QueueOK(queue, runs, draw, r, q),
         NEW tx, tx.by \in MatchRuns, runs[tx.by].pc # "mining", CallOK(tx, next, draw, r, q),
         \A p \in MatchRuns \ {tx.by} : next[p] = runs[p]
  PROVE  QueueOK(Append(queue, tx), next, draw, r, q)
<1> DEFINE sent == Append(queue, tx)
           len == Len(queue)
<1>1. PICK S : queue \in Seq(S)
  BY DEF QueueOK
<1>2. queue \in Seq(S \cup {tx}) /\ tx \in S \cup {tx}
  <2>1. S \subseteq S \cup {tx}
    OBVIOUS
  <2> QED
    BY <1>1, <2>1, SeqMonotonic
<1>3. /\ sent \in Seq(S \cup {tx}) /\ Len(sent) = len + 1 /\ len \in Nat /\ sent[len + 1] = tx
      /\ \A i \in 1..len : sent[i] = queue[i]
  BY <1>2, AppendProperties
<1> HIDE DEF sent, len
<1>4. ASSUME NEW i \in 1..len PROVE CallOK(queue[i], runs, draw, r, q) /\ queue[i].by # tx.by
  BY DEF QueueOK, CallOK, len
<1>5. ASSUME NEW i \in 1..len PROVE CallOK(queue[i], next, draw, r, q)
  BY <1>4 DEF CallOK
<1>6. \A i \in 1..(len + 1) : i \in 1..len \/ i = len + 1
  BY <1>3
<1>7. \A i \in 1..Len(sent) : CallOK(sent[i], next, draw, r, q)
  BY <1>3, <1>5, <1>6
<1>8. ASSUME NEW i \in 1..Len(sent), NEW j \in 1..Len(sent), sent[i].by \in MatchRuns, sent[j].by = sent[i].by
      PROVE  i = j
  <2>1. CASE i \in 1..len /\ j \in 1..len
    BY <1>3, <1>8, <2>1 DEF QueueOK, len
  <2>2. CASE ~ (i \in 1..len /\ j \in 1..len)
    BY <1>3, <1>4, <1>6, <1>8, <2>2
  <2> QED
    BY <2>1, <2>2
<1> QED
  BY <1>3, <1>7, <1>8 DEF QueueOK, sent

(* ... when the oldest call is mined ... *)
LEMMA QueueMined ==
  ASSUME NEW queue, NEW old, NEW new, NEW runs, NEW next, NEW r, NEW q, QueueOK(queue, runs, old, r, q),
         queue # <<>>,
         Kept(old, new) \/ (queue[1].call = "finalize" /\ Given(old, new, queue[1].row)),
         \A p \in MatchRuns : p # queue[1].by => next[p] = runs[p]
  PROVE  QueueOK(Tail(queue), next, new, r, q)
<1> DEFINE rest == Tail(queue)
           len == Len(queue)
           tx == queue[1]
<1>1. PICK S : queue \in Seq(S)
  BY DEF QueueOK
<1>2. /\ rest \in Seq(S) /\ Len(rest) = len - 1 /\ len \in Nat /\ len # 0
      /\ \A i \in 1..(len - 1) : rest[i] = queue[i + 1]
  BY <1>1, HeadTailProperties, EmptySeq
<1> HIDE DEF rest, len, tx
<1>3. 1 \in 1..len /\ \A i \in 1..(len - 1) : i + 1 \in 1..len /\ i + 1 # 1
  BY <1>2
<1>4. CallOK(tx, runs, old, r, q)
  BY <1>3 DEF QueueOK, len, tx
<1>5. ASSUME NEW i \in 1..(len - 1) PROVE CallOK(rest[i], next, new, r, q)
  <2>1. /\ CallOK(rest[i], runs, old, r, q)
        /\ rest[i].by \in MatchRuns => tx.by # rest[i].by
    <3> DEFINE k == i + 1
    <3>1. k \in 1..len /\ k # 1 /\ 1 \in 1..len /\ 1 \in 1..(k - 1) /\ rest[i] = queue[k]
      BY <1>2, <1>3
    <3> HIDE DEF k
    <3> QED
      BY <3>1 DEF QueueOK, len, tx
  <2>2. CallOK(rest[i], runs, new, r, q)
    <3>1. CASE Kept(old, new)
      BY <2>1, <3>1, KeptInOrder
    <3>2. CASE tx.call = "finalize" /\ Given(old, new, tx.row)
      BY <1>4, <2>1, <3>2, GivenInOrder
    <3> QED
      BY <3>1, <3>2 DEF tx
  <2> QED
    BY <2>1, <2>2 DEF CallOK, tx
<1>6. ASSUME NEW i \in 1..(len - 1), NEW j \in 1..(len - 1), rest[i].by \in MatchRuns, rest[j].by = rest[i].by
      PROVE  i = j
  <2>1. i + 1 \in 1..len /\ j + 1 \in 1..len /\ rest[i] = queue[i + 1] /\ rest[j] = queue[j + 1]
    BY <1>2, <1>3
  <2>2. i + 1 = j + 1
    BY <1>6, <2>1 DEF QueueOK, len
  <2> QED
    BY <2>2
<1> QED
  BY <1>2, <1>5, <1>6 DEF QueueOK, rest

(* ... when a run is killed ... *)
LEMMA QueueOrphaned ==
  ASSUME NEW queue, NEW draw, NEW runs, NEW next, NEW r, NEW q, QueueOK(queue, runs, draw, r, q),
         NEW p \in MatchRuns, \A o \in MatchRuns \ {p} : next[o] = runs[o]
  PROVE  QueueOK([i \in DOMAIN queue |->
                    IF queue[i].by = p THEN [queue[i] EXCEPT !.by = "nobody"] ELSE queue[i]],
                 next, draw, r, q)
<1> DEFINE orphan(tx) == IF tx.by = p THEN [tx EXCEPT !.by = "nobody"] ELSE tx
           left == [i \in DOMAIN queue |-> orphan(queue[i])]
           len == Len(queue)
<1>1. PICK S : queue \in Seq(S)
  BY DEF QueueOK
<1>2. len \in Nat /\ DOMAIN queue = 1..len
  BY <1>1
<1>3. left \in Seq({orphan(queue[i]) : i \in DOMAIN queue}) /\ Len(left) = len
      /\ \A i \in 1..len : left[i] = orphan(queue[i])
  <2> HIDE DEF orphan
  <2> QED
    BY <1>2
<1>4. ASSUME NEW tx, CallOK(tx, runs, draw, r, q)
      PROVE  CallOK(orphan(tx), next, draw, r, q)
  BY <1>4, MatchRunnerAssumption DEF CallOK
<1>5. \A i \in 1..len : CallOK(queue[i], runs, draw, r, q)
  BY DEF QueueOK
<1>6. ASSUME NEW i \in 1..len
      PROVE  orphan(queue[i]).by \in MatchRuns => queue[i].by = orphan(queue[i]).by
  <2> DEFINE tx == queue[i]
  <2>1. CallOK(tx, runs, draw, r, q)
    BY <1>5
  <2> HIDE DEF tx
  <2>2. tx = [call |-> tx.call, by |-> tx.by, row |-> tx.row, slots |-> tx.slots]
    BY <2>1 DEF CallOK
  <2>3. orphan(tx).by \in MatchRuns => tx.by = orphan(tx).by
    BY <2>2, MatchRunnerAssumption
  <2> QED
    BY <2>3 DEF tx
<1> HIDE DEF orphan, left, len
<1>7. \A i \in 1..Len(left) : CallOK(left[i], next, draw, r, q)
  BY <1>3, <1>4, <1>5
<1>8. ASSUME NEW i \in 1..Len(left), NEW j \in 1..Len(left), left[i].by \in MatchRuns, left[j].by = left[i].by
      PROVE  i = j
  <2>1. queue[i].by \in MatchRuns /\ queue[j].by = queue[i].by
    BY <1>3, <1>6, <1>8
  <2> QED
    BY <1>3, <2>1 DEF QueueOK, len
<1>9. QueueOK(left, next, draw, r, q)
  BY <1>3, <1>7, <1>8 DEF QueueOK
<1> QED
  BY <1>9, Zenon DEF left, orphan

(* ... and when a build comes in between. *)
LEMMA QueueRebuilt ==
  ASSUME NEW queue, NEW draw, NEW runs, NEW r, NEW next, NEW q, QueueOK(queue, runs, draw, r, q)
  PROVE  QueueOK(queue, runs, draw, next, FALSE)
<1>1. \A tx : CallOK(tx, runs, draw, r, q) => CallOK(tx, runs, draw, next, FALSE)
  BY DEF CallOK
<1> QED
  BY <1>1 DEF QueueOK

(* All of the script's invariant but the winners file. *)
RunsInv ==
  /\ row \in MatchLedgers /\ match \in [MatchRuns -> RunRecord] /\ quiet \in BOOLEAN
  /\ \A p \in MatchRuns : RunOK(match[p], Chain, row, quiet)
  /\ QueueOK(pending, match, Chain, row, quiet)

(* Run p becomes new. *)
RunBecomes(p, new) == match' = [match EXCEPT ![p] = new]

(* The other runs stay. *)
LEMMA RunReplaced ==
  ASSUME match \in [MatchRuns -> RunRecord], NEW p \in MatchRuns, NEW new \in RunRecord, RunBecomes(p, new)
  PROVE  match' \in [MatchRuns -> RunRecord] /\ \A o \in MatchRuns : match'[o] = IF o = p THEN new ELSE match[o]
<1> DEFINE R == RunRecord
<1>1. match \in [MatchRuns -> R] /\ new \in R
  OBVIOUS
<1> HIDE DEF R
<1>2. match' \in [MatchRuns -> R] /\ \A o \in MatchRuns : match'[o] = IF o = p THEN new ELSE match[o]
  BY <1>1 DEF RunBecomes
<1> QED
  BY <1>2 DEF R

(* A run that goes on keeps its row ... *)
LEMMA RunMovedTo ==
  ASSUME match \in [MatchRuns -> RunRecord], NEW p \in MatchRuns, NEW pc \in RunPcs, MoveTo(p, pc)
  PROVE  \E new \in RunRecord : RunBecomes(p, new) /\ new.pc = pc /\ new.row = match[p].row
<1> DEFINE old == match[p]
           new == [old EXCEPT !.pc = pc]
<1>1. RunBecomes(p, new)
  BY DEF MoveTo, RunBecomes
<1>2. old \in RunRecord
  OBVIOUS
<1> HIDE DEF old
<1>3. new \in RunRecord /\ new.pc = pc /\ new.row = old.row
  BY <1>2 DEF RunRecord
<1> HIDE DEF new
<1> QED
  BY <1>1, <1>3 DEF old

(* ... and one that ends is as before it started. *)
LEMMA RunEnded ==
  ASSUME match \in [MatchRuns -> RunRecord], NEW p \in MatchRuns, Ends(p)
  PROVE  \E new \in RunRecord : RunBecomes(p, new) /\ new.pc = "idle"
<1>1. Resting \in RunRecord /\ Resting.pc = "idle"
  BY DEF Resting, RunRecord, RunPcs
<1>2. RunBecomes(p, Resting)
  BY DEF Ends, RunBecomes
<1> QED
  BY <1>1, <1>2

(* One run goes on or ends, and nothing else changes. *)
LEMMA OneRunMoves ==
  ASSUME RunsInv, NEW p \in MatchRuns, NEW new \in RunRecord, RunBecomes(p, new),
         match[p].pc # "mining", RunOK(new, Chain, row, quiet), UNCHANGED <<draws, row, pending, quiet>>
  PROVE  RunsInv'
<1>1. Chain' = Chain
  BY DEF Chain, TheDraw
<1>2. match' \in [MatchRuns -> RunRecord] /\ \A o \in MatchRuns : match'[o] = IF o = p THEN new ELSE match[o]
  BY RunReplaced DEF RunsInv
<1>3. \A o \in MatchRuns : RunOK(match'[o], Chain, row, quiet)
  BY <1>2 DEF RunsInv
<1>4. QueueOK(pending, match', Chain, row, quiet)
  <2>1. QueueOK(pending, match, Chain, row, quiet) /\ Kept(Chain, Chain)
    BY DEF RunsInv, Kept
  <2>2. \A o \in MatchRuns : match[o].pc = "mining" => match'[o].pc = "mining"
    BY <1>2
  <2> QED
    BY <2>1, <2>2, QueueKept
<1> QED
  BY <1>1, <1>2, <1>3, <1>4 DEF RunsInv

(* An idle run is in order. *)
LEMMA IdleOK == \A run, draw, r, n : run.pc = "idle" => RunOK(run, draw, r, n)
BY DEF RunOK, Committed

(* A run that ends. *)
LEMMA OneRunEnds ==
  ASSUME RunsInv, NEW p \in MatchRuns, Ends(p), match[p].pc # "mining",
         UNCHANGED <<draws, row, pending, quiet>>
  PROVE  RunsInv'
BY RunEnded, OneRunMoves, IdleOK DEF RunsInv

(* A run that goes on. *)
LEMMA OneRunGoesOn ==
  ASSUME RunsInv, NEW p \in MatchRuns, NEW pc \in RunPcs, MoveTo(p, pc),
         match[p].pc \notin {"idle", "mining"},
         quiet /\ pc \in Committed => OnRow(Chain, row),
         quiet /\ pc = "finalize" => FreshOr(Chain, row),
         pc = "winners" => Chain.state = "Fulfilled",
         UNCHANGED <<draws, row, pending, quiet>>
  PROVE  RunsInv'
<1>1. PICK new \in RunRecord : RunBecomes(p, new) /\ new.pc = pc /\ new.row = match[p].row
  BY RunMovedTo DEF RunsInv
<1>2. RunOK(match[p], Chain, row, quiet)
  BY DEF RunsInv
<1>3. RunOK(new, Chain, row, quiet)
  BY <1>1, <1>2 DEF RunOK
<1> QED
  BY <1>1, <1>3, OneRunMoves

(* A run starts with the row the ledger file has. *)
LEMMA StartMatchRunOK ==
  ASSUME RunsInv, NEW p \in MatchRuns, NEW broadcast \in BOOLEAN, StartMatchRun(p, broadcast)
  PROVE  RunsInv'
<1> DEFINE new == [pc |-> "status", broadcast |-> broadcast, row |-> row, count |-> 0, seen |-> <<>>]
<1>2. new \in RunRecord /\ new.pc = "status" /\ new.row = row
  BY DEF RunsInv, RunRecord, RunPcs
<1>3. RunBecomes(p, new)
  BY DEF StartMatchRun, RunBecomes
<1> HIDE DEF new
<1>4. RunOK(new, Chain, row, quiet)
  BY <1>2 DEF RunOK, Committed, RunsInv
<1>5. match[p].pc # "mining" /\ UNCHANGED <<draws, row, pending, quiet>>
  <2>1. match[p].pc = "idle"
    BY DEF StartMatchRun, Is
  <2>2. UNCHANGED <<draws, row, pending>> /\ UNCHANGED quiet
    BY DEF StartMatchRun, Looks, vars, slotVars
  <2> QED
    BY <2>1, <2>2
<1> QED
  BY <1>2, <1>3, <1>4, <1>5, OneRunMoves

(* A run that has looked at the contract goes on with a row it holds. *)
LEMMA SeeStatusOK ==
  ASSUME RunsInv, ChainInv, NEW p \in MatchRuns, SeeStatus(p)
  PROVE  RunsInv'
<1> DEFINE pc == Continues(p)
<1>1. match[p].pc = "status" /\ (quiet => match[p].row = row)
  BY DEF SeeStatus, Is, RunsInv, RunOK
<1>2. UNCHANGED <<draws, row, pending, quiet>>
  BY DEF SeeStatus, Looks, vars, slotVars
<1>3. Chain.state \in DrawState
  BY TheDrawIsOne DEF ChainInv, SlotOK, DrawnSoFar, IsDraw, Chain
<1>4. CASE pc = "idle"
  BY <1>1, <1>2, <1>4, OneRunEnds DEF SeeStatus
<1>5. CASE pc # "idle"
  <2>1. quiet /\ Chain.state # "Draft" => OnRow(Chain, row)
    BY <1>1, <1>5 DEF Continues, HoldsOwnRow, ChainRow, OnRow, RowOf
  <2>2. /\ pc \in {"finalize", "request", "await", "count", "winners"}
        /\ pc = "finalize" <=> Chain.state = "Draft"
        /\ pc = "winners" => Chain.state = "Fulfilled"
    BY <1>3, <1>5 DEF Continues, DrawState
  <2>3. /\ pc \in RunPcs
        /\ quiet /\ pc \in Committed => OnRow(Chain, row)
        /\ quiet /\ pc = "finalize" => FreshOr(Chain, row)
    BY <2>1, <2>2 DEF RunPcs, Committed, FreshOr
  <2>4. MoveTo(p, pc)
    BY <1>5 DEF SeeStatus
  <2> HIDE DEF pc
  <2> QED
    BY <1>1, <1>2, <2>2, <2>3, <2>4, OneRunGoesOn
<1> QED
  BY <1>4, <1>5

(* Waiting and counting. *)
LEMMA AwaitWordOK ==
  ASSUME RunsInv, NEW p \in MatchRuns, AwaitWord(p)
  PROVE  RunsInv'
<1>1. match[p].pc = "await" /\ (quiet => OnRow(Chain, row))
  BY DEF AwaitWord, Is, RunsInv, RunOK, Committed
<1>2. UNCHANGED <<draws, row, pending, quiet>>
  BY DEF AwaitWord, Looks, vars, slotVars
<1>3. Ends(p) \/ MoveTo(p, "count")
  BY DEF AwaitWord
<1> QED
  BY <1>1, <1>2, <1>3, OneRunEnds, OneRunGoesOn DEF RunPcs

(* The number of slots revealed ... *)
LEMMA SeeCountOK ==
  ASSUME RunsInv, ChainInv, NEW p \in MatchRuns, SeeCount(p)
  PROVE  RunsInv'
<1>1. match[p].pc = "count" /\ (quiet => OnRow(Chain, row)) /\ RunOK(match[p], Chain, row, quiet)
  BY DEF SeeCount, Is, RunsInv, RunOK, Committed
<1>2. UNCHANGED <<draws, row, pending, quiet>>
  BY DEF SeeCount, Looks, vars, slotVars
<1>3. CASE Chain.state = "Fulfilled"
  <2>1. MoveTo(p, "winners")
    BY <1>3 DEF SeeCount
  <2> QED
    BY <1>1, <1>2, <1>3, <2>1, OneRunGoesOn DEF RunPcs
<1>4. CASE Chain.state # "Fulfilled"
  <2> DEFINE old == match[p]
             n == Len(Chain.revealedPrizeSlots)
             mid == [old EXCEPT !.pc = "slots"]
             new == [mid EXCEPT !.count = n]
  <2>1. match' = [match EXCEPT ![p].pc = "slots", ![p].count = n]
    BY <1>4 DEF SeeCount
  <2>2. n \in Nat
    BY TheDrawIsOne, DrawFigures DEF ChainInv, SlotOK, DrawnSoFar, Chain
  <2>3. old \in RunRecord
    BY DEF RunsInv
  <2> HIDE DEF n
  <2>4. RunBecomes(p, new)
    BY <2>1, <2>3 DEF RunBecomes, RunsInv
  <2> HIDE DEF old
  <2>5. mid \in RunRecord /\ mid.pc = "slots" /\ mid.row = old.row
    BY <2>3 DEF RunRecord, RunPcs
  <2> HIDE DEF mid
  <2>6. new \in RunRecord /\ new.pc = "slots" /\ new.row = old.row
    BY <2>2, <2>5 DEF RunRecord
  <2> HIDE DEF new
  <2>7. RunOK(new, Chain, row, quiet)
    BY <1>1, <2>6 DEF RunOK, old
  <2> QED
    BY <1>1, <1>2, <2>4, <2>6, <2>7, OneRunMoves
<1> QED
  BY <1>3, <1>4

(* ... and which. *)
LEMMA SeeSlotsOK ==
  ASSUME RunsInv, ChainInv, NEW p \in MatchRuns, SeeSlots(p)
  PROVE  RunsInv'
<1> DEFINE old == match[p]
           seen == Chain.revealedPrizeSlots
           mid == [old EXCEPT !.pc = "reveal"]
           new == [mid EXCEPT !.seen = seen]
<1>1. old.pc = "slots" /\ (quiet => OnRow(Chain, row)) /\ RunOK(old, Chain, row, quiet)
  BY DEF SeeSlots, Is, RunsInv, RunOK, Committed
<1>2. UNCHANGED <<draws, row, pending, quiet>>
  BY DEF SeeSlots, Looks, vars, slotVars
<1>3. seen \in Seq(Nat)
  BY TheDrawIsOne, DrawFigures DEF ChainInv, SlotOK, DrawnSoFar, Chain
<1>4. old \in RunRecord
  BY DEF RunsInv
<1>5. match' = [match EXCEPT ![p].pc = "reveal", ![p].seen = seen]
  BY DEF SeeSlots
<1> HIDE DEF seen
<1>6. RunBecomes(p, new)
  BY <1>4, <1>5 DEF RunBecomes, RunsInv
<1> HIDE DEF old
<1>7. mid \in RunRecord /\ mid.pc = "reveal" /\ mid.row = old.row
  BY <1>4 DEF RunRecord, RunPcs
<1> HIDE DEF mid
<1>8. new \in RunRecord /\ new.pc = "reveal" /\ new.row = old.row
  BY <1>3, <1>7 DEF RunRecord
<1> HIDE DEF new
<1>9. RunOK(new, Chain, row, quiet)
  BY <1>1, <1>8 DEF RunOK
<1> QED
  BY <1>1, <1>2, <1>6, <1>8, <1>9, OneRunMoves DEF old

(* A call is sent by a run that has seen what it relies on, or by none. *)
LEMMA SendCallOK ==
  ASSUME RunsInv, NEW p \in MatchRuns, NEW call \in {"finalize", "request", "reveal"}, NEW slots,
         SendCall(p, call, slots), match[p].pc = call
  PROVE  RunsInv'
<1> DEFINE tx == [call |-> call, by |-> p, row |-> match[p].row, slots |-> slots]
<1>1. /\ RunOK(match[p], Chain, row, quiet) /\ match[p].pc \notin {"idle", "mining"}
      /\ match[p].row \in MatchLedgers /\ (quiet => match[p].row = row)
  BY DEF RunsInv, RunOK
<1>2. UNCHANGED <<draws, row, quiet>>
  BY DEF SendCall, vars, slotVars
<1>3. CASE ~ MayCall(tx)
  <2>1. UNCHANGED pending /\ Ends(p)
    BY <1>3 DEF SendCall
  <2> QED
    BY <1>1, <1>2, <2>1, OneRunEnds
<1>4. CASE MayCall(tx)
  <2>1. pending' = Append(pending, tx) /\ MoveTo(p, "mining")
    BY <1>4 DEF SendCall
  <2>2. PICK new \in RunRecord : RunBecomes(p, new) /\ new.pc = "mining" /\ new.row = match[p].row
    BY <2>1, RunMovedTo DEF RunsInv, RunPcs
  <2>3. match' \in [MatchRuns -> RunRecord] /\ \A o \in MatchRuns : match'[o] = IF o = p THEN new ELSE match[o]
    BY <2>2, RunReplaced DEF RunsInv
  <2>4. CallOK(tx, match', Chain, row, quiet)
    <3>1. quiet /\ call # "finalize" => OnRow(Chain, row)
      BY <1>1 DEF RunOK, Committed
    <3>2. quiet => FreshOr(Chain, row)
      BY <1>1, <3>1 DEF RunOK, OnRow, FreshOr
    <3> QED
      BY <1>1, <2>2, <2>3, <3>1, <3>2 DEF CallOK
  <2>5. tx.by = p
    OBVIOUS
  <2> HIDE DEF tx
  <2>6. QueueOK(Append(pending, tx), match', Chain, row, quiet)
    <3>1. QueueOK(pending, match, Chain, row, quiet)
      BY DEF RunsInv
    <3>2. \A o \in MatchRuns \ {tx.by} : match'[o] = match[o]
      BY <2>3, <2>5
    <3>3. tx.by \in MatchRuns /\ match[tx.by].pc # "mining"
      BY <1>1, <2>5
    <3> QED
      BY <2>4, <3>1, <3>2, <3>3, QueueSent
  <2>7. \A o \in MatchRuns : RunOK(match'[o], Chain, row, quiet)
    <3>1. RunOK(new, Chain, row, quiet)
      BY <1>1, <2>2 DEF RunOK, Committed
    <3> QED
      BY <2>3, <3>1 DEF RunsInv
  <2>8. Chain' = Chain
    BY <1>2 DEF Chain, TheDraw
  <2> QED
    BY <1>2, <2>1, <2>3, <2>6, <2>7, <2>8 DEF RunsInv
<1> QED
  BY <1>3, <1>4

(* The finalize and the request call of a run ... *)
LEMMA SendFirstOK ==
  ASSUME RunsInv, NEW p \in MatchRuns, SendFirst(p)
  PROVE  RunsInv'
BY SendCallOK DEF SendFirst, Is

(* ... and its reveals keep the invariant. *)
LEMMA SendSlotsOK ==
  ASSUME RunsInv, NEW p \in MatchRuns, SendSlots(p)
  PROVE  RunsInv'
<1>1. match[p].pc = "reveal"
  BY DEF SendSlots, Is
<1>2. CASE Ends(p) /\ Looks
  BY <1>1, <1>2, OneRunEnds DEF Looks, vars, slotVars
<1>3. CASE SendCall(p, "reveal", NextBatch(p))
  BY <1>1, <1>3, SendCallOK
<1> QED
  BY <1>2, <1>3 DEF SendSlots

(* A run is killed: its call, if it has sent one, becomes nobody's. *)
LEMMA DieOK ==
  ASSUME RunsInv, NEW p \in MatchRuns, Die(p)
  PROVE  RunsInv'
<1>1. PICK new \in RunRecord : RunBecomes(p, new) /\ new.pc = "idle"
  BY RunEnded DEF Die, RunsInv
<1>2. match' \in [MatchRuns -> RunRecord] /\ \A o \in MatchRuns : match'[o] = IF o = p THEN new ELSE match[o]
  BY <1>1, RunReplaced DEF RunsInv
<1>3. Chain' = Chain /\ row' = row /\ quiet' = quiet
  BY DEF Die, vars, slotVars, Chain, TheDraw
<1>4. \A o \in MatchRuns : RunOK(match'[o], Chain, row, quiet)
  BY <1>1, <1>2, IdleOK DEF RunsInv
<1>5. QueueOK(pending', match', Chain, row, quiet)
  <2>1. QueueOK(pending, match, Chain, row, quiet)
    BY DEF RunsInv
  <2>2. \A o \in MatchRuns \ {p} : match'[o] = match[o]
    BY <1>2
  <2>3. pending' = [i \in DOMAIN pending |->
                      IF pending[i].by = p THEN [pending[i] EXCEPT !.by = "nobody"] ELSE pending[i]]
    BY DEF Die
  <2>4. QueueOK([i \in DOMAIN pending |->
                   IF pending[i].by = p THEN [pending[i] EXCEPT !.by = "nobody"] ELSE pending[i]],
                match', Chain, row, quiet)
    BY <2>1, <2>2, QueueOrphaned
  <2> QED
    BY <2>3, <2>4, Zenon
<1> QED
  BY <1>2, <1>3, <1>4, <1>5 DEF RunsInv

(* The ledger file changes: with nothing under way, or it is on record. *)
LEMMA RebuildRowOK ==
  ASSUME RunsInv, NEW l \in MatchLedgers, RebuildRow(l)
  PROVE  RunsInv' /\ Chain' = Chain /\ (quiet' => quiet)
<1>1. /\ row' = l /\ UNCHANGED <<match, pending>> /\ Chain' = Chain
      /\ quiet' = (quiet /\ pending = <<>> /\ \A p \in MatchRuns : match[p].pc = "idle")
  BY DEF RebuildRow, Is, vars, slotVars, Chain, TheDraw
<1>2. quiet' \in BOOLEAN /\ (quiet' => quiet)
  BY <1>1
<1>3. CASE quiet' = FALSE
  <2>1. QueueOK(pending, match, Chain, l, FALSE)
    BY QueueRebuilt DEF RunsInv
  <2>2. \A p \in MatchRuns : RunOK(match[p], Chain, l, FALSE)
    BY DEF RunsInv, RunOK
  <2> QED
    BY <1>1, <1>2, <1>3, <2>1, <2>2 DEF RunsInv
<1>4. CASE quiet'
  <2>1. pending = <<>> /\ \A p \in MatchRuns : match[p].pc = "idle"
    BY <1>1, <1>4
  <2>2. QueueOK(pending, match, Chain, l, quiet')
    <3>1. <<>> \in Seq({}) /\ Len(<<>>) = 0
      OBVIOUS
    <3> QED
      BY <2>1, <3>1 DEF QueueOK
  <2>3. \A p \in MatchRuns : RunOK(match[p], Chain, l, quiet')
    BY <2>1, IdleOK
  <2> QED
    BY <1>1, <1>2, <2>2, <2>3 DEF RunsInv
<1> QED
  BY <1>2, <1>3, <1>4

(* The calls and the answers that are not the script's carry the draw on. *)
LEMMA OtherCallsStep ==
  ASSUME OtherCalls
  PROVE  (\E a, slots : RevealSlots(a, TheDraw, slots))
         \/ (\E id \in RequestIds, word \in Words : FulfillDraw(id, word))
BY DEF OtherCalls, DrawNext, DrawRandomPrizeSlot

(* A draw that is carried on. *)
LEMMA CarriedIsKept ==
  ASSUME ChainInv, UNCHANGED draws \/ CarriesOn
  PROVE  Kept(Chain, Chain')
<1>1. \/ Chain' = Chain
      \/ /\ Chain.state \notin {"Draft", "Fulfilled"} /\ Chain'.state # "Draft"
         /\ ChainRow' = ChainRow
  BY CarriedChain
<1> QED
  BY <1>1 DEF Kept, ChainRow, RowOf

(* They change nothing that the script relies on. *)
LEMMA OtherCallsOK ==
  ASSUME HashesAreNumbers, RunsInv, ChainInv, OtherCalls
  PROVE  RunsInv' /\ Kept(Chain, Chain')
<1>1. Kept(Chain, Chain')
  BY OtherCallsStep, RevealCarriesOn, AnswerCarriesOn, CarriedIsKept
<1>2. UNCHANGED <<row, match, pending, quiet>>
  BY DEF OtherCalls, matchVars
<1>3. \A p \in MatchRuns : RunOK(match[p], Chain', row, quiet)
  BY <1>1, KeptInOrder DEF RunsInv
<1>4. QueueOK(pending, match, Chain', row, quiet)
  BY <1>1, QueueKept DEF RunsInv
<1> QED
  BY <1>1, <1>2, <1>3, <1>4 DEF RunsInv

(* What mining a call does to the draw. *)
LEMMA MinedChain ==
  ASSUME HashesAreNumbers, ChainInv, NEW tx, tx.row \in MatchLedgers, Call(tx)
  PROVE  /\ ChainStep
         /\ \/ tx.call # "finalize" /\ Kept(Chain, Chain')
            \/ tx.call = "finalize" /\ Given(Chain, Chain', tx.row)
<1> DEFINE l == tx.row
<1>1. l = [hash |-> l.hash, tickets |-> l.tickets, slots |-> l.slots]
      /\ l.hash \in Nat /\ l.tickets \in Nat /\ l.slots \in Nat
  BY MatchRunnerAssumption
<1> HIDE DEF l
<1>2. CASE tx.call = "finalize" /\ FinalizeLedger(Deployer, TheDraw, l.hash, l.tickets, l.slots)
  <2>1. IsDraw(Chain)
    BY TheDrawIsOne DEF ChainInv, Chain, SlotOK, DrawnSoFar
  <2>2. Finalizes(l.hash, l.tickets, l.slots)
    BY <1>1, <1>2, <2>1, FinalizeLedgerMoves
  <2>3. Given(Chain, Chain', l)
    <3>1. /\ Chain.state \in {"Draft", "LedgerFinalized"} /\ Chain'.state = "LedgerFinalized"
          /\ ChainRow' = [hash |-> l.hash, tickets |-> l.tickets, slots |-> l.slots]
      BY <2>2, FinalizedChain
    <3>2. ChainRow' = RowOf(Chain')
      BY DEF ChainRow, RowOf
    <3> QED
      BY <1>1, <3>1, <3>2 DEF Given
  <2> QED
    BY <1>1, <1>2, <2>3 DEF ChainStep, l
<1>3. CASE tx.call = "request" /\ RequestDraw(Deployer, TheDraw)
  BY <1>3, RequestCarriesOn, CarriedIsKept DEF ChainStep
<1>4. CASE tx.call = "reveal" /\ DrawPrizeSlots(Deployer, TheDraw, tx.slots)
  BY <1>4, RevealCarriesOn, CarriedIsKept DEF ChainStep, DrawPrizeSlots
<1> QED
  BY <1>2, <1>3, <1>4 DEF Call, l

(* A call is mined, or reverts: what its run is told. *)
LEMMA MineCallOK ==
  ASSUME HashesAreNumbers, RunsInv, ChainInv, MineCall
  PROVE  /\ RunsInv' /\ ChainStep
         /\ \A file : FileOK(file, Chain, quiet) => FileOK(file, Chain', quiet)
<1> DEFINE tx == pending[1]
<1>1. /\ QueueOK(pending, match, Chain, row, quiet) /\ pending # <<>>
      /\ pending' = Tail(pending) /\ UNCHANGED <<row, announced, quiet>>
      /\ \/ Call(tx) /\ Told(tx, After(tx.call))
         \/ Told(tx, "idle") /\ UNCHANGED <<draws, drawIdByRequestId, coordinatorVars>>
  <2>1. Head(pending) = pending[1]
    <3>1. pending # <<>>
      BY DEF MineCall
    <3>2. PICK S : pending \in Seq(S)
      BY DEF RunsInv, QueueOK
    <3> QED
      BY <3>1, <3>2
  <2> QED
    BY <2>1 DEF MineCall, RunsInv
<1>2. CallOK(tx, match, Chain, row, quiet)
  <2>1. PICK S : pending \in Seq(S)
    BY <1>1 DEF QueueOK
  <2>2. 1 \in 1..Len(pending)
    BY <1>1, <2>1
  <2> QED
    BY <1>1, <2>2 DEF QueueOK
<1> HIDE DEF tx
<1>3. tx.row \in MatchLedgers /\ tx.call \in {"finalize", "request", "reveal"}
  BY <1>2 DEF CallOK
<1>4. ChainStep /\ (Kept(Chain, Chain') \/ (tx.call = "finalize" /\ Given(Chain, Chain', tx.row)))
  <2>1. CASE Call(tx)
    BY <1>3, <2>1, MinedChain
  <2>2. CASE UNCHANGED <<draws, drawIdByRequestId, coordinatorVars>>
    BY <2>2, CarriedIsKept DEF ChainStep
  <2> QED
    BY <1>1, <2>1, <2>2
<1>5. /\ \A run : RunOK(run, Chain, row, quiet) => RunOK(run, Chain', row, quiet)
      /\ \A file : FileOK(file, Chain, quiet) => FileOK(file, Chain', quiet)
  <2>1. CASE Kept(Chain, Chain')
    BY <2>1, KeptInOrder
  <2>2. CASE tx.call = "finalize" /\ Given(Chain, Chain', tx.row)
    BY <1>2, <2>2, GivenInOrder
  <2> QED
    BY <1>4, <2>1, <2>2
<1>6. /\ match' \in [MatchRuns -> RunRecord]
      /\ \A p \in MatchRuns : p # tx.by => match'[p] = match[p]
      /\ tx.by \in MatchRuns => RunOK(match'[tx.by], Chain', row, quiet)
  <2>1. match \in [MatchRuns -> RunRecord]
    BY DEF RunsInv
  <2>2. CASE tx.by \notin MatchRuns
    <3>1. UNCHANGED match
      BY <1>1, <2>2 DEF Told
    <3> QED
      BY <2>1, <2>2, <3>1
  <2>3. CASE tx.by \in MatchRuns
    <3> DEFINE p == tx.by
    <3>1. match[p].pc = "mining" /\ match[p].row \in MatchLedgers /\ (quiet => match[p].row = row)
      <4>1. match[p].pc = "mining" /\ RunOK(match[p], Chain, row, quiet)
        BY <1>2, <2>3 DEF CallOK, RunsInv
      <4> QED
        BY <4>1 DEF RunOK
    <3>2. p \in MatchRuns
      BY <2>3
    <3> HIDE DEF p
    <3>3. CASE Told(tx, "idle")
      <4>1. Ends(p)
        BY <2>3, <3>3 DEF Told, p
      <4>2. PICK new \in RunRecord : RunBecomes(p, new) /\ new.pc = "idle"
        BY <2>1, <3>2, <4>1, RunEnded
      <4> QED
        BY <2>1, <3>2, <4>2, RunReplaced, IdleOK DEF p
    <3>4. CASE Call(tx) /\ Told(tx, After(tx.call))
      <4> DEFINE pc == After(tx.call)
      <4>1. /\ pc \in {"status", "await", "count"}
            /\ pc # "status" => tx.call # "finalize"
        BY <1>3 DEF After
      <4>2. MoveTo(p, pc)
        BY <2>3, <3>4, <4>1 DEF Told, p
      <4>3. quiet /\ pc # "status" => OnRow(Chain', row)
        <5>1. quiet /\ tx.call # "finalize" => OnRow(Chain, row) /\ Kept(Chain, Chain')
          BY <1>2, <1>4, <2>3 DEF CallOK
        <5> HIDE DEF pc
        <5> QED
          BY <4>1, <5>1, KeptFacts
      <4> HIDE DEF pc
      <4>4. pc \in RunPcs
        BY <4>1 DEF RunPcs
      <4>5. PICK new \in RunRecord : RunBecomes(p, new) /\ new.pc = pc /\ new.row = match[p].row
        BY <2>1, <3>2, <4>2, <4>4, RunMovedTo
      <4>6. RunOK(new, Chain', row, quiet)
        BY <3>1, <4>1, <4>3, <4>5 DEF RunOK, Committed
      <4> QED
        BY <2>1, <3>2, <4>5, <4>6, RunReplaced DEF p
    <3> QED
      BY <1>1, <3>3, <3>4
  <2> QED
    BY <2>2, <2>3
<1>7. \A p \in MatchRuns : RunOK(match'[p], Chain', row, quiet)
  BY <1>5, <1>6 DEF RunsInv
<1>8. QueueOK(Tail(pending), match', Chain', row, quiet)
  BY <1>1, <1>4, <1>6, QueueMined DEF tx
<1> QED
  BY <1>1, <1>4, <1>5, <1>6, <1>7, <1>8 DEF RunsInv

(* A run writes the winners of a fulfilled draw that holds its row. *)
LEMMA AnnounceOK ==
  ASSUME RunsInv, FileOK(announced, Chain, quiet), NEW p \in MatchRuns, Announce(p)
  PROVE  RunsInv' /\ FileOK(announced', Chain, quiet)
<1>1. /\ match[p].pc = "winners" /\ Chain.state = "Fulfilled"
      /\ quiet => match[p].row = row /\ OnRow(Chain, row)
  BY DEF Announce, Is, RunsInv, RunOK, Committed
<1>2. Ends(p) /\ UNCHANGED <<draws, row, pending, quiet>>
  BY DEF Announce, vars, slotVars
<1>3. RunsInv'
  BY <1>1, <1>2, OneRunEnds
<1>4. \/ announced' = [row |-> match[p].row, winners |-> Chain.allComputedTickets]
      \/ announced' = announced
  BY DEF Announce
<1>5. quiet => match[p].row.hash = Chain.ledgerHash
  BY <1>1 DEF OnRow, RowOf
<1> QED
  BY <1>1, <1>3, <1>4, <1>5 DEF FileOK

(* The inductive invariant: the contract's part, the runs and the file. *)
MatchInv == ChainInv /\ RunsInv /\ FileOK(announced, Chain, quiet)

(* It holds at first ... *)
LEMMA MatchInvInit ==
  ASSUME HashesAreNumbers, Init, MatchInit
  PROVE  MatchInv
<1>1. ChainInv
  BY SlotInvInit DEF SlotInv, RequestInv, RoundInv, ChainInv
<1>2. RunsInv
  <2>1. \A p \in MatchRuns : match[p] = Resting
    BY DEF MatchInit
  <2>2. Resting \in RunRecord /\ Resting.pc = "idle"
    BY DEF Resting, RunRecord, RunPcs
  <2>3. match \in [MatchRuns -> RunRecord]
    BY <2>2 DEF MatchInit
  <2>4. QueueOK(pending, match, Chain, row, quiet)
    <3>1. pending = <<>>
      BY DEF MatchInit
    <3>2. <<>> \in Seq({}) /\ Len(<<>>) = 0
      OBVIOUS
    <3> QED
      BY <3>1, <3>2 DEF QueueOK
  <2> QED
    BY <2>1, <2>2, <2>3, <2>4, IdleOK DEF RunsInv, MatchInit
<1>3. FileOK(announced, Chain, quiet)
  BY DEF MatchInit, FileOK
<1> QED
  BY <1>1, <1>2, <1>3 DEF MatchInv

(* ... and every step keeps it. *)
LEMMA MatchInvNext ==
  ASSUME HashesAreNumbers, MatchInv, [MatchRunSteps]_<<vars, matchVars>>
  PROVE  MatchInv'
<1> DEFINE Still == UNCHANGED <<draws, drawIdByRequestId, coordinatorVars, announced>> /\ (quiet' => quiet)
<1>1. ChainInv /\ RunsInv /\ FileOK(announced, Chain, quiet)
  BY DEF MatchInv
<1>2. ASSUME RunsInv', Still PROVE MatchInv'
  <2>1. ChainInv'
    BY <1>1, <1>2, ChainInvKept DEF ChainStep
  <2>2. Chain' = Chain /\ announced' = announced
    BY <1>2 DEF Chain, TheDraw
  <2>3. FileOK(announced', Chain', quiet')
    BY <1>1, <1>2, <2>2 DEF FileOK
  <2> QED
    BY <1>2, <2>1, <2>3 DEF MatchInv
<1>3. CASE UNCHANGED <<vars, matchVars>>
  <2>1. Still /\ UNCHANGED <<row, match, pending, quiet>> /\ Chain' = Chain
    BY <1>3 DEF vars, slotVars, matchVars, Chain, TheDraw
  <2>2. RunsInv'
    BY <1>1, <2>1 DEF RunsInv
  <2> QED
    BY <1>2, <2>1, <2>2
<1>4. ASSUME NEW p \in MatchRuns,
             \/ \E broadcast \in BOOLEAN : StartMatchRun(p, broadcast)
             \/ SeeStatus(p) \/ AwaitWord(p) \/ SeeCount(p) \/ SeeSlots(p)
             \/ SendFirst(p) \/ SendSlots(p) \/ Die(p)
      PROVE  MatchInv'
  <2>1. RunsInv'
    BY <1>1, <1>4, StartMatchRunOK, SeeStatusOK, AwaitWordOK, SeeCountOK, SeeSlotsOK, SendFirstOK,
       SendSlotsOK, DieOK
  <2>2. Still
    <3>1. UNCHANGED vars /\ UNCHANGED announced /\ UNCHANGED quiet
      BY <1>4 DEF StartMatchRun, SeeStatus, AwaitWord, SeeCount, SeeSlots, SendFirst, SendSlots,
                  SendCall, Die, Looks
    <3> QED
      BY <3>1 DEF vars, slotVars
  <2> QED
    BY <1>2, <2>1, <2>2
<1>5. ASSUME NEW l \in MatchLedgers, RebuildRow(l) PROVE MatchInv'
  <2>1. RunsInv' /\ (quiet' => quiet)
    BY <1>1, <1>5, RebuildRowOK
  <2>2. Still
    BY <1>5 DEF RebuildRow, vars, slotVars
  <2> QED
    BY <1>2, <2>1, <2>2
<1>6. ASSUME NEW p \in MatchRuns, Announce(p) PROVE MatchInv'
  <2>1. RunsInv' /\ FileOK(announced', Chain, quiet)
    BY <1>1, <1>6, AnnounceOK
  <2>2. UNCHANGED <<draws, drawIdByRequestId, coordinatorVars, quiet>> /\ Chain' = Chain
    BY <1>6 DEF Announce, vars, slotVars, Chain, TheDraw
  <2>3. ChainInv'
    BY <1>1, <2>2, ChainInvKept DEF ChainStep
  <2> QED
    BY <2>1, <2>2, <2>3 DEF MatchInv
<1>7. CASE MineCall
  <2>1. /\ RunsInv' /\ ChainStep
        /\ \A file : FileOK(file, Chain, quiet) => FileOK(file, Chain', quiet)
    BY <1>1, <1>7, MineCallOK
  <2>2. announced' = announced /\ quiet' = quiet
    BY <1>7 DEF MineCall
  <2> QED
    BY <1>1, <2>1, <2>2, ChainInvKept DEF MatchInv
<1>8. CASE OtherCalls
  <2>1. RunsInv' /\ Kept(Chain, Chain')
    BY <1>1, <1>8, OtherCallsOK
  <2>2. announced' = announced /\ quiet' = quiet
    BY <1>8 DEF OtherCalls, matchVars
  <2>3. ChainStep
    BY <1>8, OtherCallsStep DEF ChainStep
  <2>4. FileOK(announced, Chain', quiet)
    BY <1>1, <2>1, KeptInOrder
  <2> QED
    BY <1>1, <2>1, <2>2, <2>3, <2>4, ChainInvKept DEF MatchInv
<1> QED
  BY <1>3, <1>4, <1>5, <1>6, <1>7, <1>8 DEF MatchRunSteps

(* A fulfilled draw has computed the ticket of every slot. *)
LEMMA FulfilledTickets ==
  ASSUME NEW d, NEW draw, SlotOK(d, draw), draw.state = "Fulfilled"
  PROVE  draw.allComputedTickets = PickTickets(draw.totalTickets, draw.prizeSlotCount, <<draw.randomWord, d>>)
<1> DEFINE slots == draw.revealedPrizeSlots
           all == draw.allComputedTickets
           n == Len(all)
           count == draw.prizeSlotCount
<1>1. IsDraw(draw) /\ SlotPicked(d, draw) /\ SlotLife(draw) /\ DrawnSoFar(d, draw)
  BY DEF SlotOK, DrawnSoFar
<1>2. /\ count \in Nat /\ n \in Nat /\ slots \in Seq(Nat) /\ Len(slots) = count /\ n =< count
      /\ all = Picks(d, draw, n)
      /\ \A i \in 1..Len(slots) : slots[i] < n
  BY <1>1, DrawFigures DEF SlotPicked, SlotLife
<1>3. ToSet(slots) = 0..(count - 1)
  BY <1>1, <1>2, RevealedSlots
<1> HIDE DEF slots, all, n, count
<1>4. n = count
  <2>1. CASE count = 0
    BY <1>2, <2>1
  <2>2. CASE count # 0
    <3>1. count - 1 \in ToSet(slots)
      BY <1>2, <1>3, <2>2
    <3>2. PICK i \in 1..Len(slots) : slots[i] = count - 1
      BY <1>2, <3>1 DEF ToSet
    <3> QED
      BY <1>2, <3>2
  <2> QED
    BY <2>1, <2>2
<1> QED
  BY <1>2, <1>4 DEF Picks, all, count

(* However many runs are killed, and whatever calls, builds and other admins
   come in between, the winners file tells the tickets of a complete draw, and
   the ledger it names is the contract's unless a build came between a run or
   a call already sent and its end. *)
THEOREM AnnouncementCorrect ==
  ASSUME HashesAreNumbers
  PROVE  MatchSpec => []AnnouncedIsTheDraw
<1>1. Init /\ MatchInit => MatchInv
  BY MatchInvInit
<1>2. MatchInv /\ [MatchRunSteps]_<<vars, matchVars>> => MatchInv'
  BY MatchInvNext
<1>3. MatchInv => AnnouncedIsTheDraw
  <2> SUFFICES ASSUME MatchInv, announced # NotAnnounced
               PROVE  /\ Chain.state = "Fulfilled" /\ (quiet => announced.row.hash = Chain.ledgerHash)
                      /\ announced.winners =
                           PickTickets(Chain.totalTickets, Chain.prizeSlotCount, <<Chain.randomWord, TheDraw>>)
    BY DEF AnnouncedIsTheDraw
  <2>1. /\ Chain.state = "Fulfilled" /\ (quiet => announced.row.hash = Chain.ledgerHash)
        /\ announced.winners = Chain.allComputedTickets
    BY DEF MatchInv, FileOK
  <2>2. SlotOK(TheDraw, Chain)
    BY TheDrawIsOne DEF MatchInv, ChainInv, Chain
  <2> QED
    BY <2>1, <2>2, FulfilledTickets
<1> QED
  BY <1>1, <1>2, <1>3, PTL DEF MatchSpec
=============================================================================
