---------------------------- MODULE TicketLedger ----------------------------
(***************************************************************************)
(* From buybacks to the tickets of a wallet: the ledger file that          *)
(* fetch-lucky-draw-ledger.mjs writes, the carryover of the previous       *)
(* campaign, the script that applies it again to a file, and the entry the *)
(* server finds for an address, task rewards included.                     *)
(*                                                                         *)
(* A person may have moved from an old wallet to a new one.  A list of     *)
(* such migrations is read (from a cache) by each refresh and each run of  *)
(* the script; what the list does not know, a resolver is asked about.     *)
(* Buybacks follow the list to its end, carryover and grants one step.     *)
(***************************************************************************)
EXTENDS Sequences, TicketRules

CONSTANTS
  Holders,
  Weights,        \* the tickets of a buyback, by pack
  Previous,       \* the entries of the previous campaign's ledger
  Grants,         \* insider grants by wallet: [practice, grant]
  Resolver,       \* the resolver's answer for each wallet
  Divisor,        \* of the previous campaign's tickets
  Reward,         \* tickets for the completed task
  MaxBuybacks,    \* bound: buybacks
  MaxMigrations   \* bound: migrations

(* The inputs agree: what the resolver answers stands for itself; a wallet *)
(* it joins to another is not in the grants; and an entry of the previous  *)
(* ledger lists wallets that the resolver joins to the entry's.            *)
ASSUME TicketLedgerAssumption ==
  /\ IsFiniteSet(Holders) /\ Weights \subseteq Nat \ {0}
  /\ Divisor \in Nat \ {0} /\ Reward \in Nat /\ MaxBuybacks \in Nat /\ MaxMigrations \in Nat
  /\ Resolver \in [Holders -> Holders]
  /\ \A w \in Holders : Resolver[Resolver[w]] = Resolver[w]
  /\ DOMAIN Grants \subseteq Holders
  /\ \A w \in DOMAIN Grants :
       Resolver[w] = w /\ Grants[w].practice \in Nat /\ Grants[w].grant \in Nat
  /\ IsFiniteSet(Previous)
  /\ \A p \in Previous :
       /\ p.tickets \in Nat /\ p.wallet \in p.sources /\ p.sources \subseteq Holders
       /\ \A w \in p.sources : Resolver[w] = p.wallet

VARIABLES
  buybacks,     \* in the order of the chain: by whom, for how many tickets
  migrations,   \* the list as it is served: from old wallets to new ones
  cachedList,   \* the list in the cache
  completed,    \* the wallets whose task is done
  ledgerFile    \* the file: its entries, how many buybacks it counts, its list

ticketLedgerVars == <<buybacks, migrations, cachedList, completed, ledgerFile>>

-----------------------------------------------------------------------------
(* Which wallet is meant. *)

Step(list, w) == IF w \in DOMAIN list THEN list[w] ELSE w

(* canonicalFromMigrationMap; the list has no cycles. *)
Canonical(list, w) ==
  LET hop[n \in 0..Cardinality(Holders)] == IF n = 0 THEN w ELSE Step(list, hop[n - 1])
  IN  hop[Cardinality(Holders)]

Joined(list, c) == {w \in DOMAIN list : Canonical(list, w) = c}

Resolved(list, w) ==
  LET c == Canonical(list, w)
  IN  IF c # w \/ Joined(list, c) # {}
      THEN [to |-> c, from |-> {w, c} \cup Joined(list, c)]
      ELSE [to |-> Resolver[w], from |-> {w} \cup {o \in Holders : Resolver[o] = Resolver[w]}]

-----------------------------------------------------------------------------
(* The entries. *)

emptyEntry(w) ==
  [wallet |-> w, sources |-> {w}, raw |-> 0, carryover |-> 0, practice |-> 0,
   taskReward |-> 0, insiderGrant |-> 0, intervals |-> {}]

finalTickets(e) == e.raw + e.carryover
totalVotingTickets(e) == finalTickets(e) + e.practice + InsiderGrant(e)

TicketsBefore(i) == SumFunction([j \in 1..(i - 1) |-> buybacks[j].weight])

(* Mutant of Interval: the cursor is not moved past the last ticket. *)
IntervalFromCursor(i) ==
  [start |-> TicketsBefore(i), end |-> TicketsBefore(i) + buybacks[i].weight]

Interval(i) ==
  [start |-> TicketsBefore(i) + 1, end |-> TicketsBefore(i) + buybacks[i].weight]

(* resolveEventWallets, aggregateBaseTickets and allocateRawIntervals. *)
WithBuybacks(list, e) ==
  LET of == {i \in DOMAIN buybacks : Resolved(list, buybacks[i].by).to = e.wallet}
  IN  [e EXCEPT !.sources = @ \cup UNION {Resolved(list, buybacks[i].by).from : i \in of},
                !.raw = SumFunction([i \in of |-> buybacks[i].weight]),
                !.intervals = {Interval(i) : i \in of}]

(* applyInsiderTicketGrants *)
WithGrants(list, e) ==
  LET of == {w \in DOMAIN Grants : Step(list, w) = e.wallet}
  IN  [e EXCEPT !.sources = @ \cup of,
                !.practice = SumFunction([w \in of |-> Grants[w].practice]),
                !.insiderGrant = SumFunction([w \in of |-> Grants[w].grant])]

(* Mutant of PreviousOf: the carryover stays with the old wallet. *)
PreviousOfOld(list, w) == {p \in Previous : p.wallet = w}

PreviousOf(list, w) == {p \in Previous : Step(list, p.wallet) = w}

(* buildCarryoverTicketPlan and applyCarryoverTickets: what the wallets of *)
(* one person had is added up before it is divided.                        *)
WithCarryover(list, e) ==
  LET of == PreviousOf(list, e.wallet)
      tickets == SumFunction([p \in of |-> p.tickets]) \div Divisor
  IN  [e EXCEPT !.carryover = tickets,
                !.sources = @ \cup (IF tickets > 0 THEN UNION {p.sources : p \in of} ELSE {})]

finalizeEntries(entries) == {e \in entries : totalVotingTickets(e) > 0}

-----------------------------------------------------------------------------
(* The steps. *)

NoLedger == [entries |-> {}, counts |-> 0, list |-> << >>, by |-> "none"]

TicketLedgerInit ==
  /\ buybacks = << >>
  /\ migrations = << >>
  /\ cachedList = << >>
  /\ completed = {}
  /\ ledgerFile = NoLedger

Buyback(w, weight) ==
  /\ Len(buybacks) < MaxBuybacks
  /\ buybacks' = Append(buybacks, [by |-> w, weight |-> weight])
  /\ UNCHANGED <<migrations, cachedList, completed, ledgerFile>>

(* A wallet is left once, for one that is not left for it: the list has no *)
(* cycles, but one that was moved to may be left in turn.                  *)
Migrate(old, new) ==
  /\ Cardinality(DOMAIN migrations) < MaxMigrations
  /\ old \notin DOMAIN migrations /\ Canonical(migrations, new) # old
  /\ migrations' = [w \in DOMAIN migrations \cup {old} |-> IF w = old THEN new ELSE migrations[w]]
  /\ UNCHANGED <<buybacks, cachedList, completed, ledgerFile>>

CompleteTask(w) ==
  /\ completed' = completed \cup {w}
  /\ UNCHANGED <<buybacks, migrations, cachedList, ledgerFile>>

(* fetchWalletMigrationMap: the cache while it is fresh, or the list. *)
ReadList(list) ==
  /\ list \in {cachedList, migrations}
  /\ cachedList' = list

(* fetch-lucky-draw-ledger.mjs *)
RefreshLedger(list) ==
  /\ ReadList(list)
  /\ LET entry(w) == WithCarryover(list, WithGrants(list, WithBuybacks(list, emptyEntry(w))))
     IN  ledgerFile' = [entries |-> finalizeEntries({entry(w) : w \in Holders}),
                    counts |-> Len(buybacks), list |-> list, by |-> "refresh"]
  /\ UNCHANGED <<buybacks, migrations, completed>>

(* apply-carryover-ledger.mjs *)
ApplyCarryover(list) ==
  /\ ledgerFile # NoLedger
  /\ ReadList(list)
  /\ LET missing == {emptyEntry(w) : w \in Holders \ {e.wallet : e \in ledgerFile.entries}}
         entries == {WithCarryover(list, e) : e \in ledgerFile.entries \cup missing}
     IN  ledgerFile' = [entries |-> finalizeEntries(entries),
                        counts |-> ledgerFile.counts, list |-> ledgerFile.list,
                        by |-> IF list = ledgerFile.list THEN ledgerFile.by ELSE "script"]
  /\ UNCHANGED <<buybacks, migrations, completed>>

TicketLedgerSteps ==
  \/ \E w \in Holders : CompleteTask(w) \/ \E n \in Weights : Buyback(w, n)
  \/ \E old, new \in Holders : Migrate(old, new)
  \/ \E list \in {cachedList, migrations} : RefreshLedger(list) \/ ApplyCarryover(list)

TicketLedgerSpec == TicketLedgerInit /\ [][TicketLedgerSteps]_ticketLedgerVars

-----------------------------------------------------------------------------
(* What the server makes of the file. *)

(* sortLedgerEntries, as far as the tickets decide. *)
RanksBefore(d, e) ==
  \/ finalTickets(d) > finalTickets(e)
  \/ /\ finalTickets(d) = finalTickets(e)
     /\ \/ d.raw > e.raw
        \/ d.raw = e.raw /\ totalVotingTickets(d) > totalVotingTickets(e)

Listing(entries, w) == {e \in entries : w \in e.sources}

(* findLedgerEntryByAddress: the first entry that lists the address. *)
FoundIn(entries, w) ==
  CHOOSE e \in Listing(entries, w) : \A d \in Listing(entries, w) : ~RanksBefore(d, e)

(* applyTaskRewardTickets, on each read of the file. *)
Served(entries) ==
  LET rewarded == {FoundIn(entries, w) : w \in {v \in completed : Listing(entries, v) # {}}}
      unlisted == {w \in completed : Listing(entries, w) = {}}
      reward(e) == [e EXCEPT !.taskReward = Reward, !.insiderGrant = @ + Reward]
  IN  (entries \ rewarded) \cup {reward(e) : e \in rewarded}
        \cup {reward(emptyEntry(w)) : w \in unlisted}

(* In round32, and in the rounds that share a pool. *)
Usable(entries, w) ==
  LET e == IF Listing(entries, w) = {} THEN emptyEntry(w) ELSE FoundIn(entries, w)
  IN  [of |-> w, practice |-> UsableTickets(e, "round32"), shared |-> UsableTickets(e, "round16")]

UsableNow == {Usable(entries, w) : entries \in {Served(ledgerFile.entries)}, w \in Holders}

-----------------------------------------------------------------------------
(* Properties. *)

(* A list on which the two ways to follow it agree with each other and     *)
(* with the resolver: nobody moves twice, and the resolver joins nobody    *)
(* who moves or is moved to.                                               *)
Plain(list) ==
  \A w \in DOMAIN list :
    /\ list[w] \notin DOMAIN list
    /\ \A v \in {w, list[w]} : {o \in Holders : Resolver[o] = v} = {v}

(* Every ticket number up to the last one sold is in one interval of one   *)
(* entry, whatever has moved: nobody's buyback is counted twice or left    *)
(* out.  If the list is plain, that entry is the one found for the wallet  *)
(* that bought it.  (Not in a file the script wrote with a newer list than *)
(* the file's: until the next refresh it may list an address twice.)       *)
EveryTicketHasOneOwner ==
  \A i \in 1..ledgerFile.counts :
    \A t \in (TicketsBefore(i) + 1)..(TicketsBefore(i) + buybacks[i].weight) :
      LET owners == {e \in ledgerFile.entries : \E r \in e.intervals : t \in r.start..r.end}
      IN  /\ Cardinality(owners) = 1
          /\ \A e \in owners : Cardinality({r \in e.intervals : t \in r.start..r.end}) = 1
          /\ ledgerFile.by = "refresh" /\ Plain(ledgerFile.list)
                => owners = {FoundIn(ledgerFile.entries, buybacks[i].by)}

(* No step leaves an address with fewer tickets for a round: not a         *)
(* migration that joins two wallets with buybacks, carryover, grants or    *)
(* rewards, not the script and not a refresh after it.  Excepted are the   *)
(* script with a newer list than the file's, and a list that is not plain: *)
(* where a wallet moves on, its buybacks go to the end, its carryover and  *)
(* its grant to the next one, and each address finds one of two entries.   *)
TicketsAreNotLost ==
  [][/\ ledgerFile' # ledgerFile \/ completed' # completed
     /\ ledgerFile'.by # "script" /\ Plain(ledgerFile'.list)
     => \A before \in UsableNow, after \in UsableNow' :
          before.of = after.of =>
            after.practice >= before.practice /\ after.shared >= before.shared]_ticketLedgerVars
=============================================================================
