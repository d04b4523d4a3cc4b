----------------------------- MODULE TicketScan -----------------------------
(***************************************************************************)
(* The refresh of the ticket ledger: a process that reads, source after    *)
(* source, the event logs an explorer serves, keeps them in a cache file,  *)
(* and counts the pack openings whose buyback succeeded.  The explorer may *)
(* show an event only some refreshes after its block, so each refresh      *)
(* reads again from the last few checkpoints.  A refresh may fail or be    *)
(* killed anywhere; the cache outlives it.                                 *)
(***************************************************************************)
EXTENDS Integers, FiniteSets, FiniteSetsExt

CONSTANTS
  Checkouts,    \* buybacks of legacy packs
  MaxBlock,     \* bound: blocks of the chain, from the campaign's first
  Lookback,     \* checkpoints looked back
  Overlap       \* blocks read again after the last one cached

ASSUME TicketScanAssumption ==
  MaxBlock \in Nat \ {0} /\ Lookback \in Nat \ {0} /\ Overlap \in Nat

Sources == {"success", "open"}
Events == [source : Sources, checkout : Checkouts]

VARIABLES
  head,         \* the last block of the chain
  at,           \* the block of each event, 0 when it has not happened
  served,       \* the events the explorer shows
  missed,       \* how many scans of its block each event was missing from
  eventCache,   \* what is cached of each source: up to which block, and its events
  checkpoints,  \* the last blocks of the refreshes that read everything
  refresh,      \* the refresh under way
  ledger        \* the checkouts counted, and those it should count at least

scanVars == <<head, at, served, missed, eventCache, checkpoints, refresh, ledger>>

NoRefresh == [pc |-> "idle", to |-> 0, from |-> 0, success |-> {}, opens |-> {}, due |-> {}]

ScanInit ==
  /\ head = 1
  /\ at = [e \in Events |-> 0]
  /\ served = {}
  /\ missed = [e \in Events |-> 0]
  /\ eventCache = [s \in Sources |-> [to |-> 0, events |-> {}]]
  /\ checkpoints = {}
  /\ refresh = NoRefresh
  /\ ledger = [counted |-> {}, due |-> {}]

-----------------------------------------------------------------------------
(* The chain and the explorer.  A buyback succeeds after its pack is open. *)

NewBlock(new) ==
  /\ head < MaxBlock /\ head' = head + 1
  /\ \A e \in new : at[e] = 0
  /\ \A e \in new : e.source = "success" => at[[e EXCEPT !.source = "open"]] # 0
  /\ at' = [e \in Events |-> IF e \in new THEN head + 1 ELSE at[e]]
  /\ UNCHANGED <<served, missed, eventCache, checkpoints, refresh, ledger>>

Show(e) ==
  /\ at[e] # 0 /\ e \notin served
  /\ served' = served \cup {e}
  /\ UNCHANGED <<head, at, missed, eventCache, checkpoints, refresh, ledger>>

-----------------------------------------------------------------------------
(* The refresh. *)

Least(blocks) == Min(blocks \cup {MaxBlock + 1})
Newest(n, blocks) == {b \in blocks : Cardinality({c \in blocks : c > b}) < n}

(* Mutant of LookbackFrom: one checkpoint too few. *)
LookbackTooShort(to) ==
  LET known == (checkpoints \cup {eventCache[s].to : s \in Sources}) \ {0}
  IN  Least(Newest(Lookback - 1, {b \in known : b =< to}))

(* resolveCheckpointLookbackFromBlock: where the last checkpoints begin,   *)
(* the blocks the sources are cached up to among them.                     *)
LookbackFrom(to) ==
  LET known == (checkpoints \cup {eventCache[s].to : s \in Sources}) \ {0}
  IN  Least(Newest(Lookback, {b \in known : b =< to}))

Both(events) ==
  {c \in Checkouts : \A s \in Sources : [source |-> s, checkout |-> c] \in events}

RefreshBegins ==
  /\ refresh.pc = "idle"
  /\ refresh' = [pc |-> "success", to |-> head, from |-> LookbackFrom(head),
                 success |-> {}, opens |-> {}, due |-> Both(served)]
  /\ UNCHANGED <<head, at, served, missed, eventCache, checkpoints, ledger>>

ScanStart(s) ==
  LET overlapStart == Max({1, Min({refresh.to + 1, eventCache[s].to - Overlap + 1})})
  IN  IF eventCache[s].to = 0 THEN 1 ELSE Min({overlapStart, refresh.from})

(* What the explorer is trusted with: its head does not go back, and an    *)
(* event is missing only from blocks after the first refresh that read     *)
(* everything, and from few scans: the look-back less the sources, for a   *)
(* killed refresh leaves sources cached up to blocks that count as         *)
(* checkpoints.                                                            *)
ExplorerIsPunctual(s) ==
  \A e \in Events \ served :
    e.source = s /\ at[e] \in 1..refresh.to =>
      IF missed[e] = 0 THEN \E c \in checkpoints : c =< at[e]
      ELSE missed[e] < Lookback - Cardinality(Sources)

(* scanLogSource: what is cached before the start is kept, the rest read   *)
(* again; the cache file is written after each source.                     *)
ScanLogSource(s) ==
  LET start == ScanStart(s)
      to == refresh.to
      fetched == {e \in served : e.source = s /\ at[e] \in start..to}
      kept == {e \in eventCache[s].events : at[e] < start /\ at[e] =< to}
      retained == {e \in eventCache[s].events : at[e] < start \/ at[e] > to}
  IN  /\ refresh.pc = s
      /\ ExplorerIsPunctual(s)
      /\ eventCache' = [eventCache EXCEPT ![s] = [to |-> Max({@.to, to}),
                                        events |-> retained \cup kept \cup fetched]]
      /\ missed' = [e \in Events |-> IF e.source = s /\ e \notin served /\ at[e] \in 1..to
                                     THEN missed[e] + 1 ELSE missed[e]]
      /\ refresh' = IF s = "success"
                    THEN [refresh EXCEPT !.pc = "open", !.success = kept \cup fetched]
                    ELSE [refresh EXCEPT !.pc = "scanned", !.opens = kept \cup fetched]
      /\ UNCHANGED <<head, at, served, checkpoints, ledger>>

AppendBlockCheckpoint ==
  /\ refresh.pc = "scanned"
  /\ checkpoints' = checkpoints \cup {eventCache[s].to : s \in Sources} \cup {refresh.to}
  /\ refresh' = [refresh EXCEPT !.pc = "resolving"]
  /\ UNCHANGED <<head, at, served, missed, eventCache, ledger>>

(* The wallets are resolved and the carryover read; then the ledger is     *)
(* written, with the openings matched to a success of the same checkout.   *)
WriteLedger ==
  /\ refresh.pc = "resolving"
  /\ ledger' = [counted |-> Both(refresh.success \cup refresh.opens), due |-> refresh.due]
  /\ refresh' = NoRefresh
  /\ UNCHANGED <<head, at, served, missed, eventCache, checkpoints>>

(* The explorer, the resolver or the carryover fails, or the server stops. *)
RefreshFails ==
  /\ refresh.pc # "idle"
  /\ refresh' = NoRefresh
  /\ UNCHANGED <<head, at, served, missed, eventCache, checkpoints, ledger>>

ScanSteps ==
  \/ \E new \in SUBSET Events : NewBlock(new)
  \/ \E e \in Events : Show(e)
  \/ RefreshBegins
  \/ \E s \in Sources : ScanLogSource(s)
  \/ AppendBlockCheckpoint \/ WriteLedger \/ RefreshFails

ScanSpec == ScanInit /\ [][ScanSteps]_scanVars

-----------------------------------------------------------------------------

(* A ledger counts every buyback the explorer showed in full when its      *)
(* refresh began, although its events came late and refreshes were killed  *)
(* between two sources.                                                    *)
LedgerCountsWhatWasShown == ledger.due \subseteq ledger.counted

=============================================================================
