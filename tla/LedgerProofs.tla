---------------------------- MODULE LedgerProofs ----------------------------
(***************************************************************************)
(* The ledger of a draw.  Locked rounds stay and a build that ends well    *)
(* leaves both files in agreement, for any rounds, votes, callers,         *)
(* corrections and kills, as long as builds run one at a time.             *)
(*                                                                         *)
(* The argument: between looking and writing a build relies on what it     *)
(* saw.  BuildOK says, for each place it can be at, what it saw that is    *)
(* still so; only a build changes the files, and it is alone.              *)
(*                                                                         *)
(* Then, also for builds beside each other: the pools on file are the      *)
(* votes.  A pool is sound by induction over the allocations it is made    *)
(* of; all rows on file or in a build's hands are sound pools of matches   *)
(* that have a result at FIFA, and such a match gets no more votes.        *)
(*                                                                         *)
(* The ledger of tickets.  Every ticket has one owner, for any holders,    *)
(* buybacks, migrations (chains of them too), grants and previous entries; *)
(* and no address loses a ticket while the list is plain.  With such a     *)
(* list an entry of the file never has more than a refresh would find now  *)
(* for the home of its wallet.                                             *)
(***************************************************************************)
EXTENDS DrawLedger, TicketLedger, SumProofs

IsFile(file) == file = [d \in Draws |-> file[d]]

IsBuild(b) ==
  /\ b = [pc |-> b.pc, draw |-> b.draw, replace |-> b.replace,
          lock |-> b.lock, aggregate |-> b.aggregate, writes |-> b.writes]
  /\ b.pc \in {"idle", "looking", "building", "locking", "writing", "done"}
  /\ b.draw \in Draws \cup {AllDraws}
  /\ IsFile(b.aggregate)

(* No locked file is in the way of what the build will write. *)
MayLock(b) == b.replace \/ locked[b.draw] = NoRows

Locking(b) ==
  /\ b.draw \in Draws /\ MayLock(b) /\ b.lock # NoRows
  /\ "aggregate" \in b.writes => b.aggregate[b.draw] = b.lock
  /\ "aggregate" \notin b.writes => aggregate[b.draw] = b.lock

Writing(b) ==
  b.draw # AllDraws => /\ locked[b.draw] # NoRows
                       /\ b.aggregate[b.draw] = locked[b.draw]

BuildOK(b) ==
  /\ IsBuild(b)
  /\ b.pc = "looking" => b.draw \in Draws
  /\ b.pc = "building" /\ b.draw # AllDraws => MayLock(b)
  /\ b.pc = "locking" => Locking(b)
  /\ b.pc = "writing" => Writing(b)

OneBuild == \A c, x \in Callers : IsRunning(c) /\ IsRunning(x) => c = x

LedgerInv ==
  /\ IsFile(locked) /\ IsFile(aggregate)
  /\ build = [c \in Callers |-> build[c]]
  /\ \A c \in Callers : BuildOK(build[c])
  /\ OneBuild

-----------------------------------------------------------------------------
(* What a build plans after it looked or built. *)

(* A build that is not running relies on nothing. *)
LEMMA StoppedIsOK ==
  BuildOK(Idle) /\ BuildOK(Done) /\ Idle.pc = "idle" /\ Done.pc = "done"
<1>1. IsFile(NoFile)
  BY DEF IsFile, NoFile
<1>2. ASSUME NEW pc \in {"idle", "done"} PROVE BuildOK(NotRunning(pc))
  BY <1>1 DEF BuildOK, IsBuild, NotRunning, AllDraws
<1>3. Idle.pc = "idle" /\ Done.pc = "done"
  BY DEF Idle, Done, NotRunning
<1>4. QED BY <1>2, <1>3 DEF Idle, Done

(* Looking finds the locked file, a row to lock, or nothing. *)
LEMMA PreservedIsOK ==
  ASSUME NEW b, BuildOK(b), b.pc = "looking", IsFile(locked), IsFile(aggregate)
  PROVE  /\ BuildOK(Preserved(b))
         /\ Preserved(b).pc = "done" =>
              locked[b.draw] # NoRows /\ aggregate[b.draw] = locked[b.draw]
<1>1. /\ IsBuild(b) /\ b.draw \in Draws /\ b.draw # AllDraws
  BY DrawLedgerAssumption DEF BuildOK, AllDraws
<1>2. CASE locked[b.draw] # NoRows
  <2>1. CASE aggregate[b.draw] = locked[b.draw]
    BY <1>2, <2>1, StoppedIsOK DEF Preserved, RestoreFromLock, Planned
  <2>2. CASE aggregate[b.draw] # locked[b.draw]
    <3> DEFINE agg == [aggregate EXCEPT ![b.draw] = locked[b.draw]]
    <3>1. IsFile(agg) /\ agg[b.draw] = locked[b.draw]
      BY <1>1 DEF IsFile
    <3> HIDE DEF agg
    <3>2. Preserved(b) = [b EXCEPT !.pc = "writing", !.writes = {"aggregate"},
                                   !.lock = NoRows, !.aggregate = agg]
      BY <1>2, <2>2 DEF Preserved, RestoreFromLock, Planned, agg
    <3>3. QED
      BY <1>1, <1>2, <3>1, <3>2 DEF BuildOK, IsBuild, Writing
  <2>3. QED BY <2>1, <2>2
<1>3. CASE locked[b.draw] = NoRows /\ aggregate[b.draw] # NoRows
  <2>1. Preserved(b) = [b EXCEPT !.pc = "locking", !.writes = {"lock"},
                                 !.lock = aggregate[b.draw], !.aggregate = NoFile]
    BY <1>3 DEF Preserved, LockWhatIsThere, Planned
  <2>2. IsFile(NoFile)
    BY DEF IsFile, NoFile
  <2>3. QED
    BY <1>1, <1>3, <2>1, <2>2 DEF BuildOK, IsBuild, Locking, MayLock
<1>4. CASE locked[b.draw] = NoRows /\ aggregate[b.draw] = NoRows
  <2>1. Preserved(b) = [b EXCEPT !.pc = "building"]
    BY <1>4 DEF Preserved
  <2>2. QED
    BY <1>1, <1>4, <2>1 DEF BuildOK, IsBuild, MayLock
<1>5. QED BY <1>2, <1>3, <1>4

-----------------------------------------------------------------------------
(* The inductive invariant. *)

(* A step of one caller's build keeps what all builds rely on, if it keeps *)
(* the files and the other builds, and its own is sound afterwards.        *)
LEMMA OwnStep ==
  ASSUME LedgerInv, NEW c \in Callers, NEW b, BuildOK(b),
         build' = [build EXCEPT ![c] = b], UNCHANGED fileVars,
         b.pc \in {"idle", "done"}
         \/ IsRunning(c) \/ (\A x \in Callers : ~IsRunning(x))
  PROVE  LedgerInv' /\ build'[c] = b
<1>1. /\ build' = [x \in Callers |-> build'[x]]
      /\ build'[c] = b
      /\ \A x \in Callers : x # c => build'[x] = build[x]
  BY DEF LedgerInv
<1>2. \A x : BuildOK(x) => BuildOK(x)'
  BY DEF fileVars, BuildOK, IsBuild, IsFile, MayLock, Locking, Writing
<1>3. ASSUME NEW x \in Callers PROVE BuildOK(build[x])'
  BY <1>1, <1>2 DEF LedgerInv
<1>4. OneBuild'
  BY <1>1 DEF LedgerInv, OneBuild, IsRunning
<1>5. IsFile(locked)' /\ IsFile(aggregate)'
  BY DEF LedgerInv, IsFile, fileVars
<1>6. QED BY <1>1, <1>3, <1>4, <1>5 DEF LedgerInv

-----------------------------------------------------------------------------
(* The actions. *)

LEMMA InitHolds ==
  Init => LedgerInv
<1> SUFFICES ASSUME Init PROVE LedgerInv
  OBVIOUS
<1>1. IsFile(locked) /\ IsFile(aggregate)
  BY DEF Init, IsFile, NoFile
<1>2. \A c \in Callers : BuildOK(build[c]) /\ ~IsRunning(c)
  BY StoppedIsOK DEF Init, IsRunning
<1>3. build = [c \in Callers |-> build[c]]
  BY DEF Init
<1>4. QED BY <1>1, <1>2, <1>3 DEF LedgerInv, OneBuild

(* Nobody starts a build beside a running one. *)
LEMMA StartHolds ==
  ASSUME LedgerInv, Overlap = FALSE, NEW c \in Callers, MayStart(c),
         NEW b, BuildOK(b), build' = [build EXCEPT ![c] = b], UNCHANGED fileVars
  PROVE  LedgerInv' /\ build'[c] = b
<1>1. \A x \in Callers : ~IsRunning(x)
  BY DEF MayStart
<1>2. QED BY <1>1, OwnStep

LEMMA ServerStartHolds ==
  ASSUME LedgerInv, Overlap = FALSE, NEW d \in Draws, ServerStarts(d)
  PROVE  LedgerInv' /\ build'["server"].pc = "looking"
<1>1. PICK new : new = [Idle EXCEPT !.pc = "looking", !.draw = d]
  OBVIOUS
<1>2. PICK old : old = Idle /\ IsBuild(old)
  BY StoppedIsOK DEF BuildOK
<1>3. new = [old EXCEPT !.pc = "looking", !.draw = d, !.replace = old.replace]
  BY <1>1, <1>2 DEF IsBuild
<1>4. BuildOK(new) /\ new.pc = "looking"
  <2>1. IsBuild(new) /\ new.pc = "looking" /\ new.draw = d
    <3>1. new = [pc |-> "looking", draw |-> d, replace |-> old.replace,
                 lock |-> old.lock, aggregate |-> old.aggregate, writes |-> old.writes]
      BY <1>2, <1>3 DEF IsBuild
    <3>2. QED BY <1>2, <3>1 DEF IsBuild
  <2>2. QED BY <2>1 DEF BuildOK
<1>5. /\ "server" \in Callers /\ MayStart("server") /\ UNCHANGED fileVars
      /\ build' = [build EXCEPT !["server"] = new]
  BY <1>1 DEF ServerStarts
<1>6. QED BY <1>4, <1>5, StartHolds

LEMMA ShellStartHolds ==
  ASSUME LedgerInv, Overlap = FALSE, NEW d \in Draws \cup {AllDraws},
         NEW replace \in BOOLEAN, ShellStarts(d, replace)
  PROVE  LedgerInv' /\ build'["shell"].pc \in {"looking", "building"}
<1>1. PICK pc : pc = IF d = AllDraws \/ replace THEN "building" ELSE "looking"
  OBVIOUS
<1>2. PICK new : new = [Idle EXCEPT !.pc = pc, !.draw = d, !.replace = replace]
  OBVIOUS
<1>3. PICK old : old = Idle /\ IsBuild(old)
  BY StoppedIsOK DEF BuildOK
<1>4. /\ pc \in {"looking", "building"}
      /\ d = AllDraws \/ pc = "looking" \/ replace
      /\ pc = "looking" => d \in Draws
  BY <1>1
<1>5. BuildOK(new) /\ new.pc = pc
  <2>1. IsBuild(new) /\ new.pc = pc /\ new.draw = d /\ new.replace = replace
    <3>1. new = [old EXCEPT !.pc = pc, !.draw = d, !.replace = replace]
      BY <1>2, <1>3
    <3>2. new = [pc |-> pc, draw |-> d, replace |-> replace,
                 lock |-> old.lock, aggregate |-> old.aggregate, writes |-> old.writes]
      BY <1>3, <3>1 DEF IsBuild
    <3>3. QED BY <1>3, <1>4, <3>2 DEF IsBuild
  <2>2. QED BY <1>4, <2>1 DEF BuildOK, MayLock
<1>6. /\ "shell" \in Callers /\ MayStart("shell") /\ UNCHANGED fileVars
      /\ build' = [build EXCEPT !["shell"] = new]
  BY <1>1, <1>2 DEF ShellStarts
<1>7. QED BY <1>4, <1>5, <1>6, StartHolds

LEMMA LookHolds ==
  ASSUME LedgerInv, NEW c \in Callers, Look(c)
  PROVE  /\ LedgerInv'
         /\ build'[c] = Preserved(build[c])
<1>1. BuildOK(build[c]) /\ IsFile(locked) /\ IsFile(aggregate)
  BY DEF LedgerInv
<1>2. BuildOK(Preserved(build[c]))
  BY <1>1, PreservedIsOK DEF Look
<1>3. IsRunning(c)
  BY DEF Look, IsRunning
<1>4. build' = [build EXCEPT ![c] = Preserved(build[c])] /\ UNCHANGED fileVars
  BY DEF Look
<1>5. QED BY <1>2, <1>3, <1>4, OwnStep

(* The rows are merged into the aggregate as it is after the build. *)
LEMMA BuildDrawHolds ==
  ASSUME LedgerInv, NEW c \in Callers, BuildDraw(c)
  PROVE  LedgerInv' /\ build'[c].pc # "done"
<1> DEFINE b == build[c]
           rows == RowsOf(SourceOf[b.draw])
           agg == [aggregate EXCEPT ![b.draw] = rows]
           there == LockWhatIsThere(b)
           built == Planned(b, {"lock", "aggregate"}, rows, agg)
<1>1. BuildOK(b) /\ IsBuild(b) /\ b.draw \in Draws /\ b.pc = "building" /\ MayLock(b)
  BY DEF LedgerInv, BuildOK, IsBuild, BuildDraw
<1>2. rows # NoRows
  BY DEF BuildDraw, Buildable
<1>3. IsFile(agg) /\ agg[b.draw] = rows
  BY <1>1 DEF LedgerInv, IsFile
<1>4. IsFile(NoFile)
  BY DEF IsFile, NoFile
<1>5. IsRunning(c) /\ UNCHANGED fileVars
  BY DEF BuildDraw, IsRunning
<1>6. build' = [build EXCEPT ![c] =
                  IF aggregate[b.draw] # NoRows /\ ~b.replace THEN there ELSE built]
  BY DEF BuildDraw
<1> HIDE DEF rows, agg
<1>7. built = [b EXCEPT !.pc = "locking", !.writes = {"lock", "aggregate"},
                        !.lock = rows, !.aggregate = agg]
  BY DEF Planned
<1>8. BuildOK(built) /\ built.pc = "locking"
  BY <1>1, <1>2, <1>3, <1>7 DEF BuildOK, IsBuild, Locking, MayLock
<1>9. there = [b EXCEPT !.pc = "locking", !.writes = {"lock"},
                        !.lock = aggregate[b.draw], !.aggregate = NoFile]
  BY DEF LockWhatIsThere, Planned
<1>10. aggregate[b.draw] # NoRows => BuildOK(there) /\ there.pc = "locking"
  BY <1>1, <1>4, <1>9 DEF BuildOK, IsBuild, Locking, MayLock
<1>11. QED
  <2> DEFINE next == IF aggregate[b.draw] # NoRows /\ ~b.replace THEN there ELSE built
  <2>1. BuildOK(next) /\ next.pc = "locking"
    BY <1>8, <1>10
  <2> HIDE DEF next, b, there, built
  <2>2. build' = [build EXCEPT ![c] = next]
    BY <1>6 DEF next
  <2>3. LedgerInv' /\ build'[c] = next
    BY <2>1, <2>2, <1>5, OwnStep
  <2>4. QED BY <2>1, <2>3

LEMMA BuildAllHolds ==
  ASSUME LedgerInv, NEW c \in Callers, BuildAll(c)
  PROVE  LedgerInv' /\ build'[c].pc # "done"
<1> DEFINE b == build[c]
           rows == [d \in Draws |-> IF IsBase(d) THEN RowsOf(SourceOf[d]) ELSE NoRows]
           next == Planned(b, {"aggregate"}, NoRows, rows)
<1>1. IsBuild(b) /\ b.draw = AllDraws
  BY DEF LedgerInv, BuildOK, BuildAll
<1>2. IsFile(rows)
  BY DEF IsFile
<1>3. build' = [build EXCEPT ![c] = next] /\ IsRunning(c) /\ UNCHANGED fileVars
  BY DEF BuildAll, IsRunning
<1> HIDE DEF rows
<1>4. next = [b EXCEPT !.pc = "writing", !.writes = {"aggregate"},
                       !.lock = NoRows, !.aggregate = rows]
  BY DEF Planned
<1>5. BuildOK(next) /\ next.pc = "writing"
  BY <1>1, <1>2, <1>4 DEF BuildOK, IsBuild, Writing
<1> HIDE DEF next
<1>6. LedgerInv' /\ build'[c] = next
  BY <1>3, <1>5, OwnStep
<1>7. QED BY <1>5, <1>6

LEMMA BuildEndsHolds ==
  ASSUME LedgerInv, NEW c \in Callers, BuildFails(c) \/ Kill(c)
  PROVE  LedgerInv' /\ build'[c] = Idle
<1>1. build' = [build EXCEPT ![c] = Idle] /\ UNCHANGED fileVars
  BY DEF BuildFails, Kill
<1>2. QED BY <1>1, StoppedIsOK, OwnStep

(* Only the build that writes relies on the files it changes. *)
LEMMA WriteLockHolds ==
  ASSUME LedgerInv, NEW c \in Callers, WriteLock(c)
  PROVE  /\ LedgerInv'
         /\ MayLock(build[c]) /\ build[c].draw \in Draws
         /\ \A d \in Draws : d # build[c].draw => locked'[d] = locked[d]
         /\ build'[c].pc = "done" =>
              /\ locked'[build[c].draw] # NoRows
              /\ aggregate'[build[c].draw] = locked'[build[c].draw]
<1>1. PICK b : b = build[c] /\ BuildOK(b) /\ b.pc = "locking" /\ Locking(b)
  BY DEF LedgerInv, BuildOK, WriteLock
<1>2. /\ IsFile(locked)'
      /\ locked'[b.draw] = b.lock
      /\ \A d \in Draws : d # b.draw => locked'[d] = locked[d]
      /\ aggregate' = aggregate
  BY <1>1 DEF LedgerInv, IsFile, Locking, WriteLock
<1>3. PICK new : new = IF "aggregate" \in b.writes THEN [b EXCEPT !.pc = "writing"] ELSE Done
  OBVIOUS
<1>4. build' = [build EXCEPT ![c] = new] /\ build'[c] = new
  BY <1>1, <1>3 DEF LedgerInv, WriteLock
<1>5. BuildOK(new)' /\ (new.pc = "done" => aggregate[b.draw] = b.lock)
  <2>1. CASE "aggregate" \in b.writes
    <3>1. new = [b EXCEPT !.pc = "writing"]
      BY <1>3, <2>1
    <3>2. IsBuild(new) /\ new.pc = "writing" /\ new.draw = b.draw /\ new.aggregate = b.aggregate
      BY <1>1, <3>1 DEF BuildOK, IsBuild
    <3>3. Writing(new)'
      BY <1>1, <1>2, <2>1, <3>2 DEF Locking, Writing
    <3>4. QED BY <3>2, <3>3 DEF BuildOK, IsBuild, IsFile
  <2>2. CASE "aggregate" \notin b.writes
    <3>1. new = Done
      BY <1>3, <2>2
    <3>2. BuildOK(new)'
      BY <3>1, StoppedIsOK DEF BuildOK, IsBuild, IsFile
    <3>3. QED BY <1>1, <2>2, <3>2 DEF Locking
  <2>3. QED BY <2>1, <2>2
<1>6. \A x \in Callers : x # c => build'[x] = build[x] /\ ~IsRunning(x)
  BY <1>1, <1>4 DEF LedgerInv, OneBuild, IsRunning
<1>7. ASSUME NEW x \in Callers PROVE BuildOK(build[x])'
  BY <1>4, <1>5, <1>6 DEF LedgerInv, BuildOK, IsBuild, IsFile, IsRunning
<1>8. OneBuild'
  BY <1>6 DEF OneBuild, IsRunning
<1>9. LedgerInv'
  BY <1>2, <1>4, <1>7, <1>8 DEF LedgerInv, IsFile
<1>10. QED BY <1>1, <1>2, <1>4, <1>5, <1>9 DEF Locking

LEMMA WriteAggregateHolds ==
  ASSUME LedgerInv, NEW c \in Callers, WriteAggregate(c)
  PROVE  /\ LedgerInv' /\ locked' = locked
         /\ build[c].draw # AllDraws =>
              /\ locked'[build[c].draw] # NoRows
              /\ aggregate'[build[c].draw] = locked'[build[c].draw]
<1>1. /\ BuildOK(build[c]) /\ IsBuild(build[c]) /\ Writing(build[c])
      /\ build[c].pc = "writing"
  BY DEF LedgerInv, BuildOK, WriteAggregate
<1>2. locked' = locked /\ aggregate' = build[c].aggregate
  BY DEF WriteAggregate
<1>3. IsFile(locked)' /\ IsFile(aggregate)'
  BY <1>1, <1>2 DEF LedgerInv, IsBuild, IsFile
<1>4. build' = [build EXCEPT ![c] = Done] /\ build'[c] = Done
  BY DEF LedgerInv, WriteAggregate
<1>5. BuildOK(Done)'
  BY StoppedIsOK DEF BuildOK, IsBuild, IsFile
<1>6. \A x \in Callers : x # c => build'[x] = build[x] /\ ~IsRunning(x)
  BY <1>1, <1>4 DEF LedgerInv, OneBuild, IsRunning
<1>7. ASSUME NEW x \in Callers PROVE BuildOK(build[x])'
  BY <1>4, <1>5, <1>6 DEF LedgerInv, BuildOK, IsBuild, IsFile, IsRunning
<1>8. OneBuild'
  BY <1>4, <1>6, StoppedIsOK DEF OneBuild, IsRunning
<1>9. QED BY <1>1, <1>2, <1>3, <1>4, <1>7, <1>8 DEF LedgerInv, Writing

-----------------------------------------------------------------------------
(* Steps and theorems. *)

LockStays ==
  \A d \in Draws : locked[d] # NoRows /\ locked'[d] # locked[d]
     => \E c \in Callers : build[c].draw = d /\ build[c].replace

DoneOnFile ==
  \A c \in Callers :
     /\ IsRunning(c) /\ build'[c].pc = "done" /\ build[c].draw # AllDraws
     => /\ locked'[build[c].draw] # NoRows
        /\ aggregate'[build[c].draw] = locked'[build[c].draw]

(* Steps around the builds change neither files nor builds. *)
LEMMA OutsideHolds ==
  ASSUME LedgerInv, UNCHANGED <<fileVars, build>>
  PROVE  LedgerInv' /\ LockStays /\ DoneOnFile
<1>1. LedgerInv'
  BY DEF LedgerInv, IsFile, fileVars, BuildOK, IsBuild, MayLock, Locking, Writing,
         OneBuild, IsRunning
<1>2. LockStays
  BY DEF LockStays, fileVars
<1>3. DoneOnFile
  BY DEF DoneOnFile, IsRunning
<1>4. QED BY <1>1, <1>2, <1>3

(* A step of one build that leaves the files alone ends no other build. *)
LEMMA OnlyOwnEnds ==
  ASSUME NEW c \in Callers, \A x \in Callers : x # c => build'[x] = build[x],
         UNCHANGED fileVars, build'[c].pc # "done"
  PROVE  LockStays /\ DoneOnFile
<1>1. DoneOnFile
  BY DEF DoneOnFile, IsRunning
<1>2. QED BY <1>1 DEF LockStays, fileVars

LEMMA StepHolds ==
  ASSUME LedgerInv, Overlap = FALSE, [Next]_vars
  PROVE  LedgerInv' /\ LockStays /\ DoneOnFile
<1>1. ASSUME NEW d \in Draws, ServerStarts(d)
      PROVE  LedgerInv' /\ LockStays /\ DoneOnFile
  <2>1. /\ "server" \in Callers /\ UNCHANGED fileVars
        /\ \A x \in Callers : x # "server" => build'[x] = build[x]
    BY <1>1 DEF ServerStarts, LedgerInv
  <2>2. LedgerInv' /\ build'["server"].pc = "looking"
    BY <1>1, ServerStartHolds
  <2>3. QED BY <2>1, <2>2, OnlyOwnEnds
<1>2. ASSUME NEW d \in Draws \cup {AllDraws}, NEW replace \in BOOLEAN, ShellStarts(d, replace)
      PROVE  LedgerInv' /\ LockStays /\ DoneOnFile
  <2>1. /\ "shell" \in Callers /\ UNCHANGED fileVars
        /\ \A x \in Callers : x # "shell" => build'[x] = build[x]
    BY <1>2 DEF ShellStarts, LedgerInv
  <2>2. LedgerInv' /\ build'["shell"].pc \in {"looking", "building"}
    BY <1>2, ShellStartHolds
  <2>3. QED BY <2>1, <2>2, OnlyOwnEnds
<1>3. ASSUME NEW c \in Callers, Look(c)
      PROVE  LedgerInv' /\ LockStays /\ DoneOnFile
  <2>1. /\ UNCHANGED fileVars /\ build[c].pc = "looking"
        /\ \A x \in Callers : x # c => build'[x] = build[x]
    BY <1>3 DEF Look, LedgerInv
  <2>2. LedgerInv' /\ build'[c] = Preserved(build[c])
    BY <1>3, LookHolds
  <2>3. PICK b : b = build[c] /\ BuildOK(b) /\ b.pc = "looking"
    BY <2>1 DEF LedgerInv
  <2>4. Preserved(b).pc = "done" => locked[b.draw] # NoRows /\ aggregate[b.draw] = locked[b.draw]
    BY <2>3, PreservedIsOK DEF LedgerInv
  <2>5. DoneOnFile
    BY <2>1, <2>2, <2>3, <2>4 DEF DoneOnFile, IsRunning, fileVars
  <2>6. LockStays
    BY <2>1 DEF LockStays, fileVars
  <2>7. QED BY <2>2, <2>5, <2>6
<1>4. ASSUME NEW c \in Callers, BuildDraw(c) \/ BuildAll(c)
      PROVE  LedgerInv' /\ LockStays /\ DoneOnFile
  <2>1. UNCHANGED fileVars /\ \A x \in Callers : x # c => build'[x] = build[x]
    BY <1>4 DEF BuildDraw, BuildAll, LedgerInv
  <2>2. LedgerInv' /\ build'[c].pc # "done"
    BY <1>4, BuildDrawHolds, BuildAllHolds
  <2>3. QED BY <2>1, <2>2, OnlyOwnEnds
<1>5. ASSUME NEW c \in Callers, BuildFails(c) \/ Kill(c)
      PROVE  LedgerInv' /\ LockStays /\ DoneOnFile
  <2>1. UNCHANGED fileVars /\ \A x \in Callers : x # c => build'[x] = build[x]
    BY <1>5 DEF BuildFails, Kill, LedgerInv
  <2>2. LedgerInv' /\ build'[c].pc # "done"
    BY <1>5, BuildEndsHolds, StoppedIsOK
  <2>3. QED BY <2>1, <2>2, OnlyOwnEnds
<1>6. ASSUME NEW c \in Callers, WriteLock(c)
      PROVE  LedgerInv' /\ LockStays /\ DoneOnFile
  <2>1. \A x \in Callers : x # c => build'[x] = build[x] /\ ~IsRunning(x)
    BY <1>6 DEF WriteLock, LedgerInv, OneBuild, IsRunning
  <2>2. LockStays
    BY <1>6, WriteLockHolds DEF LockStays, MayLock
  <2>3. DoneOnFile
    BY <1>6, <2>1, WriteLockHolds DEF DoneOnFile
  <2>4. QED BY <1>6, <2>2, <2>3, WriteLockHolds
<1>7. ASSUME NEW c \in Callers, WriteAggregate(c)
      PROVE  LedgerInv' /\ LockStays /\ DoneOnFile
  <2>1. \A x \in Callers : x # c => build'[x] = build[x] /\ ~IsRunning(x)
    BY <1>7 DEF WriteAggregate, LedgerInv, OneBuild, IsRunning
  <2>2. LockStays
    BY <1>7 DEF LockStays, WriteAggregate
  <2>3. DoneOnFile
    BY <1>7, <2>1, WriteAggregateHolds DEF DoneOnFile
  <2>4. QED BY <1>7, <2>2, <2>3, WriteAggregateHolds
<1>8. ASSUME NEW b \in Ballots, PlaceVote(b)
      PROVE  LedgerInv' /\ LockStays /\ DoneOnFile
  BY <1>8, OutsideHolds DEF PlaceVote
<1>9. ASSUME NEW m \in Matches, Correct(m) \/ \E team \in Teams : Decide(m, team)
      PROVE  LedgerInv' /\ LockStays /\ DoneOnFile
  BY <1>9, OutsideHolds DEF Correct, Decide
<1>10. CASE SyncResults
  BY <1>10, OutsideHolds DEF SyncResults
<1>11. CASE UNCHANGED vars
  BY <1>11, OutsideHolds DEF vars
<1>12. QED
  BY <1>1, <1>2, <1>3, <1>4, <1>5, <1>6, <1>7, <1>8, <1>9, <1>10, <1>11 DEF Next, AllDraws

(* The files keep their shape, and a build relies only on what is so,      *)
(* whatever votes, results and kills do between its steps                  *)
(* (build-match-draw-ledger.mjs: looks, builds, writes the lock, writes    *)
(* the aggregate).                                                         *)
THEOREM LedgerCorrect ==
  ASSUME Overlap = FALSE
  PROVE  Spec => []LedgerInv
<1>1. LedgerInv /\ [Next]_vars => LedgerInv'
  BY StepHolds
<1>2. QED BY InitHolds, <1>1, PTL DEF Spec

(* A locked file changes only by a build told to replace it, for any       *)
(* number of rounds, draws, votes, corrections and kills.                  *)
THEOREM LocksCorrect ==
  ASSUME Overlap = FALSE
  PROVE  Spec => LockedRoundsStay
<1>1. LedgerInv /\ [Next]_vars => LockStays
  BY StepHolds
<1>2. QED BY LedgerCorrect, <1>1, PTL DEF Spec, LockedRoundsStay, LockStays

(* A build for one draw that ends well leaves the same rows in both files, *)
(* also after builds that were killed between the two writes.              *)
THEOREM DoneCorrect ==
  ASSUME Overlap = FALSE
  PROVE  Spec => DoneMeansOnFile
<1>1. LedgerInv /\ [Next]_vars => DoneOnFile
  BY StepHolds
<1>2. QED BY LedgerCorrect, <1>1, PTL DEF Spec, DoneMeansOnFile, DoneOnFile

-----------------------------------------------------------------------------
(* The entries of a pool, one allocation after another. *)

(* One more allocation of all rounds. *)
Enter(m, team, entries, b) ==
  IF b.match = m /\ b.team = team THEN Extend(entries, b) ELSE entries

(* The fold of EntriesFor takes away the latest allocation each time. *)
Runs(h, v, m, team) ==
  h = [T \in SUBSET DOMAIN v |->
         IF T = {} THEN <<>> ELSE Enter(m, team, h[T \ {Max(T)}], v[Max(T)])]

(* The entries are the value of such a function for all allocations. *)
LEMMA EntriesRun ==
  \A m, team : EntriesFor(m, team) = (CHOOSE h : Runs(h, votes, m, team))[DOMAIN votes]
BY DEF EntriesFor, FoldLeft, MapThenFoldSet, Runs, Enter

(* One step deeper into the fold. *)
Later(F, v, m, team) ==
  [T \in SUBSET DOMAIN v |->
     IF T = {} THEN <<>> ELSE Enter(m, team, F[T \ {Max(T)}], v[Max(T)])]

(* Folds to depth n. *)
RunsUpto(F, n, v, m, team) ==
  \A T \in SUBSET DOMAIN v : Cardinality(T) =< n =>
    F[T] = IF T = {} THEN <<>> ELSE Enter(m, team, F[T \ {Max(T)}], v[Max(T)])

(* The parts of the allocations are finite, and one less without their latest. *)
LEMMA LessWithout ==
  ASSUME NEW v, NEW k \in Nat, DOMAIN v = 1..k, NEW T \in SUBSET DOMAIN v
  PROVE  /\ IsFiniteSet(T) /\ Cardinality(T) \in Nat /\ Cardinality(T) =< k
         /\ T # {} => /\ Max(T) \in T
                      /\ T \ {Max(T)} \in SUBSET DOMAIN v
                      /\ Cardinality(T \ {Max(T)}) = Cardinality(T) - 1
<1>1. IsFiniteSet(1..k) /\ Cardinality(1..k) = k
  BY FS_Interval
<1>2. IsFiniteSet(T) /\ Cardinality(T) =< k
  BY <1>1, FS_Subset
<1>3. Cardinality(T) \in Nat
  BY <1>2, FS_CardinalityType
<1>4. ASSUME T # {} PROVE Max(T) \in T
  BY <1>4, MaxIsIn
<1>5. QED BY <1>2, <1>3, <1>4, FS_RemoveElement

(* Any sequence can be folded. *)
LEMMA RunsExist ==
  ASSUME NEW v, NEW k \in Nat, DOMAIN v = 1..k, NEW m, NEW team
  PROVE  \E h : Runs(h, v, m, team)
<1> DEFINE D == {n \in Nat : \E F : RunsUpto(F, n, v, m, team)}
<1>1. 0 \in D
  <2> DEFINE F == [T \in SUBSET DOMAIN v |-> <<>>]
  <2>1. \A T \in SUBSET DOMAIN v : Cardinality(T) =< 0 => T = {}
    <3> SUFFICES ASSUME NEW T \in SUBSET DOMAIN v, Cardinality(T) =< 0 PROVE T = {}
      OBVIOUS
    <3>1. IsFiniteSet(T) /\ Cardinality(T) \in Nat
      BY LessWithout
    <3>2. Cardinality(T) = 0
      BY <3>1
    <3>3. QED BY <3>1, <3>2, FS_EmptySet
  <2>2. RunsUpto(F, 0, v, m, team)
    BY <2>1 DEF RunsUpto
  <2>3. QED BY <2>2
<1>2. ASSUME NEW n \in D PROVE n + 1 \in D
  <2>1. PICK F : RunsUpto(F, n, v, m, team)
    BY <1>2
  <2> DEFINE H == Later(F, v, m, team)
  <2>2. \A T \in SUBSET DOMAIN v :
          H[T] = IF T = {} THEN <<>> ELSE Enter(m, team, F[T \ {Max(T)}], v[Max(T)])
    BY DEF Later
  <2> HIDE DEF H
  <2>3. ASSUME NEW T \in SUBSET DOMAIN v, Cardinality(T) =< n PROVE H[T] = F[T]
    BY <2>1, <2>2, <2>3 DEF RunsUpto
  <2>4. ASSUME NEW T \in SUBSET DOMAIN v, Cardinality(T) =< n + 1, T # {}
        PROVE  H[T \ {Max(T)}] = F[T \ {Max(T)}]
    <3> DEFINE U == T \ {Max(T)}
    <3>1. U \in SUBSET DOMAIN v /\ Cardinality(U) = Cardinality(T) - 1 /\ Cardinality(T) \in Nat
      BY <2>4, LessWithout
    <3>2. Cardinality(U) =< n
      BY <2>4, <3>1
    <3> HIDE DEF U
    <3>3. H[U] = F[U]
      BY <2>3, <3>1, <3>2
    <3>4. QED BY <3>3 DEF U
  <2>5. RunsUpto(H, n + 1, v, m, team)
    BY <2>2, <2>4 DEF RunsUpto
  <2>6. QED BY <2>5
<1>3. D = Nat
  <2>1. D \in SUBSET Nat
    OBVIOUS
  <2> HIDE DEF D
  <2>2. QED BY <1>1, <1>2, <2>1, NatInd
<1>4. PICK F : RunsUpto(F, k, v, m, team)
  BY <1>3
<1>5. \A T \in SUBSET DOMAIN v :
        F[T] = IF T = {} THEN <<>> ELSE Enter(m, team, F[T \ {Max(T)}], v[Max(T)])
  BY <1>4, LessWithout DEF RunsUpto
<1>6. Runs(Later(F, v, m, team), v, m, team)
  <2> DEFINE H == Later(F, v, m, team)
  <2>1. \A T \in SUBSET DOMAIN v : H[T] = F[T]
    BY <1>5 DEF Later
  <2>2. \A T \in SUBSET DOMAIN v : T # {} => T \ {Max(T)} \in SUBSET DOMAIN v
    BY LessWithout
  <2>3. QED BY <2>1, <2>2 DEF Runs, Later
<1>7. QED BY <1>6

(* What a fold does with the first allocations. *)
LEMMA RunsStep ==
  ASSUME NEW v, NEW k \in Nat, DOMAIN v = 1..k, NEW m, NEW team, NEW h, Runs(h, v, m, team)
  PROVE  /\ h[1..0] = <<>>
         /\ \A n \in 0..(k - 1) : h[1..(n + 1)] = Enter(m, team, h[1..n], v[n + 1])
<1>1. \A T \in SUBSET DOMAIN v :
        h[T] = IF T = {} THEN <<>> ELSE Enter(m, team, h[T \ {Max(T)}], v[Max(T)])
  BY Zenon DEF Runs
<1>2. h[1..0] = <<>>
  <2>1. 1..0 = {}
    OBVIOUS
  <2>2. {} \in SUBSET DOMAIN v
    OBVIOUS
  <2>3. h[{}] = <<>>
    BY <1>1, <2>2, Zenon
  <2>4. QED BY <2>1, <2>3
<1>3. ASSUME NEW n \in 0..(k - 1) PROVE h[1..(n + 1)] = Enter(m, team, h[1..n], v[n + 1])
  <2> DEFINE T == 1..(n + 1)
  <2>1. T \in SUBSET DOMAIN v /\ T \in SUBSET (1..k) /\ T # {} /\ n + 1 \in T
    OBVIOUS
  <2>2. Max(T) \in T /\ \A x \in T : Max(T) >= x
    BY <2>1, MaxIsIn
  <2>3. Max(T) = n + 1
    BY <2>2
  <2>4. T \ {n + 1} = 1..n
    OBVIOUS
  <2>5. h[T] = Enter(m, team, h[T \ {Max(T)}], v[Max(T)])
    BY <1>1, <2>1
  <2> HIDE DEF T
  <2>6. h[T] = Enter(m, team, h[1..n], v[n + 1])
    BY <2>3, <2>4, <2>5
  <2>7. QED BY <2>6 DEF T
<1>4. QED BY <1>2, <1>3
-----------------------------------------------------------------------------
(* Pools. *)

Holds(entry, t) == entry.first =< t /\ t =< entry.last

(* The tickets of a wallet. *)
Owned(entries, w) ==
  {t \in 1..LastTicket(entries) : \E i \in DOMAIN entries :
                                    entries[i].wallet = w /\ Holds(entries[i], t)}

(* The tickets of each allocation, and which of the first n a wallet has on
   one team of a match. *)
TicketsOf(v) == [i \in DOMAIN v |-> v[i].tickets]
PlacedUpto(n, v, m, team, w) ==
  {i \in 1..n : v[i].match = m /\ v[i].team = team /\ v[i].wallet = w}

Entries == Seq([wallet : Wallets, first : Nat, last : Nat])

(* Each ticket is in one entry. *)
Partition(entries) ==
  \A t \in 1..LastTicket(entries) :
    \E i \in DOMAIN entries :
      /\ Holds(entries[i], t)
      /\ \A j \in DOMAIN entries : Holds(entries[j], t) => j = i

InBounds(entries) ==
  \A i \in DOMAIN entries : 0 < entries[i].first /\ entries[i].last =< LastTicket(entries)

(* The entries of the first n allocations on one team of a match. *)
IsPool(entries, n, v, m, team) ==
  /\ entries \in Entries
  /\ InBounds(entries)
  /\ Partition(entries)
  /\ \A w \in Wallets : /\ IsFiniteSet(Owned(entries, w))
                         /\ Cardinality(Owned(entries, w))
                              = Sum(TicketsOf(v), PlacedUpto(n, v, m, team, w))

(* An entry of a pool is a record of numbers. *)
LEMMA EntryTyped ==
  ASSUME NEW e \in Entries, NEW i \in DOMAIN e
  PROVE  e[i].first \in Nat /\ e[i].last \in Nat /\ e[i].wallet \in Wallets
<1> DEFINE R == [wallet : Wallets, first : Nat, last : Nat]
<1>1. e \in Seq(R)
  BY DEF Entries
<1> HIDE DEF R
<1>2. e[i] \in R
  BY <1>1
<1>3. QED BY <1>2 DEF R

(* The last ticket of entries is a number. *)
LEMMA LastTyped == \A e \in Entries : LastTicket(e) \in Nat
<1> SUFFICES ASSUME NEW e \in Entries PROVE LastTicket(e) \in Nat
  OBVIOUS
<1>1. CASE e = <<>>
  BY <1>1 DEF LastTicket
<1>2. CASE e # <<>>
  <2>1. Len(e) \in DOMAIN e
    BY <1>2 DEF Entries
  <2>2. QED BY <1>2, <2>1, EntryTyped DEF LastTicket
<1>3. QED BY <1>1, <1>2

(* What one more allocation makes of the entries. *)
LEMMA ExtendIs ==
  ASSUME NEW e \in Entries, NEW b \in Ballots
  PROVE  /\ Extend(e, b) \in Entries
         /\ DOMAIN e = 1..Len(e) /\ Len(e) \in Nat
         /\ DOMAIN Extend(e, b) = 1..(Len(e) + 1)
         /\ \A i \in 1..Len(e) : Extend(e, b)[i] = e[i]
         /\ Extend(e, b)[Len(e) + 1] = [wallet |-> b.wallet, first |-> LastTicket(e) + 1,
                                       last |-> LastTicket(e) + b.tickets]
         /\ LastTicket(Extend(e, b)) = LastTicket(e) + b.tickets
<1>1. b.wallet \in Wallets /\ b.tickets \in Nat \ {0} /\ LastTicket(e) \in Nat
  BY LastTyped, DrawLedgerAssumption
<1> DEFINE x == [wallet |-> b.wallet, first |-> LastTicket(e) + 1,
                 last |-> LastTicket(e) + b.tickets]
<1>2. x \in [wallet : Wallets, first : Nat, last : Nat] /\ x.last = LastTicket(e) + b.tickets
  BY <1>1
<1>3. Extend(e, b) = Append(e, x)
  BY DEF Extend
<1> HIDE DEF x
<1>4. /\ Append(e, x) \in Entries
      /\ DOMAIN e = 1..Len(e) /\ Len(e) \in Nat
      /\ Len(Append(e, x)) = Len(e) + 1
      /\ DOMAIN Append(e, x) = 1..(Len(e) + 1)
      /\ \A i \in 1..Len(e) : Append(e, x)[i] = e[i]
      /\ Append(e, x)[Len(e) + 1] = x
  BY <1>2 DEF Entries
<1>5. Append(e, x) # <<>>
  <2>1. Len(Append(e, x)) # 0 /\ Len(<<>>) = 0
    BY <1>4
  <2>2. QED BY <2>1
<1>6. LastTicket(Append(e, x)) = x.last
  BY <1>4, <1>5 DEF LastTicket
<1>7. QED BY <1>2, <1>3, <1>4, <1>6 DEF x

(* A pool stays one when an allocation on its team joins it. *)
LEMMA ExtendPool ==
  ASSUME NEW v \in Seq(Ballots), NEW n \in 0..(Len(v) - 1), NEW m, NEW team, NEW e,
         IsPool(e, n, v, m, team), v[n + 1].match = m, v[n + 1].team = team
  PROVE  IsPool(Extend(e, v[n + 1]), n + 1, v, m, team)
<1> DEFINE b == v[n + 1]
           f == Extend(e, b)
           a == LastTicket(e)
           k == Len(e) + 1
<1>1. /\ b \in Ballots /\ e \in Entries
      /\ n + 1 \in DOMAIN v /\ DOMAIN v = 1..Len(v) /\ n \in Nat /\ Len(v) \in Nat
  BY DEF IsPool
<1>2. b.tickets \in Nat \ {0} /\ b.wallet \in Wallets /\ a \in Nat
  BY <1>1, LastTyped, DrawLedgerAssumption
<1>3. /\ f \in Entries /\ DOMAIN e = 1..Len(e) /\ Len(e) \in Nat /\ DOMAIN f = 1..k
      /\ \A i \in 1..Len(e) : f[i] = e[i]
      /\ f[k].wallet = b.wallet /\ f[k].first = a + 1 /\ f[k].last = a + b.tickets
      /\ LastTicket(f) = a + b.tickets
  <2>1. /\ f \in Entries /\ DOMAIN e = 1..Len(e) /\ Len(e) \in Nat /\ DOMAIN f = 1..k
        /\ \A i \in 1..Len(e) : f[i] = e[i]
        /\ f[k] = [wallet |-> b.wallet, first |-> a + 1, last |-> a + b.tickets]
        /\ LastTicket(f) = a + b.tickets
    BY <1>1, ExtendIs
  <2> HIDE DEF f, a, k, b
  <2>2. QED BY <2>1
<1>4. \A i \in DOMAIN e : e[i].first \in Nat /\ e[i].last \in Nat /\ 0 < e[i].first /\ e[i].last =< a
  <2> SUFFICES ASSUME NEW i \in DOMAIN e
               PROVE  /\ e[i].first \in Nat /\ e[i].last \in Nat
                      /\ 0 < e[i].first /\ e[i].last =< a
    OBVIOUS
  <2>1. e[i].first \in Nat /\ e[i].last \in Nat
    BY <1>1, EntryTyped
  <2>2. 0 < e[i].first /\ e[i].last =< a
    BY DEF IsPool, InBounds
  <2>3. QED BY <2>1, <2>2
<1> HIDE DEF f, a
<1>5. InBounds(f)
  <2>1. ASSUME NEW i \in DOMAIN f PROVE 0 < f[i].first /\ f[i].last =< a + b.tickets
    <3>1. CASE i = k
      BY <1>2, <1>3, <3>1
    <3>2. CASE i \in DOMAIN e
      BY <1>2, <1>3, <1>4, <3>2
    <3>3. QED BY <1>3, <3>1, <3>2
  <2>2. QED BY <1>3, <2>1 DEF InBounds
<1>6. Partition(f)
  <2>1. ASSUME NEW t \in 1..(a + b.tickets), t =< a
        PROVE  \E i \in DOMAIN f : /\ Holds(f[i], t)
                                   /\ \A j \in DOMAIN f : Holds(f[j], t) => j = i
    <3>1. PICK i \in DOMAIN e : /\ Holds(e[i], t)
                               /\ \A j \in DOMAIN e : Holds(e[j], t) => j = i
      BY <1>2, <2>1 DEF IsPool, Partition, a
    <3>2. i \in DOMAIN f /\ Holds(f[i], t)
      BY <1>3, <3>1
    <3>3. ~Holds(f[k], t)
      BY <1>2, <1>3, <2>1 DEF Holds
    <3>4. \A j \in DOMAIN f : j # k => j \in DOMAIN e /\ f[j] = e[j]
      BY <1>3
    <3>5. \A j \in DOMAIN f : Holds(f[j], t) => j = i
      BY <3>1, <3>3, <3>4
    <3>6. QED BY <3>2, <3>5
  <2>2. ASSUME NEW t \in 1..(a + b.tickets), a < t
        PROVE  \E i \in DOMAIN f : /\ Holds(f[i], t)
                                   /\ \A j \in DOMAIN f : Holds(f[j], t) => j = i
    <3>1. k \in DOMAIN f /\ Holds(f[k], t)
      BY <1>2, <1>3, <2>2 DEF Holds
    <3>2. \A j \in DOMAIN f : j # k => j \in DOMAIN e /\ f[j] = e[j]
      BY <1>3
    <3>3. \A j \in DOMAIN e : ~Holds(e[j], t)
      BY <1>2, <1>4, <2>2 DEF Holds
    <3>4. QED BY <3>1, <3>2, <3>3
  <2>3. QED BY <1>2, <1>3, <2>1, <2>2 DEF Partition
<1>7. ASSUME NEW w \in Wallets
      PROVE  /\ IsFiniteSet(Owned(f, w))
             /\ Cardinality(Owned(f, w)) = Sum(TicketsOf(v), PlacedUpto(n + 1, v, m, team, w))
  <2> DEFINE P == PlacedUpto(n, v, m, team, w)
             R == PlacedUpto(n + 1, v, m, team, w)
             O == Owned(e, w)
  <2>1. IsFiniteSet(O) /\ Cardinality(O) = Sum(TicketsOf(v), P)
    BY DEF IsPool
  <2>2. \A t \in 1..(a + b.tickets) :
          (\E i \in DOMAIN f : f[i].wallet = w /\ Holds(f[i], t))
            <=> \/ b.wallet = w /\ a < t
                \/ \E i \in DOMAIN e : e[i].wallet = w /\ Holds(e[i], t)
    <3> SUFFICES ASSUME NEW t \in 1..(a + b.tickets)
                 PROVE  (\E i \in DOMAIN f : f[i].wallet = w /\ Holds(f[i], t))
                          <=> \/ b.wallet = w /\ a < t
                              \/ \E i \in DOMAIN e : e[i].wallet = w /\ Holds(e[i], t)
      OBVIOUS
    <3>1. Holds(f[k], t) <=> a < t
      BY <1>2, <1>3 DEF Holds
    <3>2. k \in DOMAIN f /\ DOMAIN f = DOMAIN e \cup {k} /\ \A i \in DOMAIN e : f[i] = e[i]
      BY <1>3
    <3>3. QED BY <1>3, <3>1, <3>2
  <2>3. \A t : (\E i \in DOMAIN e : e[i].wallet = w /\ Holds(e[i], t)) /\ t \in Int
               => t \in 1..a
    BY <1>2, <1>4 DEF Holds
  <2>4. CASE b.wallet # w
    <3>1. Owned(f, w) = O
      <4>1. O = {t \in 1..a : \E i \in DOMAIN e : e[i].wallet = w /\ Holds(e[i], t)}
        BY DEF Owned, a
      <4>2. Owned(f, w) = {t \in 1..(a + b.tickets) :
                             \E i \in DOMAIN f : f[i].wallet = w /\ Holds(f[i], t)}
        BY <1>3 DEF Owned
      <4> HIDE DEF O
      <4>3. \A t \in 1..a : t \in 1..(a + b.tickets)
        BY <1>2
      <4>4. \A t \in 1..(a + b.tickets) : t \in Int
        OBVIOUS
      <4>5. \A t : t \in Owned(f, w) <=> t \in O
        BY <2>2, <2>3, <2>4, <4>1, <4>2, <4>3, <4>4, Zenon
      <4>6. QED BY <4>5, Zenon
    <3>2. R = P
      BY <1>1, <2>4 DEF PlacedUpto
    <3>3. QED BY <2>1, <3>1, <3>2
  <2>5. CASE b.wallet = w
    <3> DEFINE N == (a + 1)..(a + b.tickets)
    <3>1. Owned(f, w) = O \cup N
      <4>1. O = {t \in 1..a : \E i \in DOMAIN e : e[i].wallet = w /\ Holds(e[i], t)}
        BY DEF Owned, a
      <4>2. Owned(f, w) = {t \in 1..(a + b.tickets) :
                             \E i \in DOMAIN f : f[i].wallet = w /\ Holds(f[i], t)}
        BY <1>3 DEF Owned
      <4> HIDE DEF O
      <4>3. \A t \in 1..a : t \in 1..(a + b.tickets)
        BY <1>2
      <4>4. \A t \in 1..(a + b.tickets) : t \in Int /\ (t \in N <=> a < t)
        BY <1>2
      <4>5. \A t \in N : t \in 1..(a + b.tickets)
        BY <1>2
      <4> HIDE DEF N
      <4>6. \A t : t \in Owned(f, w) <=> t \in O \/ t \in N
        BY <2>2, <2>3, <2>5, <4>1, <4>2, <4>3, <4>4, <4>5, Zenon
      <4>7. QED BY <4>6
    <3>2. O \cap N = {}
      BY <1>2, <2>3 DEF Owned, a
    <3>3. IsFiniteSet(N) /\ Cardinality(N) = b.tickets
      <4>1. a + b.tickets \in Nat /\ a =< a + b.tickets /\ (a + b.tickets) - a = b.tickets
        BY <1>2
      <4>2. QED BY <1>2, <4>1, IntervalCount
    <3>4. R = P \cup {n + 1} /\ n + 1 \notin P /\ n + 1 \in R /\ R \ {n + 1} = P
      BY <1>1, <2>5 DEF PlacedUpto
    <3>5. IsFiniteSet(R) /\ \A i \in R : TicketsOf(v)[i] \in Nat
      <4>1. IsFiniteSet(1..(n + 1)) /\ R \subseteq 1..(n + 1)
        BY <1>1, FS_Interval DEF PlacedUpto
      <4>2. \A i \in R : i \in DOMAIN v /\ v[i] \in Ballots
        BY <1>1 DEF PlacedUpto
      <4>3. QED BY <4>1, <4>2, FS_Subset, DrawLedgerAssumption DEF TicketsOf
    <3> HIDE DEF N, O, P, R
    <3>6. Sum(TicketsOf(v), R) = Sum(TicketsOf(v), P) + TicketsOf(v)[n + 1]
      BY <3>4, <3>5, SumTakes
    <3>7. TicketsOf(v)[n + 1] = b.tickets
      BY <1>1 DEF TicketsOf
    <3>8. IsFiniteSet(O \cup N) /\ Cardinality(O \cup N) = Cardinality(O) + Cardinality(N)
      <4>1. Cardinality(O \cup N) = Cardinality(O) + Cardinality(N) - Cardinality(O \cap N)
        BY <2>1, <3>3, FS_Union
      <4>2. Cardinality(O \cap N) = 0
        BY <3>2, FS_EmptySet
      <4>3. Cardinality(O) \in Nat /\ Cardinality(N) \in Nat
        BY <2>1, <3>3, FS_CardinalityType
      <4>4. QED BY <2>1, <3>3, <4>1, <4>2, <4>3, FS_Union
    <3>9. QED BY <2>1, <3>1, <3>3, <3>6, <3>7, <3>8 DEF R
  <2>6. QED BY <2>4, <2>5
<1>8. QED BY <1>3, <1>5, <1>6, <1>7 DEF IsPool, f

(* The pool of the first 0 allocations is empty. *)
LEMMA EmptyPool ==
  \A v, m, team : IsPool(<<>>, 0, v, m, team)
<1> SUFFICES ASSUME NEW v, NEW m, NEW team PROVE IsPool(<<>>, 0, v, m, team)
  OBVIOUS
<1>1. <<>> \in Entries /\ LastTicket(<<>>) = 0 /\ DOMAIN <<>> = {}
  BY DEF Entries, LastTicket
<1>2. InBounds(<<>>) /\ Partition(<<>>)
  BY <1>1 DEF InBounds, Partition
<1>3. ASSUME NEW w \in Wallets
      PROVE  /\ IsFiniteSet(Owned(<<>>, w))
             /\ Cardinality(Owned(<<>>, w)) = Sum(TicketsOf(v), PlacedUpto(0, v, m, team, w))
  <2>1. Owned(<<>>, w) = {} /\ PlacedUpto(0, v, m, team, w) = {}
    BY <1>1 DEF Owned, PlacedUpto
  <2>2. Sum(TicketsOf(v), {}) = 0
    BY SumEmpty
  <2>3. IsFiniteSet({}) /\ Cardinality({}) = 0
    BY FS_EmptySet
  <2>4. QED BY <2>1, <2>2, <2>3
<1>4. QED BY <1>1, <1>2, <1>3 DEF IsPool

(* So is the pool of no match changed by an allocation on another. *)
LEMMA SkipPool ==
  ASSUME NEW v, NEW n \in Nat, NEW m, NEW team, NEW e, IsPool(e, n, v, m, team),
         ~(v[n + 1].match = m /\ v[n + 1].team = team)
  PROVE  IsPool(e, n + 1, v, m, team)
<1>1. ASSUME NEW w \in Wallets
      PROVE  PlacedUpto(n + 1, v, m, team, w) = PlacedUpto(n, v, m, team, w)
  BY DEF PlacedUpto
<1>2. QED BY <1>1 DEF IsPool

(* EntriesFor makes the pool of all allocations. *)
LEMMA EntriesArePool ==
  ASSUME votes \in Seq(Ballots), NEW m, NEW team
  PROVE  IsPool(EntriesFor(m, team), Len(votes), votes, m, team)
<1> DEFINE k == Len(votes)
           h == CHOOSE h : Runs(h, votes, m, team)
           D == {n \in Nat : n =< k => IsPool(h[1..n], n, votes, m, team)}
<1>1. k \in Nat /\ DOMAIN votes = 1..k
  OBVIOUS
<1>2. Runs(h, votes, m, team)
  BY <1>1, RunsExist
<1> HIDE DEF h
<1>3. /\ h[1..0] = <<>>
      /\ \A n \in 0..(k - 1) : h[1..(n + 1)] = Enter(m, team, h[1..n], votes[n + 1])
  BY <1>1, <1>2, RunsStep
<1>4. 0 \in D
  BY <1>3, EmptyPool
<1>5. ASSUME NEW n \in D PROVE n + 1 \in D
  <2> SUFFICES ASSUME n + 1 =< k PROVE IsPool(h[1..(n + 1)], n + 1, votes, m, team)
    OBVIOUS
  <2>1. n \in 0..(k - 1) /\ IsPool(h[1..n], n, votes, m, team)
    BY <1>1
  <2>2. CASE votes[n + 1].match = m /\ votes[n + 1].team = team
    <3>1. h[1..(n + 1)] = Extend(h[1..n], votes[n + 1])
      BY <1>3, <2>1, <2>2 DEF Enter
    <3>2. QED BY <2>1, <2>2, <3>1, ExtendPool
  <2>3. CASE ~(votes[n + 1].match = m /\ votes[n + 1].team = team)
    <3>1. h[1..(n + 1)] = h[1..n]
      BY <1>3, <2>1, <2>3 DEF Enter
    <3>2. QED BY <2>1, <2>3, <3>1, SkipPool
  <2>4. QED BY <2>2, <2>3
<1>6. D = Nat
  <2>1. D \in SUBSET Nat
    OBVIOUS
  <2> HIDE DEF D
  <2>2. QED BY <1>4, <1>5, <2>1, NatInd
<1>7. IsPool(h[1..k], k, votes, m, team)
  BY <1>1, <1>6
<1>8. EntriesFor(m, team) = h[1..k]
  BY <1>1, EntriesRun DEF h
<1>9. QED BY <1>7, <1>8

(* A pool stays the pool of all allocations when one comes in on another
   match. *)
LEMMA PoolStays ==
  ASSUME NEW v \in Seq(Ballots), NEW b \in Ballots, NEW m, NEW team, NEW e,
         IsPool(e, Len(v), v, m, team), b.match # m
  PROVE  IsPool(e, Len(Append(v, b)), Append(v, b), m, team)
<1> DEFINE u == Append(v, b)
           k == Len(v)
<1>1. /\ k \in Nat /\ Len(u) = k + 1 /\ DOMAIN v = 1..k /\ DOMAIN u = 1..(k + 1)
      /\ u[k + 1] = b /\ \A i \in 1..k : u[i] = v[i]
  OBVIOUS
<1> HIDE DEF u, k
<1>2. ASSUME NEW w \in Wallets
      PROVE  Sum(TicketsOf(u), PlacedUpto(k + 1, u, m, team, w))
               = Sum(TicketsOf(v), PlacedUpto(k, v, m, team, w))
  <2> DEFINE P == PlacedUpto(k, v, m, team, w)
  <2>1. PlacedUpto(k + 1, u, m, team, w) = P
    BY <1>1 DEF PlacedUpto
  <2>2. P \subseteq 1..k
    BY DEF PlacedUpto
  <2>3. IsFiniteSet(P)
    <3>1. IsFiniteSet(1..k)
      BY <1>1, FS_Interval
    <3>2. QED BY <2>2, <3>1, FS_Subset
  <2>4. \A i \in P : TicketsOf(v)[i] \in Nat /\ TicketsOf(v)[i] = TicketsOf(u)[i]
    <3> SUFFICES ASSUME NEW i \in P
                 PROVE  TicketsOf(v)[i] \in Nat /\ TicketsOf(v)[i] = TicketsOf(u)[i]
      OBVIOUS
    <3>1. i \in DOMAIN v /\ i \in DOMAIN u /\ u[i] = v[i] /\ v[i] \in Ballots
      BY <1>1, <2>2
    <3>2. QED BY <3>1, DrawLedgerAssumption DEF TicketsOf
  <2> HIDE DEF P
  <2>5. Sum(TicketsOf(v), P) = Sum(TicketsOf(u), P)
    BY <2>3, <2>4, SumSame
  <2>6. QED BY <2>1, <2>5 DEF P
<1>3. IsPool(e, k + 1, u, m, team)
  BY <1>2 DEF IsPool, k
<1>4. QED BY <1>1, <1>3 DEF u

-----------------------------------------------------------------------------
(* Rows on file and in the hands of a build. *)

RowOK(row, m) == IsPool(row.entries, Len(votes), votes, m, row.winner)

(* Pools of matches that have a result, so that no vote comes in any more. *)
RowsOK(rows) ==
  \A m \in DOMAIN rows : m \in Matches /\ official[m] # 0 /\ RowOK(rows[m], m)

FileOK(file) == file = [d \in Draws |-> file[d]] /\ \A d \in Draws : RowsOK(file[d])

(* What a build has in hand. *)
PlanOK(b) ==
  /\ b = [pc |-> b.pc, draw |-> b.draw, replace |-> b.replace,
          lock |-> b.lock, aggregate |-> b.aggregate, writes |-> b.writes]
  /\ b.draw \in Draws \cup {AllDraws}
  /\ b.pc = "looking" => b.draw \in Draws
  /\ RowsOK(b.lock) /\ FileOK(b.aggregate)

PoolsInv ==
  /\ votes \in Seq(Ballots)
  /\ official \in [Matches -> {0} \cup Teams]
  /\ results = [m \in Matches |-> results[m]]
  /\ \A m \in Matches : results[m] # 0 => official[m] # 0
  /\ FileOK(locked) /\ FileOK(aggregate)
  /\ build = [c \in Callers |-> build[c]]
  /\ \A c \in Callers : PlanOK(build[c])

(* The owners of a pool's tickets, as the runner finds them. *)
LEMMA OwnersOf ==
  ASSUME NEW row, NEW n, NEW v, NEW m, IsPool(row.entries, n, v, m, row.winner)
  PROVE  /\ \A t \in Tickets(row) : Cardinality(Owners(row, t)) = 1
         /\ \A w : {t \in Tickets(row) : w \in Owners(row, t)} = Owned(row.entries, w)
<1> DEFINE e == row.entries
<1>1. ASSUME NEW t \in Tickets(row) PROVE Cardinality(Owners(row, t)) = 1
  <2>1. PICK i \in DOMAIN e : /\ Holds(e[i], t)
                             /\ \A j \in DOMAIN e : Holds(e[j], t) => j = i
    BY DEF IsPool, Partition, Tickets
  <2>2. Owners(row, t) = {e[i].wallet}
    BY <2>1 DEF Owners, Holds
  <2>3. QED BY <2>2, FS_Singleton
<1>2. ASSUME NEW w PROVE {t \in Tickets(row) : w \in Owners(row, t)} = Owned(e, w)
  BY DEF Owners, Owned, Holds, Tickets
<1>3. QED BY <1>1, <1>2

(* So the invariant gives the property. *)
LEMMA PoolsInvIs == PoolsInv => PoolsAreTheVotes
<1> SUFFICES ASSUME PoolsInv, NEW d \in Draws, NEW m \in DOMAIN locked[d]
             PROVE  LET row == locked[d][m]
                    IN  /\ \A t \in Tickets(row) : Cardinality(Owners(row, t)) = 1
                        /\ \A w \in Wallets :
                             Cardinality({t \in Tickets(row) : w \in Owners(row, t)})
                               = SumFunctionOnSet([i \in DOMAIN votes |-> votes[i].tickets],
                                                  PlacedOn(m, row.winner, w))
  BY DEF PoolsAreTheVotes
<1> DEFINE row == locked[d][m]
<1>1. IsPool(row.entries, Len(votes), votes, m, row.winner)
  BY DEF PoolsInv, FileOK, RowsOK, RowOK
<1>2. DOMAIN votes = 1..Len(votes)
  BY DEF PoolsInv
<1> HIDE DEF row
<1>3. ASSUME NEW w \in Wallets
      PROVE  Cardinality(Owned(row.entries, w))
               = SumFunctionOnSet([i \in DOMAIN votes |-> votes[i].tickets],
                                  PlacedOn(m, row.winner, w))
  <2>1. PlacedOn(m, row.winner, w) = PlacedUpto(Len(votes), votes, m, row.winner, w)
    BY <1>2 DEF PlacedOn, PlacedUpto
  <2>2. Cardinality(Owned(row.entries, w))
          = Sum(TicketsOf(votes), PlacedUpto(Len(votes), votes, m, row.winner, w))
    BY <1>1 DEF IsPool
  <2>3. QED BY <2>1, <2>2 DEF Sum, TicketsOf
<1>4. QED BY <1>1, <1>3, OwnersOf DEF row

(* Rows that are sound stay so in the world's steps: a vote comes in on a
   match without a result, and no match loses its result at FIFA. *)
RowsStay == \A rows : RowsOK(rows) => RowsOK(rows)'

LEMMA VoteRowsStay ==
  ASSUME PoolsInv, NEW b \in Ballots, PlaceVote(b)
  PROVE  RowsStay
<1> SUFFICES ASSUME NEW rows, RowsOK(rows) PROVE RowsOK(rows)'
  BY DEF RowsStay
<1>1. votes \in Seq(Ballots) /\ votes' = Append(votes, b) /\ official' = official
      /\ official[b.match] = 0
  BY DEF PoolsInv, PlaceVote
<1>2. ASSUME NEW m \in DOMAIN rows
      PROVE  m \in Matches /\ official'[m] # 0 /\ RowOK(rows[m], m)'
  <2>1. m \in Matches /\ official[m] # 0 /\ b.match # m
        /\ IsPool(rows[m].entries, Len(votes), votes, m, rows[m].winner)
    BY <1>1 DEF RowsOK, RowOK
  <2>2. IsPool(rows[m].entries, Len(Append(votes, b)), Append(votes, b), m, rows[m].winner)
    BY <1>1, <2>1, PoolStays
  <2>3. IsPool(rows[m].entries, Len(votes'), votes', m, rows[m].winner)
    BY <1>1, <2>2
  <2>4. RowOK(rows[m], m)'
    BY <2>3 DEF RowOK
  <2>5. QED BY <1>1, <2>1, <2>4
<1>3. QED BY <1>2 DEF RowsOK

LEMMA ResultRowsStay ==
  ASSUME votes' = votes, \A m \in Matches : official[m] # 0 => official'[m] # 0
  PROVE  RowsStay
BY DEF RowsStay, RowsOK, RowOK

(* Files and plans that are kept stay sound with their rows. *)
LEMMA KeptStays ==
  ASSUME RowsStay
  PROVE  /\ \A file : FileOK(file) => FileOK(file)'
         /\ \A b : PlanOK(b) => PlanOK(b)'
<1>1. \A file : FileOK(file) => FileOK(file)'
  BY DEF RowsStay, FileOK
<1>2. \A b : PlanOK(b) => PlanOK(b)'
  BY <1>1 DEF RowsStay, PlanOK
<1>3. QED BY <1>1, <1>2

(* A step of the world keeps files and builds. *)
LEMMA WorldPools ==
  ASSUME PoolsInv, RowsStay, UNCHANGED <<fileVars, build>>,
         votes' \in Seq(Ballots), official' \in [Matches -> {0} \cup Teams],
         results' = [m \in Matches |-> results'[m]],
         \A m \in Matches : results'[m] # 0 => official'[m] # 0
  PROVE  PoolsInv'
<1>1. /\ FileOK(locked) /\ FileOK(aggregate)
      /\ build = [c \in Callers |-> build[c]]
      /\ \A c \in Callers : PlanOK(build[c])
  BY DEF PoolsInv
<1>2. locked' = locked /\ aggregate' = aggregate /\ build' = build
  BY DEF fileVars
<1>3. FileOK(locked)' /\ FileOK(aggregate)'
  BY <1>1, <1>2, KeptStays
<1>4. ASSUME NEW c \in Callers PROVE PlanOK(build[c])'
  BY <1>1, <1>2, KeptStays
<1>5. QED BY <1>1, <1>2, <1>3, <1>4 DEF PoolsInv

(* The rows of a round are sound when they are made. *)
LEMMA RowsOfOK == ASSUME PoolsInv, NEW round PROVE RowsOK(RowsOf(round))
<1>1. ASSUME NEW m \in DOMAIN RowsOf(round)
      PROVE  m \in Matches /\ official[m] # 0 /\ RowOK(RowsOf(round)[m], m)
  <2>1. /\ m \in Matches /\ results[m] # 0
        /\ RowsOf(round)[m] = [winner |-> results[m], entries |-> EntriesFor(m, results[m])]
    BY <1>1 DEF RowsOf
  <2>2. IsPool(EntriesFor(m, results[m]), Len(votes), votes, m, results[m])
    BY EntriesArePool DEF PoolsInv
  <2>3. QED BY <2>1, <2>2 DEF PoolsInv, RowOK
<1>2. QED BY <1>1 DEF RowsOK

(* Nothing is sound, and a build that is not running plans nothing. *)
LEMMA NothingOK ==
  RowsOK(NoRows) /\ FileOK(NoFile) /\ PlanOK(Idle) /\ PlanOK(Done)
<1>1. RowsOK(NoRows)
  BY DEF RowsOK, NoRows
<1>2. FileOK(NoFile)
  BY <1>1 DEF FileOK, NoFile
<1>3. ASSUME NEW pc \in {"idle", "done"} PROVE PlanOK(NotRunning(pc))
  BY <1>1, <1>2 DEF PlanOK, NotRunning, AllDraws
<1>4. QED BY <1>1, <1>2, <1>3 DEF Idle, Done

(* A build that goes on with a sound plan, and files that stay or become
   sound, keep the invariant. *)
LEMMA BuildPools ==
  ASSUME PoolsInv, UNCHANGED worldVars, NEW c \in Callers, NEW b, PlanOK(b),
         build' = [build EXCEPT ![c] = b],
         NEW lock, NEW agg, FileOK(lock), FileOK(agg), locked' = lock, aggregate' = agg
  PROVE  PoolsInv'
<1>1. RowsStay
  BY ResultRowsStay DEF worldVars
<1>2. \A x \in Callers : build'[x] = IF x = c THEN b ELSE build[x]
  BY DEF PoolsInv
<1>3. build' = [x \in Callers |-> build'[x]]
  BY DEF PoolsInv
<1>4. ASSUME NEW x \in Callers PROVE PlanOK(build[x])'
  <2>1. PlanOK(build'[x])
    BY <1>2 DEF PoolsInv
  <2>2. QED BY <1>1, <2>1, KeptStays
<1>5. FileOK(locked)' /\ FileOK(aggregate)'
  BY <1>1, KeptStays
<1>6. QED BY <1>3, <1>4, <1>5 DEF PoolsInv, worldVars

(* What a build goes on with. *)
LEMMA PlannedOK ==
  ASSUME NEW b, PlanOK(b), NEW writes, NEW lock, NEW agg, RowsOK(lock), FileOK(agg)
  PROVE  PlanOK(Planned(b, writes, lock, agg))
<1>1. CASE writes = {}
  BY <1>1, NothingOK DEF Planned
<1>2. CASE writes # {}
  <2> DEFINE pc == IF "lock" \in writes THEN "locking" ELSE "writing"
             p == [b EXCEPT !.pc = pc, !.writes = writes, !.lock = lock, !.aggregate = agg]
  <2>1. pc # "looking"
    OBVIOUS
  <2> HIDE DEF pc
  <2>2. p = [pc |-> pc, draw |-> b.draw, replace |-> b.replace,
             lock |-> lock, aggregate |-> agg, writes |-> writes]
    <3> DEFINE b1 == [b EXCEPT !.pc = pc]
               b2 == [b1 EXCEPT !.writes = writes]
               b3 == [b2 EXCEPT !.lock = lock]
               b4 == [b3 EXCEPT !.aggregate = agg]
    <3>1. b1 = [pc |-> pc, draw |-> b.draw, replace |-> b.replace,
                lock |-> b.lock, aggregate |-> b.aggregate, writes |-> b.writes]
      BY DEF PlanOK
    <3> HIDE DEF b1
    <3>2. b2 = [pc |-> pc, draw |-> b.draw, replace |-> b.replace,
                lock |-> b.lock, aggregate |-> b.aggregate, writes |-> writes]
      BY <3>1
    <3> HIDE DEF b2
    <3>3. b3 = [pc |-> pc, draw |-> b.draw, replace |-> b.replace,
                lock |-> lock, aggregate |-> b.aggregate, writes |-> writes]
      BY <3>2
    <3> HIDE DEF b3
    <3>4. b4 = [pc |-> pc, draw |-> b.draw, replace |-> b.replace,
                lock |-> lock, aggregate |-> agg, writes |-> writes]
      BY <3>3
    <3>5. QED BY <3>4 DEF b1, b2, b3
  <2> HIDE DEF p
  <2>3. PlanOK(p)
    <3>1. b.draw \in Draws \cup {AllDraws}
      BY DEF PlanOK
    <3>2. QED BY <2>1, <2>2, <3>1 DEF PlanOK
  <2>4. QED BY <1>2, <2>3 DEF Planned, p, pc
<1>3. QED BY <1>1, <1>2

(* A file stays sound when sound rows replace those of a draw. *)
LEMMA ReplaceRows ==
  ASSUME NEW file, FileOK(file), NEW d, NEW rows, RowsOK(rows)
  PROVE  FileOK([file EXCEPT ![d] = rows])
BY DEF FileOK

(* A build only moves on to another place. *)
LEMMA OnlyPlace ==
  ASSUME NEW b, PlanOK(b), NEW pc, pc # "looking"
  PROVE  PlanOK([b EXCEPT !.pc = pc])
<1> DEFINE p == [b EXCEPT !.pc = pc]
<1>1. /\ p = [pc |-> p.pc, draw |-> p.draw, replace |-> p.replace,
              lock |-> p.lock, aggregate |-> p.aggregate, writes |-> p.writes]
      /\ p.pc = pc /\ p.draw = b.draw /\ p.lock = b.lock /\ p.aggregate = b.aggregate
  BY DEF PlanOK
<1> HIDE DEF p
<1>2. PlanOK(p)
  BY <1>1 DEF PlanOK
<1>3. QED BY <1>2 DEF p

(* What looking finds is sound. *)
LEMMA PreservedPlan ==
  ASSUME NEW b, PlanOK(b), b.draw \in Draws, FileOK(locked), FileOK(aggregate)
  PROVE  PlanOK(Preserved(b)) /\ PlanOK(LockWhatIsThere(b))
<1>1. RowsOK(locked[b.draw]) /\ RowsOK(aggregate[b.draw])
  BY DEF FileOK
<1>2. PlanOK(LockWhatIsThere(b))
  BY <1>1, NothingOK, PlannedOK DEF LockWhatIsThere
<1>3. FileOK([aggregate EXCEPT ![b.draw] = locked[b.draw]])
  BY <1>1, ReplaceRows
<1>4. PlanOK(RestoreFromLock(b))
  BY <1>3, NothingOK, PlannedOK DEF RestoreFromLock
<1>5. PlanOK([b EXCEPT !.pc = "building"])
  BY OnlyPlace
<1>6. QED BY <1>2, <1>4, <1>5 DEF Preserved

-----------------------------------------------------------------------------
(* The actions. *)

LEMMA PoolsInit == Init => PoolsInv
<1> SUFFICES ASSUME Init PROVE PoolsInv
  OBVIOUS
<1>1. votes \in Seq(Ballots)
  BY DrawLedgerAssumption DEF Init
<1>2. official \in [Matches -> {0} \cup Teams] /\ results = [m \in Matches |-> results[m]]
      /\ \A m \in Matches : results[m] # 0 => official[m] # 0
  BY DEF Init
<1>3. FileOK(locked) /\ FileOK(aggregate)
  BY NothingOK DEF Init
<1>4. build = [c \in Callers |-> build[c]] /\ \A c \in Callers : PlanOK(build[c])
  BY NothingOK DEF Init
<1>5. QED BY <1>1, <1>2, <1>3, <1>4 DEF PoolsInv

(* What a build starts with. *)
Started(pc, d, replace) == [Idle EXCEPT !.pc = pc, !.draw = d, !.replace = replace]
Begun(pc, d) == [Idle EXCEPT !.pc = pc, !.draw = d]
Beginning(pc, d, replace) ==
  [pc |-> pc, draw |-> d, replace |-> replace, lock |-> NoRows, aggregate |-> NoFile, writes |-> {}]

LEMMA StartedIs ==
  ASSUME NEW pc, NEW d, NEW replace
  PROVE  Started(pc, d, replace) = Beginning(pc, d, replace) /\ Begun(pc, d) = Beginning(pc, d, FALSE)
<1> DEFINE idle == "idle"
           none == 0
           no == FALSE
           nothing == {}
           b1 == [Idle EXCEPT !.pc = pc]
           b2 == [b1 EXCEPT !.draw = d]
           b3 == [b2 EXCEPT !.replace = replace]
<1>1. Idle = [pc |-> idle, draw |-> none, replace |-> no,
              lock |-> NoRows, aggregate |-> NoFile, writes |-> nothing]
  BY DEF Idle, NotRunning
<1>2. Started(pc, d, replace) = b3 /\ Begun(pc, d) = b2
  BY DEF Started, Begun
<1> HIDE DEF idle, none, no, nothing
<1>3. b1 = [pc |-> pc, draw |-> none, replace |-> no,
            lock |-> NoRows, aggregate |-> NoFile, writes |-> nothing]
  BY <1>1
<1> HIDE DEF b1
<1>4. b2 = [pc |-> pc, draw |-> d, replace |-> no,
            lock |-> NoRows, aggregate |-> NoFile, writes |-> nothing]
  BY <1>3
<1> HIDE DEF b2
<1>5. b3 = [pc |-> pc, draw |-> d, replace |-> replace,
            lock |-> NoRows, aggregate |-> NoFile, writes |-> nothing]
  BY <1>4
<1> HIDE DEF b3
<1>6. QED BY <1>2, <1>4, <1>5 DEF Beginning, no, nothing

(* Builds are started with nothing in hand. *)
LEMMA StartPools ==
  ASSUME PoolsInv,
         \/ \E d \in Draws : ServerStarts(d)
         \/ \E d \in Draws, replace \in BOOLEAN : ShellStarts(d, replace)
         \/ ShellStarts(AllDraws, FALSE)
  PROVE  PoolsInv'
<1>1. ASSUME NEW c \in Callers, NEW pc \in {"looking", "building"}, NEW d \in Draws \cup {AllDraws},
             NEW replace, pc = "looking" => d \in Draws,
             build' = [build EXCEPT ![c] = Beginning(pc, d, replace)],
             UNCHANGED <<worldVars, fileVars>>
      PROVE  PoolsInv'
  <2> DEFINE b == Beginning(pc, d, replace)
  <2>1. PlanOK(b)
    BY <1>1, NothingOK DEF PlanOK, Beginning
  <2>2. FileOK(locked) /\ FileOK(aggregate) /\ locked' = locked /\ aggregate' = aggregate
    BY <1>1 DEF PoolsInv, fileVars
  <2> HIDE DEF b
  <2>3. build' = [build EXCEPT ![c] = b] /\ UNCHANGED worldVars
    BY <1>1 DEF b
  <2>4. QED BY <2>1, <2>2, <2>3, BuildPools
<1>2. ASSUME NEW d \in Draws, ServerStarts(d) PROVE PoolsInv'
  <2>1. /\ "server" \in Callers /\ UNCHANGED <<worldVars, fileVars>>
        /\ build' = [build EXCEPT !["server"] = Begun("looking", d)]
    BY <1>2 DEF ServerStarts, Begun
  <2>2. build' = [build EXCEPT !["server"] = Beginning("looking", d, FALSE)]
    BY <2>1, StartedIs
  <2>3. QED BY <1>1, <2>1, <2>2
<1>3. ASSUME NEW d \in Draws \cup {AllDraws}, NEW replace, ShellStarts(d, replace) PROVE PoolsInv'
  <2> DEFINE pc == IF d = AllDraws \/ replace THEN "building" ELSE "looking"
  <2>1. /\ "shell" \in Callers /\ UNCHANGED <<worldVars, fileVars>>
        /\ build' = [build EXCEPT !["shell"] = Started(pc, d, replace)]
    BY <1>3 DEF ShellStarts, Started
  <2>2. pc \in {"looking", "building"} /\ (pc = "looking" => d \in Draws)
    OBVIOUS
  <2> HIDE DEF pc
  <2>3. build' = [build EXCEPT !["shell"] = Beginning(pc, d, replace)]
    BY <2>1, StartedIs
  <2>4. QED BY <1>1, <2>1, <2>2, <2>3
<1>4. QED BY <1>2, <1>3

(* What a build that looks, builds, fails or is killed goes on with. *)
LEMMA PlanPools ==
  ASSUME PoolsInv, NEW c \in Callers,
         Look(c) \/ BuildDraw(c) \/ BuildAll(c) \/ BuildFails(c) \/ Kill(c)
  PROVE  PoolsInv'
<1>1. /\ PlanOK(build[c]) /\ FileOK(locked) /\ FileOK(aggregate)
  BY DEF PoolsInv
<1>2. UNCHANGED <<worldVars, fileVars>>
  BY DEF Look, BuildDraw, BuildAll, BuildFails, Kill
<1>3. ASSUME NEW b, PlanOK(b), build' = [build EXCEPT ![c] = b] PROVE PoolsInv'
  BY <1>1, <1>2, <1>3, BuildPools DEF fileVars
<1>4. CASE Look(c)
  <2>1. build[c].draw \in Draws /\ build' = [build EXCEPT ![c] = Preserved(build[c])]
    BY <1>1, <1>4 DEF Look, PlanOK
  <2>2. PlanOK(Preserved(build[c]))
    BY <1>1, <2>1, PreservedPlan
  <2>3. QED BY <1>3, <2>1, <2>2
<1>5. CASE BuildDraw(c)
  <2> DEFINE b == build[c]
             rows == RowsOf(SourceOf[b.draw])
             plan == Planned(b, {"lock", "aggregate"}, rows, [aggregate EXCEPT ![b.draw] = rows])
  <2>1. b.draw \in Draws
    BY <1>1, <1>5 DEF BuildDraw, PlanOK
  <2>2. RowsOK(rows)
    BY RowsOfOK
  <2>3. PlanOK(plan) /\ PlanOK(LockWhatIsThere(b))
    <3>1. FileOK([aggregate EXCEPT ![b.draw] = rows])
      BY <1>1, <2>2, ReplaceRows
    <3>2. QED BY <1>1, <2>1, <2>2, <3>1, PlannedOK, PreservedPlan
  <2>4. build' = [build EXCEPT ![c] = IF aggregate[b.draw] # NoRows /\ ~b.replace
                                      THEN LockWhatIsThere(b) ELSE plan]
    BY <1>5 DEF BuildDraw
  <2>5. \/ build' = [build EXCEPT ![c] = LockWhatIsThere(b)]
        \/ build' = [build EXCEPT ![c] = plan]
    <3> HIDE DEF plan, b
    <3>1. QED BY <2>4
  <2> HIDE DEF plan, b
  <2>6. QED BY <1>3, <2>3, <2>5
<1>6. CASE BuildAll(c)
  <2> DEFINE rows == [d \in Draws |-> IF IsBase(d) THEN RowsOf(SourceOf[d]) ELSE NoRows]
  <2>1. ASSUME NEW d \in Draws PROVE RowsOK(rows[d])
    <3>1. rows[d] = RowsOf(SourceOf[d]) \/ rows[d] = NoRows
      BY <2>1
    <3>2. QED BY <3>1, RowsOfOK, NothingOK
  <2>2. FileOK(rows)
    <3>1. rows = [d \in Draws |-> rows[d]]
      OBVIOUS
    <3> HIDE DEF rows
    <3>2. QED BY <2>1, <3>1 DEF FileOK
  <2>3. build' = [build EXCEPT ![c] = Planned(build[c], {"aggregate"}, NoRows, rows)]
    BY <1>6 DEF BuildAll
  <2> HIDE DEF rows
  <2>4. PlanOK(Planned(build[c], {"aggregate"}, NoRows, rows))
    BY <1>1, <2>2, NothingOK, PlannedOK
  <2>5. QED BY <1>3, <2>3, <2>4
<1>7. CASE BuildFails(c) \/ Kill(c)
  <2>1. build' = [build EXCEPT ![c] = Idle]
    BY <1>7 DEF BuildFails, Kill
  <2>2. QED BY <1>3, <2>1, NothingOK
<1>8. QED BY <1>4, <1>5, <1>6, <1>7

(* The files get what the build had in hand. *)
LEMMA WritePools ==
  ASSUME PoolsInv, NEW c \in Callers, WriteLock(c) \/ WriteAggregate(c)
  PROVE  PoolsInv'
<1>1. /\ PlanOK(build[c]) /\ FileOK(locked) /\ FileOK(aggregate)
      /\ RowsOK(build[c].lock) /\ FileOK(build[c].aggregate)
      /\ build = [x \in Callers |-> build[x]]
  BY DEF PoolsInv, PlanOK
<1>2. CASE WriteLock(c)
  <2> DEFINE b == build[c]
             next == IF "aggregate" \in b.writes THEN [b EXCEPT !.pc = "writing"] ELSE Done
  <2>1. PlanOK(next)
    <3>1. PlanOK([b EXCEPT !.pc = "writing"])
      BY <1>1, OnlyPlace
    <3>2. QED BY <3>1, NothingOK
  <2>2. FileOK([locked EXCEPT ![b.draw] = b.lock])
    BY <1>1, ReplaceRows
  <2>3. build' = [build EXCEPT ![c] = next] /\ locked' = [locked EXCEPT ![b.draw] = b.lock]
        /\ aggregate' = aggregate /\ UNCHANGED worldVars
    BY <1>1, <1>2 DEF WriteLock
  <2> HIDE DEF next, b
  <2>4. QED BY <1>1, <2>1, <2>2, <2>3, BuildPools
<1>3. CASE WriteAggregate(c)
  <2>1. build' = [build EXCEPT ![c] = Done] /\ aggregate' = build[c].aggregate
        /\ locked' = locked /\ UNCHANGED worldVars
    BY <1>3 DEF WriteAggregate
  <2>2. QED BY <1>1, <2>1, NothingOK, BuildPools
<1>4. QED BY <1>2, <1>3

(* Votes, results and corrections. *)
LEMMA VotePools ==
  ASSUME PoolsInv, NEW b \in Ballots, PlaceVote(b)
  PROVE  PoolsInv'
<1>1. /\ votes' \in Seq(Ballots) /\ official' = official /\ results' = results
      /\ UNCHANGED <<fileVars, build>>
  BY DEF PoolsInv, PlaceVote
<1>2. /\ official' \in [Matches -> {0} \cup Teams] /\ results' = [m \in Matches |-> results'[m]]
      /\ \A m \in Matches : results'[m] # 0 => official'[m] # 0
  BY <1>1 DEF PoolsInv
<1>3. RowsStay
  BY VoteRowsStay
<1>4. QED BY <1>1, <1>2, <1>3, WorldPools

LEMMA ResultPools ==
  ASSUME PoolsInv,
         \/ \E m \in Matches : Correct(m) \/ \E team \in Teams : Decide(m, team)
         \/ SyncResults
  PROVE  PoolsInv'
<1>1. /\ votes \in Seq(Ballots) /\ votes' = votes /\ UNCHANGED <<fileVars, build>>
      /\ official \in [Matches -> {0} \cup Teams]
      /\ results = [m \in Matches |-> results[m]]
      /\ \A m \in Matches : results[m] # 0 => official[m] # 0
  BY DEF PoolsInv, Correct, Decide, SyncResults
<1>2. /\ official' \in [Matches -> {0} \cup Teams]
      /\ \A m \in Matches : official[m] # 0 => official'[m] # 0
  <2>1. ASSUME NEW m \in Matches, Correct(m)
        PROVE  /\ official' \in [Matches -> {0} \cup Teams]
               /\ \A x \in Matches : official[x] # 0 => official'[x] # 0
    <3>1. official[m] \in {1, 2} /\ official' = [official EXCEPT ![m] = 3 - official[m]]
      BY <1>1, <2>1 DEF Correct, Teams
    <3>2. 3 - official[m] \in {1, 2}
      BY <3>1
    <3>3. QED BY <1>1, <3>1, <3>2 DEF Teams
  <2>2. ASSUME NEW m \in Matches, NEW team \in Teams, Decide(m, team)
        PROVE  /\ official' \in [Matches -> {0} \cup Teams]
               /\ \A x \in Matches : official[x] # 0 => official'[x] # 0
    BY <1>1, <2>2 DEF Decide, Teams
  <2>3. CASE SyncResults
    BY <1>1, <2>3 DEF SyncResults
  <2>4. QED BY <2>1, <2>2, <2>3
<1>3. /\ results' = [m \in Matches |-> results'[m]]
      /\ \A m \in Matches : results'[m] # 0 => official'[m] # 0
  <2>1. CASE results' = results
    BY <1>1, <1>2, <2>1
  <2>2. CASE SyncResults
    <3>1. PICK failed \in SUBSET Matches :
            results' = [m \in Matches |-> IF m \in failed THEN 0 ELSE official[m]]
      BY <2>2 DEF SyncResults
    <3>2. official' = official
      BY <2>2 DEF SyncResults
    <3>3. QED BY <3>1, <3>2
  <2>3. QED BY <2>1, <2>2 DEF Correct, Decide
<1>4. RowsStay
  BY <1>1, <1>2, ResultRowsStay
<1>5. QED BY <1>1, <1>2, <1>3, <1>4, WorldPools

LEMMA PoolsStep == PoolsInv /\ [Next]_vars => PoolsInv'
<1> SUFFICES ASSUME PoolsInv, [Next]_vars PROVE PoolsInv'
  OBVIOUS
<1>1. CASE \/ \E d \in Draws : ServerStarts(d)
           \/ \E d \in Draws, replace \in BOOLEAN : ShellStarts(d, replace)
           \/ ShellStarts(AllDraws, FALSE)
  BY <1>1, StartPools
<1>2. ASSUME NEW c \in Callers,
             \/ Look(c) \/ BuildDraw(c) \/ BuildAll(c) \/ BuildFails(c)
             \/ WriteLock(c) \/ WriteAggregate(c) \/ Kill(c)
      PROVE  PoolsInv'
  BY <1>2, PlanPools, WritePools
<1>3. ASSUME NEW b \in Ballots, PlaceVote(b) PROVE PoolsInv'
  BY <1>3, VotePools
<1>4. CASE \/ \E m \in Matches : Correct(m) \/ \E team \in Teams : Decide(m, team)
           \/ SyncResults
  BY <1>4, ResultPools
<1>5. CASE UNCHANGED vars
  <2>1. /\ UNCHANGED <<fileVars, build>> /\ votes' = votes
        /\ official' = official /\ results' = results
    BY <1>5 DEF vars, worldVars
  <2>2. RowsStay
    BY <2>1, ResultRowsStay
  <2>3. QED BY <2>1, <2>2, WorldPools DEF PoolsInv
<1>6. QED BY <1>1, <1>2, <1>3, <1>4, <1>5 DEF Next

(* Every ticket of a pool on file has one owner, and every wallet owns as
   many tickets as it placed on the winner, whatever votes, results,
   corrections, overlapping builds and kills there were since
   (entryForAllocation, the cutoff of votes). *)
THEOREM PoolsCorrect == Spec => []PoolsAreTheVotes
<1>1. Init => PoolsInv
  BY PoolsInit
<1>2. PoolsInv /\ [Next]_vars => PoolsInv'
  BY PoolsStep
<1>3. PoolsInv => PoolsAreTheVotes
  BY PoolsInvIs
<1>4. QED BY <1>1, <1>2, <1>3, PTL DEF Spec

-----------------------------------------------------------------------------
(* The ledger of tickets. Every wallet has a home: where the list of       *)
(* migrations, or else the resolver, says its tickets are. A home is at    *)
(* home, and all wallets an entry lists are at home with it.               *)

Home(list, w) == Resolved(list, w).to

(* A list of migrations, and one that is plain: nobody moves twice, and    *)
(* the resolver joins no one who moves or is moved to.                     *)
IsMoves(list) == \A w \in DOMAIN list : w \in Holders /\ list[w] \in Holders
Alone(w) == {o \in Holders : Resolver[o] = w} = {w}
IsList(list) == IsMoves(list) /\ Plain(list)

(* An entry, and a buyback. *)
Entry ==
  [wallet : Holders, sources : SUBSET Holders, raw : Nat, carryover : Nat, practice : Nat,
   taskReward : Nat, insiderGrant : Nat, intervals : SUBSET [start : Nat, end : Nat]]
Bought == [by : Holders, weight : Weights]

LedgerTypes ==
  /\ buybacks \in Seq(Bought)
  /\ IsMoves(migrations) /\ IsMoves(cachedList) /\ IsMoves(ledgerFile.list)
  /\ ledgerFile.counts \in 0..Len(buybacks)
  /\ ledgerFile.entries \subseteq Entry

(* The buybacks the file counts whose buyer's home is w. *)
OfHome(w) == {i \in 1..ledgerFile.counts : Home(ledgerFile.list, buybacks[i].by) = w}

(* Each home has one entry, with the buybacks of all who are at home       *)
(* there.                                                                  *)
OneEntry == \A d, e \in ledgerFile.entries : d.wallet = e.wallet => d = e
OwnBuybacks ==
  \A e \in ledgerFile.entries :
    /\ e.intervals = {Interval(i) : i \in OfHome(e.wallet)}
    /\ \A i \in OfHome(e.wallet) : buybacks[i].by \in e.sources /\ e.raw > 0
AllListed ==
  \A i \in 1..ledgerFile.counts :
    \E e \in ledgerFile.entries : e.wallet = Home(ledgerFile.list, buybacks[i].by)
AtHome ==
  ledgerFile.by = "refresh" /\ Plain(ledgerFile.list) =>
    \A e \in ledgerFile.entries : \A x \in e.sources : Home(ledgerFile.list, x) = e.wallet

TicketLedgerInv == LedgerTypes /\ OneEntry /\ OwnBuybacks /\ AllListed /\ AtHome

(* A list of migrations is followed in one step. *)
Hops(h, list, w) ==
  h = [n \in 0..Cardinality(Holders) |-> IF n = 0 THEN w ELSE Step(list, h[n - 1])]

LEMMA CanonicalHops ==
  \A list, w : Canonical(list, w) = (CHOOSE h : Hops(h, list, w))[Cardinality(Holders)]
BY DEF Canonical, Hops

(* What a plain list says. *)
LEMMA PlainList ==
  ASSUME NEW list, IsList(list), NEW w \in DOMAIN list
  PROVE  /\ w \in Holders /\ list[w] \in Holders /\ list[w] \notin DOMAIN list
         /\ Alone(w) /\ Alone(list[w])
BY DEF IsList, IsMoves, Plain, Alone

(* Who has moved has arrived. *)
LEMMA StepArrives ==
  ASSUME NEW list, IsList(list), NEW w \in Holders
  PROVE  /\ Step(list, w) \in Holders /\ Step(list, w) \notin DOMAIN list
         /\ Step(list, Step(list, w)) = Step(list, w)
BY PlainList DEF Step

LEMMA CanonicalIsStep ==
  ASSUME NEW list, IsList(list), NEW w \in Holders
  PROVE  Canonical(list, w) = Step(list, w)
<1> DEFINE N == Cardinality(Holders)
           s == Step(list, w)
           h == CHOOSE h : Hops(h, list, w)
           k == [n \in 0..N |-> IF n = 0 THEN w ELSE s]
<1>1. N \in Nat /\ N # 0
  BY TicketLedgerAssumption, FS_CardinalityType, FS_EmptySet
<1>2. Step(list, s) = s
  BY StepArrives
<1>3. Canonical(list, w) = h[N]
  BY CanonicalHops
<1> HIDE DEF s
<1>4. Hops(k, list, w)
  <2>1. \A n \in 0..N : n # 0 => n - 1 \in 0..N
    BY <1>1
  <2>2. \A n \in 0..N : (IF n = 0 THEN w ELSE s) = IF n = 0 THEN w ELSE Step(list, k[n - 1])
    <3> SUFFICES ASSUME NEW n \in 0..N, n # 0 PROVE s = Step(list, k[n - 1])
      OBVIOUS
    <3>1. n - 1 \in 0..N
      BY <2>1
    <3>2. k[n - 1] = w \/ k[n - 1] = s
      BY <3>1
    <3> QED
      BY <1>2, <3>2 DEF s
  <2> QED
    BY <2>2 DEF Hops
<1>5. Hops(h, list, w)
  <2> HIDE DEF k
  <2> QED
    BY <1>4
<1> HIDE DEF h, N
<1>6. \A n \in 0..N : h[n] = IF n = 0 THEN w ELSE Step(list, h[n - 1])
  BY <1>5 DEF Hops, N
<1> DEFINE S == {n \in Nat : n \in 1..N => h[n] = s}
<1>7. 0 \in S
  BY <1>1
<1>8. ASSUME NEW n \in S PROVE n + 1 \in S
  <2> SUFFICES ASSUME n + 1 \in 1..N PROVE h[n + 1] = s
    OBVIOUS
  <2>1. n \in 0..N /\ n + 1 \in 0..N /\ n + 1 # 0 /\ (n + 1) - 1 = n
    BY <1>1
  <2>2. h[n + 1] = Step(list, h[n])
    BY <1>6, <2>1
  <2>3. CASE n = 0
    BY <1>6, <2>1, <2>2, <2>3 DEF s
  <2>4. CASE n # 0
    <3>1. h[n] = s
      BY <2>1, <2>4
    <3> QED
      BY <1>2, <2>2, <3>1
  <2> QED
    BY <2>3, <2>4
<1>9. S = Nat
  <2>1. S \in SUBSET Nat
    OBVIOUS
  <2> HIDE DEF S
  <2> QED
    BY <1>7, <1>8, <2>1, NatInd
<1>10. N \in 1..N /\ N \in S
  BY <1>1, <1>9
<1>11. h[N] = s
  BY <1>10
<1> QED
  BY <1>3, <1>11 DEF s

(* Whatever has moved, the tickets of a wallet are somebody's.             *)
LEMMA HomeTyped ==
  ASSUME NEW list, IsMoves(list), NEW w \in Holders
  PROVE  /\ Home(list, w) \in Holders
         /\ Resolved(list, w).from \subseteq Holders /\ w \in Resolved(list, w).from
<1> DEFINE N == Cardinality(Holders)
           h == CHOOSE h : Hops(h, list, w)
           c == Canonical(list, w)
           Chain(g, n) == \A i \in 0..n : g[i] = IF i = 0 THEN w ELSE Step(list, g[i - 1])
           S == {n \in Nat : \E g \in [0..n -> Holders] : Chain(g, n)}
<1>1. N \in Nat
  BY TicketLedgerAssumption, FS_CardinalityType
<1>2. \A v \in Holders : Step(list, v) \in Holders
  BY DEF IsMoves, Step
<1>3. 0 \in S
  <2> DEFINE g == [i \in 0..0 |-> w]
  <2>1. g \in [0..0 -> Holders] /\ Chain(g, 0)
    OBVIOUS
  <2> QED
    BY <2>1
<1>4. ASSUME NEW n \in S PROVE n + 1 \in S
  <2>1. PICK g \in [0..n -> Holders] : Chain(g, n)
    OBVIOUS
  <2>2. n \in Nat
    OBVIOUS
  <2> DEFINE k == [i \in 0..(n + 1) |-> IF i = n + 1 THEN Step(list, g[n]) ELSE g[i]]
  <2>3. g[n] \in Holders /\ \A i \in 0..(n + 1) : i # n + 1 => i \in 0..n
    BY <2>2
  <2>4. k \in [0..(n + 1) -> Holders]
    BY <1>2, <2>3
  <2>5. k[n + 1] = Step(list, k[n]) /\ \A i \in 0..n : k[i] = g[i]
    BY <2>2
  <2>6. Chain(k, n + 1)
    <3> SUFFICES ASSUME NEW i \in 0..(n + 1)
                 PROVE  k[i] = IF i = 0 THEN w ELSE Step(list, k[i - 1])
      OBVIOUS
    <3>1. CASE i = n + 1
      BY <2>2, <2>5, <3>1
    <3>2. CASE i # n + 1
      <4>1. i \in 0..n /\ (i # 0 => i - 1 \in 0..n)
        BY <2>2, <3>2
      <4>2. g[i] = IF i = 0 THEN w ELSE Step(list, g[i - 1])
        BY <2>1, <4>1
      <4> HIDE DEF k
      <4> QED
        BY <2>5, <4>1, <4>2
    <3> QED
      BY <3>1, <3>2
  <2> HIDE DEF k, Chain
  <2>7. \E f \in [0..(n + 1) -> Holders] : Chain(f, n + 1)
    BY <2>4, <2>6
  <2> QED
    BY <2>2, <2>7
<1>5. S = Nat
  <2>1. S \in SUBSET Nat
    OBVIOUS
  <2> HIDE DEF S
  <2> QED
    BY <1>3, <1>4, <2>1, NatInd
<1>6. PICK g \in [0..N -> Holders] : Chain(g, N)
  BY <1>1, <1>5
<1>7. Hops(g, list, w)
  BY <1>6 DEF Hops
<1>8. Hops(h, list, w)
  BY <1>7
<1>9. c = h[N]
  BY CanonicalHops
<1> HIDE DEF h, c, S, Chain, N
<1>10. \A n \in 0..N : h[n] = IF n = 0 THEN w ELSE Step(list, h[n - 1])
  BY <1>8 DEF Hops, N
<1>11. c \in Holders
  <2> DEFINE T == {n \in Nat : n \in 0..N => h[n] \in Holders}
  <2>1. 0 \in T
    BY <1>10
  <2>2. ASSUME NEW n \in T PROVE n + 1 \in T
    <3> SUFFICES ASSUME n + 1 \in 0..N PROVE h[n + 1] \in Holders
      OBVIOUS
    <3>1. n \in 0..N /\ n + 1 # 0 /\ (n + 1) - 1 = n
      BY <1>1
    <3>2. h[n + 1] = Step(list, h[n]) /\ h[n] \in Holders
      BY <1>10, <3>1
    <3> QED
      BY <1>2, <3>2
  <2>3. T = Nat
    <3>1. T \in SUBSET Nat
      OBVIOUS
    <3> HIDE DEF T
    <3> QED
      BY <2>1, <2>2, <3>1, NatInd
  <2> QED
    BY <1>1, <1>9, <2>3
<1>12. Joined(list, c) \subseteq Holders /\ Resolver[w] \in Holders
  BY TicketLedgerAssumption DEF Joined, IsMoves
<1>13. Resolved(list, w) = IF c # w \/ Joined(list, c) # {}
         THEN [to |-> c, from |-> {w, c} \cup Joined(list, c)]
         ELSE [to |-> Resolver[w], from |-> {w} \cup {o \in Holders : Resolver[o] = Resolver[w]}]
  BY DEF Resolved, c
<1> QED
  BY <1>11, <1>12, <1>13 DEF Home

(* The wallets a list is about. *)
Mentioned(list) == DOMAIN list \cup {list[v] : v \in DOMAIN list}

(* The resolver joins none of them to another. *)
LEMMA MentionedAlone ==
  ASSUME NEW list, IsList(list), NEW w \in Mentioned(list)
  PROVE  w \in Holders /\ Resolver[w] = w /\ \A o \in Holders : Resolver[o] = w => o = w
<1>1. w \in Holders /\ Alone(w)
  BY PlainList DEF Mentioned
<1> QED
  BY <1>1 DEF Alone

(* What the home of a wallet is, and which wallets go with it. *)
LEMMA HomeIs ==
  ASSUME NEW list, IsList(list), NEW w \in Holders
  PROVE  /\ w \in Mentioned(list) =>
              /\ Home(list, w) = Step(list, w)
              /\ Resolved(list, w).from = {w, Step(list, w)} \cup {v \in DOMAIN list : list[v] = Step(list, w)}
         /\ w \notin Mentioned(list) =>
              /\ Home(list, w) = Resolver[w]
              /\ Resolved(list, w).from = {w} \cup {o \in Holders : Resolver[o] = Resolver[w]}
<1> DEFINE c == Step(list, w)
           J == {v \in DOMAIN list : list[v] = c}
<1>1. Canonical(list, w) = c
  BY CanonicalIsStep
<1>2. Joined(list, c) = J
  <2>1. \A v \in DOMAIN list : Canonical(list, v) = list[v]
    <3>1. \A v \in DOMAIN list : v \in Holders /\ Step(list, v) = list[v]
      BY PlainList DEF Step
    <3> QED
      BY <3>1, CanonicalIsStep
  <2> QED
    BY <2>1 DEF Joined
<1>3. (c # w \/ J # {}) <=> w \in Mentioned(list)
  <2>1. CASE w \in DOMAIN list
    BY <2>1, PlainList DEF Step, Mentioned
  <2>2. CASE w \notin DOMAIN list
    BY <2>2 DEF Step, Mentioned
  <2> QED
    BY <2>1, <2>2
<1> HIDE DEF c, J
<1>4. Resolved(list, w) = IF c # w \/ J # {} THEN [to |-> c, from |-> {w, c} \cup J]
                          ELSE [to |-> Resolver[w], from |-> {w} \cup {o \in Holders : Resolver[o] = Resolver[w]}]
  BY <1>1, <1>2 DEF Resolved
<1>5. /\ w \in Mentioned(list) => Home(list, w) = c /\ Resolved(list, w).from = {w, c} \cup J
      /\ w \notin Mentioned(list) =>
           /\ Home(list, w) = Resolver[w]
           /\ Resolved(list, w).from = {w} \cup {o \in Holders : Resolver[o] = Resolver[w]}
  BY <1>3, <1>4 DEF Home
<1> QED
  BY <1>5 DEF c, J

(* All wallets that go with one are at home where it is. *)
LEMMA TogetherAtHome ==
  ASSUME NEW list, IsList(list), NEW y \in Holders
  PROVE  /\ Resolved(list, y).from \subseteq Holders
         /\ \A x \in Resolved(list, y).from : Home(list, x) = Home(list, y)
         /\ y \in Resolved(list, y).from /\ Home(list, y) \in Resolved(list, y).from
<1>0. \A w \in Holders : Resolver[w] \in Holders /\ Resolver[Resolver[w]] = Resolver[w]
  BY TicketLedgerAssumption
<1>1. CASE y \in Mentioned(list)
  <2> DEFINE c == Step(list, y)
             J == {v \in DOMAIN list : list[v] = c}
  <2>1. Home(list, y) = c /\ Resolved(list, y).from = {y, c} \cup J
    BY <1>1, HomeIs
  <2>2. c \in Holders /\ Step(list, c) = c /\ c \in Mentioned(list)
    BY <1>1, StepArrives DEF Mentioned, Step
  <2>3. \A v \in J : v \in Holders /\ v \in Mentioned(list) /\ Step(list, v) = c
    BY PlainList DEF Mentioned, Step
  <2>4. Home(list, c) = c /\ \A v \in J : Home(list, v) = c
    <3> HIDE DEF c, J
    <3> QED
      BY <2>2, <2>3, HomeIs
  <2> HIDE DEF c, J
  <2> QED
    BY <2>1, <2>2, <2>3, <2>4
<1>2. CASE y \notin Mentioned(list)
  <2> DEFINE O == {o \in Holders : Resolver[o] = Resolver[y]}
  <2>1. Home(list, y) = Resolver[y] /\ Resolved(list, y).from = {y} \cup O
    BY <1>2, HomeIs
  <2>2. ASSUME NEW o \in O PROVE Home(list, o) = Resolver[y]
    <3>1. o \notin Mentioned(list)
      <4> SUFFICES ASSUME o \in Mentioned(list) PROVE FALSE
        OBVIOUS
      <4>1. Resolver[o] = o /\ \A q \in Holders : Resolver[q] = o => q = o
        BY MentionedAlone
      <4> QED
        BY <1>2, <4>1
    <3> QED
      BY <3>1, HomeIs
  <2>3. Resolver[y] \in O
    BY <1>0
  <2> QED
    BY <2>1, <2>2, <2>3
<1> QED
  BY <1>1, <1>2

(* A home is a wallet that is at home. *)
LEMMA HomeIsHome ==
  ASSUME NEW list, IsList(list), NEW y \in Holders
  PROVE  Home(list, y) \in Holders /\ Home(list, Home(list, y)) = Home(list, y)
BY TogetherAtHome

(* A grant goes to its wallet's home. *)
LEMMA GrantsAtHome ==
  ASSUME NEW list, IsList(list), NEW w \in DOMAIN Grants
  PROVE  w \in Holders /\ Home(list, w) = Step(list, w)
<1>1. w \in Holders /\ Resolver[w] = w
  BY TicketLedgerAssumption
<1>2. CASE w \in Mentioned(list)
  BY <1>1, <1>2, HomeIs
<1>3. CASE w \notin Mentioned(list)
  <2>1. Step(list, w) = w
    BY <1>3 DEF Mentioned, Step
  <2> QED
    BY <1>1, <1>3, <2>1, HomeIs
<1> QED
  BY <1>2, <1>3

(* So do the tickets of the previous campaign. *)
LEMMA PreviousAtHome ==
  ASSUME NEW list, IsList(list), NEW p \in Previous, NEW x \in p.sources
  PROVE  x \in Holders /\ Home(list, x) = Step(list, p.wallet)
<1> DEFINE q == p.wallet
<1>1. x \in Holders /\ q \in Holders /\ Resolver[x] = q /\ Resolver[q] = q
  BY TicketLedgerAssumption
<1>2. CASE x \in Mentioned(list)
  <2>1. x = q
    BY <1>1, <1>2, MentionedAlone
  <2> QED
    BY <1>1, <1>2, <2>1, HomeIs
<1>3. CASE x \notin Mentioned(list)
  <2>1. q \notin Mentioned(list)
    BY <1>1, <1>3, MentionedAlone
  <2>2. Step(list, q) = q
    BY <2>1 DEF Mentioned, Step
  <2> QED
    BY <1>1, <1>3, <2>2, HomeIs
<1> QED
  BY <1>2, <1>3

(* What a function of naturals adds up to: nothing if there are none, and  *)
(* each of its values at least.                                            *)
LEMMA SumOfFunction ==
  ASSUME NEW f, IsFiniteSet(DOMAIN f), \A x \in DOMAIN f : f[x] \in Nat
  PROVE  /\ SumFunction(f) \in Nat
         /\ DOMAIN f = {} => SumFunction(f) = 0
         /\ \A x \in DOMAIN f : SumFunction(f) >= f[x]
<1> DEFINE S == DOMAIN f
<1>1. SumFunction(f) = Sum(f, S)
  BY DEF SumFunction, Sum
<1>2. S = {} => Sum(f, S) = 0
  BY SumEmpty
<1>3. Sum(f, S) \in Nat /\ \A x \in S : Sum(f, S) = Sum(f, S \ {x}) + f[x]
  BY SumTakes
<1>4. \A x \in S : Sum(f, S \ {x}) \in Nat
  <2> TAKE x \in S
  <2>1. IsFiniteSet(S \ {x}) /\ \A y \in S \ {x} : f[y] \in Nat
    BY FS_Subset
  <2> QED
    BY <2>1, SumTakes
<1>5. \A x \in S : f[x] \in Nat
  OBVIOUS
<1>6. SumFunction(f) \in Nat /\ (S = {} => SumFunction(f) = 0) /\ \A x \in S : SumFunction(f) >= f[x]
  <2> HIDE DEF S
  <2> QED
    <3>1. ASSUME NEW x \in S PROVE SumFunction(f) >= f[x]
      <4> DEFINE a == Sum(f, S)
                 b == Sum(f, S \ {x})
      <4>1. a = b + f[x] /\ b \in Nat /\ f[x] \in Nat
        BY <1>3, <1>4, <1>5
      <4> HIDE DEF a, b
      <4>2. a >= f[x]
        BY <4>1
      <4> QED
        BY <1>1, <4>2 DEF a
    <3> QED
      BY <1>1, <1>2, <1>3, <3>1
<1> QED
  BY <1>6

(* A sum over fewer is no greater. *)
LEMMA SumMore ==
  ASSUME NEW f, NEW g, IsFiniteSet(DOMAIN g), \A x \in DOMAIN g : g[x] \in Nat,
         DOMAIN f \subseteq DOMAIN g, \A x \in DOMAIN f : f[x] = g[x]
  PROVE  SumFunction(f) =< SumFunction(g)
<1> DEFINE S == DOMAIN f
           T == DOMAIN g
           G == {V \in SUBSET T : S \subseteq V => Sum(g, S) =< Sum(g, V)}
<1>1. \A V \in SUBSET T : IsFiniteSet(V) /\ Sum(g, V) \in Nat /\ \A x \in V : Sum(g, V) = Sum(g, V \ {x}) + g[x]
  <2> TAKE V \in SUBSET T
  <2>1. IsFiniteSet(V) /\ \A x \in V : g[x] \in Nat
    BY FS_Subset
  <2> QED
    BY <2>1, SumTakes
<1>2. S \subseteq T /\ \A x \in T : g[x] \in Nat
  OBVIOUS
<1>3. Sum(f, S) = Sum(g, S)
  <2>1. IsFiniteSet(S) /\ \A x \in S : f[x] \in Nat /\ f[x] = g[x]
    BY <1>1
  <2> QED
    BY <2>1, SumSame
<1>4. SumFunction(f) = Sum(f, S) /\ SumFunction(g) = Sum(g, T)
  BY DEF SumFunction, Sum
<1> HIDE DEF S, T
<1>5. ASSUME NEW V \in SUBSET T, \A W \in SUBSET V : W # V => W \in G
      PROVE  V \in G
  <2> SUFFICES ASSUME S \subseteq V PROVE Sum(g, S) =< Sum(g, V)
    OBVIOUS
  <2>1. CASE V = S
    BY <1>1, <2>1
  <2>2. CASE V # S
    <3>1. PICK x \in V : x \notin S
      BY <2>2
    <3> DEFINE W == V \ {x}
               a == Sum(g, S)
               b == Sum(g, W)
               c == Sum(g, V)
    <3>2. a =< b
      <4>1. W \in SUBSET V /\ W # V /\ S \subseteq W
        BY <3>1
      <4> QED
        BY <1>5, <4>1
    <3>3. c = b + g[x] /\ g[x] \in Nat /\ a \in Nat /\ b \in Nat
      <4>1. W \in SUBSET T /\ S \in SUBSET T /\ V \in SUBSET T /\ x \in T
        BY <1>2, <3>1
      <4> QED
        BY <1>1, <1>2, <3>1, <4>1
    <3> HIDE DEF a, b, c
    <3>4. a =< c
      BY <3>2, <3>3
    <3> QED
      BY <3>4 DEF a, c
  <2> QED
    BY <2>1, <2>2
<1>6. T \in G
  <2>1. IsFiniteSet(T) /\ G \in SUBSET SUBSET T
    BY <1>1
  <2> HIDE DEF G
  <2> QED
    BY <1>5, <2>1, SubsetInduction
<1>7. Sum(g, S) =< Sum(g, T)
  BY <1>2, <1>6
<1> QED
  BY <1>3, <1>4, <1>7

(* The tickets of an entry. *)
LEMMA TotalIs ==
  ASSUME NEW e \in Entry
  PROVE  /\ finalTickets(e) \in Nat /\ totalVotingTickets(e) \in Nat
         /\ e.raw > 0 \/ e.carryover > 0 \/ e.practice > 0 \/ e.insiderGrant > 0 => totalVotingTickets(e) > 0
         /\ e.raw = 0 /\ e.carryover = 0 /\ e.practice = 0 /\ e.taskReward = 0 /\ e.insiderGrant = 0 =>
              totalVotingTickets(e) = 0
<1> DEFINE a == e.taskReward
           b == e.insiderGrant
<1>1. a \in Nat /\ b \in Nat /\ e.raw \in Nat /\ e.carryover \in Nat /\ e.practice \in Nat
  BY DEF Entry
<1>2. InsiderGrant(e) = Max({a, b})
  BY DEF InsiderGrant
<1>3. Max({a, b}) = IF a >= b THEN a ELSE b
  <2>1. a \in Int /\ b \in Int
    BY <1>1
  <2> QED
    BY <2>1, OfTwo, Zenon
<1>4. InsiderGrant(e) = IF a >= b THEN a ELSE b
  BY <1>2, <1>3
<1>5. /\ finalTickets(e) = e.raw + e.carryover
      /\ totalVotingTickets(e) = e.raw + e.carryover + e.practice + InsiderGrant(e)
  BY DEF finalTickets, totalVotingTickets
<1>6. InsiderGrant(e) \in Nat /\ (a = 0 /\ b = 0 => InsiderGrant(e) = 0)
  BY <1>1, <1>4
<1> QED
  <2> HIDE DEF a, b
  <2>1. finalTickets(e) \in Nat /\ totalVotingTickets(e) \in Nat
    BY <1>1, <1>5, <1>6
  <2>2. e.raw > 0 \/ e.carryover > 0 \/ e.practice > 0 \/ b > 0 => totalVotingTickets(e) > 0
    <3>1. b > 0 => InsiderGrant(e) > 0
      BY <1>1, <1>4
    <3> QED
      BY <1>1, <1>5, <1>6, <3>1
  <2>3. e.raw = 0 /\ e.carryover = 0 /\ e.practice = 0 /\ a = 0 /\ b = 0 => totalVotingTickets(e) = 0
    BY <1>1, <1>5, <1>6
  <2> QED
    BY <2>1, <2>2, <2>3 DEF a, b

(* An entry without tickets. *)
LEMMA EmptyEntryIs ==
  ASSUME NEW w \in Holders, NEW e, e = emptyEntry(w)
  PROVE  /\ e \in Entry /\ e.wallet = w /\ e.sources = {w} /\ e.raw = 0 /\ e.carryover = 0
         /\ e.practice = 0 /\ e.taskReward = 0 /\ e.insiderGrant = 0 /\ e.intervals = {}
BY DEF emptyEntry, Entry

(* Buybacks, and the tickets before one. *)
LEMMA BuybackIs ==
  ASSUME LedgerTypes, NEW i \in DOMAIN buybacks
  PROVE  /\ buybacks[i].by \in Holders /\ buybacks[i].weight \in Nat /\ buybacks[i].weight > 0
         /\ DOMAIN buybacks = 1..Len(buybacks) /\ Len(buybacks) \in Nat
<1>1. buybacks \in Seq(Bought)
  BY DEF LedgerTypes
<1>2. buybacks[i] \in Bought /\ DOMAIN buybacks = 1..Len(buybacks) /\ Len(buybacks) \in Nat
  <2> HIDE DEF Bought
  <2> QED
    BY <1>1
<1>3. buybacks[i].by \in Holders /\ buybacks[i].weight \in Weights
  BY <1>2 DEF Bought
<1>4. buybacks[i].weight \in Nat /\ buybacks[i].weight > 0
  <2>1. buybacks[i].weight \in Nat \ {0}
    BY <1>3, TicketLedgerAssumption
  <2> QED
    BY <2>1
<1> QED
  BY <1>2, <1>3, <1>4

LEMMA TicketsBeforeGrow ==
  ASSUME LedgerTypes, NEW i \in DOMAIN buybacks
  PROVE  /\ TicketsBefore(i) \in Nat
         /\ \A j \in DOMAIN buybacks : i < j => TicketsBefore(i) + buybacks[i].weight =< TicketsBefore(j)
<1> DEFINE F(n) == [j \in 1..n |-> buybacks[j].weight]
           T == {n \in Nat : n =< Len(buybacks) =>
                   /\ SumFunction(F(n)) \in Nat
                   /\ \A m \in 1..n : SumFunction(F(m - 1)) + buybacks[m].weight =< SumFunction(F(n))}
<1>0. DOMAIN buybacks = 1..Len(buybacks) /\ Len(buybacks) \in Nat
      /\ \A k \in DOMAIN buybacks : buybacks[k].weight \in Nat
  BY BuybackIs
<1>1. ASSUME NEW n \in Nat, n =< Len(buybacks)
      PROVE  SumFunction(F(n)) \in Nat
  <2> DEFINE f == F(n)
  <2>1. DOMAIN f = 1..n /\ IsFiniteSet(1..n)
    BY FS_Interval
  <2>2. \A x \in 1..n : f[x] \in Nat
    BY <1>0, <1>1
  <2> HIDE DEF f
  <2>3. SumFunction(f) \in Nat
    BY <2>1, <2>2, SumOfFunction
  <2> QED
    BY <2>3 DEF f
<1>2. ASSUME NEW n \in Nat, n + 1 =< Len(buybacks)
      PROVE  SumFunction(F(n + 1)) = SumFunction(F(n)) + buybacks[n + 1].weight
  <2> DEFINE f == F(n + 1)
             g == F(n)
             S == 1..(n + 1)
             k == n + 1
  <2>1. DOMAIN f = S /\ IsFiniteSet(S) /\ k \in S /\ S \ {k} = 1..n /\ IsFiniteSet(1..n)
    <3>1. IsFiniteSet(S) /\ IsFiniteSet(1..n)
      BY FS_Interval
    <3>2. DOMAIN f = S
      OBVIOUS
    <3>3. k \in S /\ S \ {k} = 1..n
      OBVIOUS
    <3> QED
      BY <3>1, <3>2, <3>3
  <2>2. \A x \in S : f[x] \in Nat
    <3>1. \A x \in S : x \in DOMAIN buybacks
      BY <1>0, <1>2
    <3> QED
      BY <1>0, <3>1
  <2>3. \A x \in 1..n : f[x] = g[x]
    OBVIOUS
  <2>4. f[k] = buybacks[k].weight /\ DOMAIN g = 1..n
    OBVIOUS
  <2> HIDE DEF f, g, S, k
  <2>5. Sum(f, S) = Sum(f, S \ {k}) + f[k]
    BY <2>1, <2>2, SumTakes
  <2>6. Sum(f, 1..n) = Sum(g, 1..n)
    <3>1. \A x \in 1..n : f[x] \in Nat /\ f[x] = g[x]
      BY <2>1, <2>2, <2>3
    <3> QED
      BY <2>1, <3>1, SumSame
  <2>7. SumFunction(f) = Sum(f, S) /\ SumFunction(g) = Sum(g, 1..n)
    BY <2>1, <2>4 DEF SumFunction, Sum
  <2>8. SumFunction(f) = SumFunction(g) + buybacks[k].weight
    BY <2>1, <2>4, <2>5, <2>6, <2>7
  <2> QED
    BY <2>8 DEF f, g, k
<1> HIDE DEF F
<1>3. 0 \in T
  BY <1>1
<1>4. ASSUME NEW n \in T PROVE n + 1 \in T
  <2> SUFFICES ASSUME n + 1 =< Len(buybacks)
               PROVE  /\ SumFunction(F(n + 1)) \in Nat
                      /\ \A m \in 1..(n + 1) : SumFunction(F(m - 1)) + buybacks[m].weight =< SumFunction(F(n + 1))
    OBVIOUS
  <2>0. n \in Nat /\ n =< Len(buybacks) /\ n + 1 \in DOMAIN buybacks /\ (n + 1) - 1 = n
    <3>1. n \in Nat
      OBVIOUS
    <3> HIDE DEF T
    <3>2. n =< Len(buybacks) /\ n + 1 \in 1..Len(buybacks) /\ (n + 1) - 1 = n
      BY <1>0, <3>1
    <3> QED
      BY <1>0, <3>1, <3>2
  <2>1. SumFunction(F(n)) \in Nat /\ SumFunction(F(n + 1)) \in Nat
    BY <1>0, <1>1, <2>0
  <2>2. SumFunction(F(n + 1)) = SumFunction(F(n)) + buybacks[n + 1].weight
    BY <1>2, <2>0
  <2>3. \A m \in 1..n : /\ SumFunction(F(m - 1)) + buybacks[m].weight =< SumFunction(F(n))
                        /\ SumFunction(F(m - 1)) \in Nat /\ buybacks[m].weight \in Nat
    <3>1. \A m \in 1..n : m - 1 \in Nat /\ m - 1 =< Len(buybacks) /\ m \in DOMAIN buybacks
      BY <1>0, <2>0
    <3> QED
      BY <1>0, <1>1, <2>0, <3>1
  <2>4. ASSUME NEW m \in 1..(n + 1)
        PROVE  SumFunction(F(m - 1)) + buybacks[m].weight =< SumFunction(F(n + 1))
    <3>1. CASE m = n + 1
      BY <2>0, <2>1, <2>2, <3>1
    <3>2. CASE m # n + 1
      <4>1. m \in 1..n
        BY <2>0, <3>2
      <4> QED
        <5> DEFINE x == SumFunction(F(m - 1))
                   y == SumFunction(F(n))
                   z == SumFunction(F(n + 1))
                   u == buybacks[m].weight
                   v == buybacks[n + 1].weight
        <5>1. x + u =< y /\ x \in Nat /\ u \in Nat
          BY <2>3, <4>1
        <5>2. z = y + v /\ v \in Nat /\ y \in Nat
          BY <1>0, <2>0, <2>1, <2>2
        <5> HIDE DEF x, y, z, u, v
        <5>3. x + u =< z
          BY <5>1, <5>2
        <5> QED
          BY <5>3 DEF x, z, u
    <3> QED
      BY <3>1, <3>2
  <2> QED
    BY <2>1, <2>4
<1>5. T = Nat
  <2>1. T \in SUBSET Nat
    OBVIOUS
  <2> HIDE DEF T
  <2> QED
    BY <1>3, <1>4, <2>1, NatInd
<1>6. \A j \in DOMAIN buybacks : TicketsBefore(j) = SumFunction(F(j - 1))
  BY DEF TicketsBefore, F
<1>7. i - 1 \in Nat /\ i - 1 =< Len(buybacks)
  BY <1>0
<1>8. ASSUME NEW j \in DOMAIN buybacks, i < j
      PROVE  TicketsBefore(i) + buybacks[i].weight =< TicketsBefore(j)
  <2>1. j - 1 \in Nat /\ j - 1 =< Len(buybacks) /\ i \in 1..(j - 1)
    BY <1>0, <1>8
  <2>2. j - 1 \in T
    BY <1>5, <2>1
  <2>3. SumFunction(F(i - 1)) + buybacks[i].weight =< SumFunction(F(j - 1))
    BY <2>1, <2>2
  <2> QED
    BY <1>6, <2>3
<1>9. TicketsBefore(i) \in Nat
  BY <1>1, <1>6, <1>7
<1> QED
  BY <1>8, <1>9

(* The ticket numbers of some buybacks; an entry lists their buyers. *)
IntervalsOf(of) == {Interval(i) : i \in of}
Lists(e, of) == \A i \in of : buybacks[i].by \in e.sources /\ e.raw > 0
BoughtFor(list, w) == {i \in DOMAIN buybacks : Home(list, buybacks[i].by) = w}

(* What a refresh finds for a home: in the buybacks, in the grants, and in *)
(* the previous ledger.                                                    *)
RawOf(list, w) == SumFunction([i \in BoughtFor(list, w) |-> buybacks[i].weight])
BuyersOf(list, w) == UNION {Resolved(list, buybacks[i].by).from : i \in BoughtFor(list, w)}
GrantedTo(list, w) == {v \in DOMAIN Grants : Step(list, v) = w}
PracticeOf(list, w) == SumFunction([v \in GrantedTo(list, w) |-> Grants[v].practice])
GrantOf(list, w) == SumFunction([v \in GrantedTo(list, w) |-> Grants[v].grant])
CarriedTo(list, w) == SumFunction([p \in PreviousOf(list, w) |-> p.tickets]) \div Divisor
CarriedFrom(list, w) ==
  IF CarriedTo(list, w) > 0 THEN UNION {p.sources : p \in PreviousOf(list, w)} ELSE {}
SourcesOf(list, w) == {w} \cup BuyersOf(list, w) \cup GrantedTo(list, w) \cup CarriedFrom(list, w)

(* The buybacks of a home in an entry. *)
LEMMA BuybacksIn ==
  ASSUME LedgerTypes, NEW list, IsMoves(list), NEW e \in Entry, e.sources = {e.wallet}, NEW g, g = WithBuybacks(list, e),
         NEW of, of = BoughtFor(list, e.wallet)
  PROVE  /\ g \in Entry /\ g.wallet = e.wallet /\ g.intervals = IntervalsOf(of)
         /\ Lists(g, of) /\ IsFiniteSet(of)
         /\ g.raw = RawOf(list, e.wallet) /\ g.sources = e.sources \cup BuyersOf(list, e.wallet)
         /\ of = {} => g.raw = 0
         /\ IsList(list) => \A x \in g.sources : x = e.wallet \/ (of # {} /\ Home(list, x) = e.wallet)
         /\ g.carryover = e.carryover /\ g.practice = e.practice
         /\ g.taskReward = e.taskReward /\ g.insiderGrant = e.insiderGrant
<1> DEFINE s == e.sources \cup UNION {Resolved(list, buybacks[i].by).from : i \in of}
           f == [i \in of |-> buybacks[i].weight]
           r == SumFunction(f)
           v == {Interval(i) : i \in of}
<1>0. of = {i \in DOMAIN buybacks : Home(list, buybacks[i].by) = e.wallet}
  BY DEF BoughtFor
<1>1. \A i \in of : /\ buybacks[i].by \in Holders /\ buybacks[i].weight \in Nat /\ buybacks[i].weight > 0
                    /\ Home(list, buybacks[i].by) = e.wallet
  BY <1>0, BuybackIs
<1>2. IsFiniteSet(of)
  <2>1. of \subseteq 1..Len(buybacks) /\ (of # {} => Len(buybacks) \in Nat)
    BY <1>0, BuybackIs
  <2>2. CASE of = {}
    BY <2>2, FS_EmptySet
  <2>3. CASE of # {}
    <3>1. IsFiniteSet(1..Len(buybacks))
      BY <2>1, <2>3, FS_Interval
    <3> QED
      BY <2>1, <3>1, FS_Subset
  <2> QED
    BY <2>2, <2>3
<1>3. r \in Nat /\ (of = {} => r = 0) /\ \A i \in of : r > 0
  <2>1. DOMAIN f = of /\ \A i \in of : f[i] \in Nat /\ f[i] > 0
    BY <1>1
  <2> HIDE DEF f
  <2>2. r \in Nat /\ (of = {} => r = 0) /\ \A i \in of : r >= f[i]
    BY <1>2, <2>1, SumOfFunction
  <2> HIDE DEF r
  <2> QED
    BY <2>1, <2>2
<1>4. s \subseteq Holders /\ \A i \in of : buybacks[i].by \in s
  <2>1. \A i \in of : Resolved(list, buybacks[i].by).from \subseteq Holders
                      /\ buybacks[i].by \in Resolved(list, buybacks[i].by).from
    BY <1>1, HomeTyped
  <2>2. e.sources \subseteq Holders
    BY DEF Entry
  <2> QED
    BY <2>1, <2>2
<1>5. ASSUME IsList(list), NEW x \in s PROVE x = e.wallet \/ (of # {} /\ Home(list, x) = e.wallet)
  <2>1. CASE x \in e.sources
    BY <2>1
  <2>2. CASE x \notin e.sources
    <3>1. PICK i \in of : x \in Resolved(list, buybacks[i].by).from
      BY <2>2
    <3>2. Home(list, x) = Home(list, buybacks[i].by)
      BY <1>1, <1>5, <3>1, TogetherAtHome
    <3> QED
      BY <1>1, <3>1, <3>2
  <2> QED
    BY <2>1, <2>2
<1>6. v \in SUBSET [start : Nat, end : Nat]
  <2>1. ASSUME NEW i \in of PROVE Interval(i) \in [start : Nat, end : Nat]
    <3>1. TicketsBefore(i) \in Nat /\ buybacks[i].weight \in Nat
      BY <1>0, <1>1, TicketsBeforeGrow
    <3> QED
      BY <3>1 DEF Interval
  <2> QED
    BY <2>1
<1>7. g = [e EXCEPT !.sources = s, !.raw = r, !.intervals = v]
  BY <1>0 DEF WithBuybacks, Home
<1>7a. r = RawOf(list, e.wallet) /\ s = e.sources \cup BuyersOf(list, e.wallet)
  BY DEF RawOf, BuyersOf
<1> HIDE DEF s, r, v, f
<1>8. /\ g \in Entry /\ g.wallet = e.wallet /\ g.intervals = v /\ g.raw = r /\ g.sources = s
      /\ g.carryover = e.carryover /\ g.practice = e.practice
      /\ g.taskReward = e.taskReward /\ g.insiderGrant = e.insiderGrant
  <2>1. s \in SUBSET Holders
    BY <1>4
  <2> DEFINE V == SUBSET [start : Nat, end : Nat]
             R == [wallet : Holders, sources : SUBSET Holders, raw : Nat, carryover : Nat, practice : Nat,
                   taskReward : Nat, insiderGrant : Nat, intervals : V]
             e1 == [e EXCEPT !.sources = s]
             e2 == [e1 EXCEPT !.raw = r]
  <2>2. e \in R /\ v \in V /\ R = Entry
    BY <1>6 DEF Entry
  <2> HIDE DEF V
  <2>3. e1 \in R /\ e1.sources = s /\ e1.wallet = e.wallet /\ e1.carryover = e.carryover /\ e1.practice = e.practice
        /\ e1.taskReward = e.taskReward /\ e1.insiderGrant = e.insiderGrant
    BY <2>1, <2>2
  <2> HIDE DEF e1
  <2>4. e2 \in R /\ e2.sources = s /\ e2.raw = r /\ e2.wallet = e.wallet /\ e2.carryover = e.carryover
        /\ e2.practice = e.practice /\ e2.taskReward = e.taskReward /\ e2.insiderGrant = e.insiderGrant
    BY <1>3, <2>3
  <2>5. g = [e2 EXCEPT !.intervals = v]
    BY <1>7 DEF e1
  <2> HIDE DEF e2
  <2>6. g \in R /\ g.intervals = v /\ g.sources = s /\ g.raw = r /\ g.wallet = e.wallet /\ g.carryover = e.carryover
        /\ g.practice = e.practice /\ g.taskReward = e.taskReward /\ g.insiderGrant = e.insiderGrant
    BY <2>2, <2>4, <2>5
  <2> HIDE DEF R
  <2> QED
    BY <2>2, <2>6
<1>9. g.intervals = IntervalsOf(of) /\ Lists(g, of)
  BY <1>3, <1>4, <1>8 DEF v, IntervalsOf, Lists
<1> QED
  BY <1>2, <1>3, <1>4, <1>5, <1>7a, <1>8, <1>9

(* Its grants. *)
LEMMA GrantsIn ==
  ASSUME NEW list, IsMoves(list), NEW e \in Entry, NEW g, g = WithGrants(list, e),
         NEW of, of = GrantedTo(list, e.wallet)
  PROVE  /\ g \in Entry /\ g.wallet = e.wallet /\ g.intervals = e.intervals /\ g.raw = e.raw
         /\ g.carryover = e.carryover /\ g.taskReward = e.taskReward
         /\ of = {} => g.practice = 0 /\ g.insiderGrant = 0
         /\ g.practice = PracticeOf(list, e.wallet) /\ g.insiderGrant = GrantOf(list, e.wallet)
         /\ g.sources = e.sources \cup of /\ IsFiniteSet(of)
         /\ IsList(list) => \A x \in g.sources : x \in e.sources \/ (of # {} /\ Home(list, x) = e.wallet)
<1> DEFINE s == e.sources \cup of
           f == [w \in of |-> Grants[w].practice]
           h == [w \in of |-> Grants[w].grant]
           p == SumFunction(f)
           q == SumFunction(h)
<1>1. \A w \in of : /\ w \in Holders /\ Grants[w].practice \in Nat /\ Grants[w].grant \in Nat
                    /\ IsList(list) => Home(list, w) = e.wallet
  BY GrantsAtHome, TicketLedgerAssumption DEF GrantedTo
<1>2. IsFiniteSet(of)
  <2>1. of \subseteq Holders
    BY <1>1
  <2> QED
    BY <2>1, TicketLedgerAssumption, FS_Subset
<1>3. p \in Nat /\ q \in Nat /\ (of = {} => p = 0 /\ q = 0)
  <2>1. DOMAIN f = of /\ DOMAIN h = of /\ \A w \in of : f[w] \in Nat /\ h[w] \in Nat
    BY <1>1
  <2> HIDE DEF f, h
  <2> QED
    BY <1>2, <2>1, SumOfFunction
<1>4. s \in SUBSET Holders
  BY <1>1 DEF Entry
<1>5. g = [e EXCEPT !.sources = s, !.practice = p, !.insiderGrant = q]
  BY DEF WithGrants, GrantedTo
<1>5a. p = PracticeOf(list, e.wallet) /\ q = GrantOf(list, e.wallet) /\ s = e.sources \cup of
  BY DEF PracticeOf, GrantOf
<1>6. e.sources \subseteq s
      /\ IsList(list) => \A x \in s : x \in e.sources \/ (of # {} /\ Home(list, x) = e.wallet)
  BY <1>1
<1> HIDE DEF s, p, q, f, h
<1> DEFINE V == SUBSET [start : Nat, end : Nat]
           R == [wallet : Holders, sources : SUBSET Holders, raw : Nat, carryover : Nat, practice : Nat,
                 taskReward : Nat, insiderGrant : Nat, intervals : V]
           e1 == [e EXCEPT !.sources = s]
           e2 == [e1 EXCEPT !.practice = p]
<1>7. e \in R /\ R = Entry
  BY DEF Entry
<1> HIDE DEF V
<1>8. e1 \in R /\ e1.sources = s /\ e1.wallet = e.wallet /\ e1.carryover = e.carryover /\ e1.raw = e.raw
      /\ e1.taskReward = e.taskReward /\ e1.intervals = e.intervals
  BY <1>4, <1>7
<1> HIDE DEF e1
<1>9. e2 \in R /\ e2.sources = s /\ e2.wallet = e.wallet /\ e2.carryover = e.carryover /\ e2.raw = e.raw
      /\ e2.taskReward = e.taskReward /\ e2.intervals = e.intervals /\ e2.practice = p
  BY <1>3, <1>8
<1>10. g = [e2 EXCEPT !.insiderGrant = q]
  BY <1>5 DEF e1
<1> HIDE DEF e2
<1>11. g \in R /\ g.sources = s /\ g.wallet = e.wallet /\ g.carryover = e.carryover /\ g.raw = e.raw
       /\ g.taskReward = e.taskReward /\ g.intervals = e.intervals /\ g.practice = p /\ g.insiderGrant = q
  BY <1>3, <1>9, <1>10
<1> HIDE DEF R
<1> QED
  BY <1>2, <1>3, <1>5a, <1>6, <1>7, <1>11

(* Its carryover. *)
LEMMA CarryoverIn ==
  ASSUME NEW list, IsMoves(list), NEW e \in Entry, NEW g, g = WithCarryover(list, e)
  PROVE  /\ g \in Entry /\ g.wallet = e.wallet /\ g.intervals = e.intervals /\ g.raw = e.raw
         /\ g.practice = e.practice /\ g.taskReward = e.taskReward /\ g.insiderGrant = e.insiderGrant
         /\ PreviousOf(list, e.wallet) = {} => g.carryover = 0
         /\ g.carryover = CarriedTo(list, e.wallet)
         /\ g.sources = e.sources \cup CarriedFrom(list, e.wallet)
         /\ IsList(list) =>
              /\ \A x \in g.sources : x \in e.sources \/ Home(list, x) = e.wallet
              /\ PreviousOf(list, e.wallet) # {} => Home(list, e.wallet) = e.wallet
<1> DEFINE of == PreviousOf(list, e.wallet)
           f == [p \in of |-> p.tickets]
           n == SumFunction(f)
           t == n \div Divisor
           s == e.sources \cup (IF t > 0 THEN UNION {p.sources : p \in of} ELSE {})
<1>1. \A p \in of : /\ p \in Previous /\ p.tickets \in Nat /\ p.wallet \in p.sources /\ Step(list, p.wallet) = e.wallet
                    /\ \A x \in p.sources : x \in Holders /\ (IsList(list) => Home(list, x) = e.wallet)
  BY PreviousAtHome, TicketLedgerAssumption DEF PreviousOf
<1>2. IsFiniteSet(of)
  <2>1. of \subseteq Previous
    BY <1>1
  <2> QED
    BY <2>1, TicketLedgerAssumption, FS_Subset
<1>3. n \in Nat /\ (of = {} => n = 0)
  <2>1. DOMAIN f = of /\ \A p \in of : f[p] \in Nat
    BY <1>1
  <2> HIDE DEF f, of
  <2> QED
    BY <1>2, <2>1, SumOfFunction
<1> HIDE DEF n
<1>4. t \in Nat /\ (of = {} => t = 0)
  <2>1. Divisor \in Nat /\ Divisor > 0
    BY TicketLedgerAssumption
  <2>2. n \div Divisor \in Nat /\ (n = 0 => n \div Divisor = 0)
    BY <1>3, <2>1
  <2> QED
    BY <1>3, <2>2
<1>5. s \in SUBSET Holders
  <2>1. e.sources \subseteq Holders
    BY DEF Entry
  <2> QED
    BY <1>1, <2>1
<1>5a. ASSUME IsList(list) PROVE \A x \in s : x \in e.sources \/ Home(list, x) = e.wallet
  BY <1>1, <1>5a
<1>6. g = [e EXCEPT !.carryover = t, !.sources = s]
  BY DEF WithCarryover, n
<1>6a. t = CarriedTo(list, e.wallet) /\ s = e.sources \cup CarriedFrom(list, e.wallet)
  BY DEF CarriedTo, CarriedFrom, n
<1>7. ASSUME IsList(list) PROVE of # {} => Home(list, e.wallet) = e.wallet
  <2> SUFFICES ASSUME NEW p \in of PROVE Home(list, e.wallet) = e.wallet
    OBVIOUS
  <2>1. Home(list, p.wallet) = e.wallet /\ p.wallet \in Holders
    BY <1>1, <1>7
  <2> QED
    BY <1>7, <2>1, HomeIsHome
<1> HIDE DEF s, t, of
<1> DEFINE V == SUBSET [start : Nat, end : Nat]
           R == [wallet : Holders, sources : SUBSET Holders, raw : Nat, carryover : Nat, practice : Nat,
                 taskReward : Nat, insiderGrant : Nat, intervals : V]
           e1 == [e EXCEPT !.carryover = t]
<1>8. e \in R /\ R = Entry
  BY DEF Entry
<1> HIDE DEF V
<1>9. e1 \in R /\ e1.wallet = e.wallet /\ e1.carryover = t /\ e1.raw = e.raw /\ e1.practice = e.practice
      /\ e1.taskReward = e.taskReward /\ e1.intervals = e.intervals /\ e1.insiderGrant = e.insiderGrant
  BY <1>4, <1>8
<1>10. g = [e1 EXCEPT !.sources = s]
  BY <1>6
<1> HIDE DEF e1
<1>11. g \in R /\ g.wallet = e.wallet /\ g.carryover = t /\ g.raw = e.raw /\ g.practice = e.practice
       /\ g.taskReward = e.taskReward /\ g.intervals = e.intervals /\ g.insiderGrant = e.insiderGrant /\ g.sources = s
  BY <1>5, <1>9, <1>10
<1> HIDE DEF R
<1>12. IsList(list) => /\ \A x \in g.sources : x \in e.sources \/ Home(list, x) = e.wallet
                       /\ of # {} => Home(list, e.wallet) = e.wallet
  BY <1>5a, <1>7, <1>11
<1>13. g \in Entry
  BY <1>8, <1>11
<1>14. g.carryover = CarriedTo(list, e.wallet) /\ g.sources = e.sources \cup CarriedFrom(list, e.wallet)
  BY <1>6a, <1>11
<1> QED
  BY <1>4, <1>11, <1>12, <1>13, <1>14 DEF of

(* An entry that a refresh makes, and what it lists. *)
NewEntry(list, w) == WithCarryover(list, WithGrants(list, WithBuybacks(list, emptyEntry(w))))

LEMMA NewEntryIs ==
  ASSUME LedgerTypes, NEW list, IsMoves(list), NEW w \in Holders, NEW e, e = NewEntry(list, w),
         NEW of, of = BoughtFor(list, w)
  PROVE  /\ e \in Entry /\ e.wallet = w /\ e.intervals = IntervalsOf(of)
         /\ Lists(e, of)
         /\ of # {} => totalVotingTickets(e) > 0
         /\ IsList(list) /\ totalVotingTickets(e) > 0 => \A x \in e.sources : Home(list, x) = w
         /\ e.raw = RawOf(list, w) /\ e.carryover = CarriedTo(list, w) /\ e.practice = PracticeOf(list, w)
         /\ e.insiderGrant = GrantOf(list, w) /\ e.taskReward = 0 /\ e.sources = SourcesOf(list, w)
<1> DEFINE a == emptyEntry(w)
           b == WithBuybacks(list, a)
           c == WithGrants(list, b)
           given == GrantedTo(list, w)
<1>1. /\ a \in Entry /\ a.wallet = w /\ a.sources = {w} /\ a.carryover = 0
      /\ a.practice = 0 /\ a.taskReward = 0 /\ a.insiderGrant = 0
  BY EmptyEntryIs
<1>2. e = WithCarryover(list, c)
  BY DEF NewEntry
<1> HIDE DEF a
<1>a. b = WithBuybacks(list, a) /\ of = BoughtFor(list, a.wallet)
      /\ a.sources = {a.wallet}
  BY <1>1
<1>b. c = WithGrants(list, b)
  OBVIOUS
<1>3. /\ b \in Entry /\ b.wallet = w /\ b.intervals = IntervalsOf(of)
      /\ Lists(b, of)
      /\ of = {} => b.raw = 0
      /\ IsList(list) => \A x \in b.sources : x = w \/ (of # {} /\ Home(list, x) = w)
      /\ b.carryover = 0 /\ b.taskReward = 0
      /\ b.raw = RawOf(list, w) /\ b.sources = {w} \cup BuyersOf(list, w)
  <2> HIDE DEF b
  <2>1. /\ b \in Entry /\ b.wallet = a.wallet /\ b.intervals = IntervalsOf(of)
        /\ Lists(b, of)
        /\ of = {} => b.raw = 0
        /\ IsList(list) => \A x \in b.sources : x = a.wallet \/ (of # {} /\ Home(list, x) = a.wallet)
        /\ b.raw = RawOf(list, a.wallet) /\ b.sources = a.sources \cup BuyersOf(list, a.wallet)
        /\ b.carryover = a.carryover /\ b.practice = a.practice
        /\ b.taskReward = a.taskReward /\ b.insiderGrant = a.insiderGrant
    BY <1>1, <1>a, BuybacksIn
  <2> QED
    BY <1>1, <2>1
<1> HIDE DEF b
<1>c. given = GrantedTo(list, b.wallet)
  BY <1>3
<1>4. /\ c \in Entry /\ c.wallet = w /\ c.intervals = b.intervals /\ c.raw = b.raw
      /\ c.carryover = 0 /\ c.taskReward = 0
      /\ given = {} => c.practice = 0 /\ c.insiderGrant = 0
      /\ c.sources = b.sources \cup given
      /\ c.practice = PracticeOf(list, w) /\ c.insiderGrant = GrantOf(list, w)
      /\ IsList(list) => \A x \in c.sources : x \in b.sources \/ (given # {} /\ Home(list, x) = w)
  <2> HIDE DEF c, given
  <2>1. /\ c \in Entry /\ c.wallet = b.wallet /\ c.intervals = b.intervals /\ c.raw = b.raw
        /\ c.carryover = b.carryover /\ c.taskReward = b.taskReward
        /\ given = {} => c.practice = 0 /\ c.insiderGrant = 0
        /\ c.sources = b.sources \cup given
        /\ c.practice = PracticeOf(list, b.wallet) /\ c.insiderGrant = GrantOf(list, b.wallet)
        /\ IsList(list) => \A x \in c.sources : x \in b.sources \/ (given # {} /\ Home(list, x) = b.wallet)
    BY <1>3, <1>b, <1>c, GrantsIn
  <2> QED
    BY <1>3, <2>1
<1> HIDE DEF c
<1>5. /\ e \in Entry /\ e.wallet = w /\ e.intervals = c.intervals /\ e.raw = c.raw
      /\ e.practice = c.practice /\ e.taskReward = 0 /\ e.insiderGrant = c.insiderGrant
      /\ PreviousOf(list, w) = {} => e.carryover = 0
      /\ e.sources = c.sources \cup CarriedFrom(list, w) /\ e.carryover = CarriedTo(list, w)
      /\ IsList(list) =>
           /\ \A x \in e.sources : x \in c.sources \/ Home(list, x) = w
           /\ PreviousOf(list, w) # {} => Home(list, w) = w
  BY <1>2, <1>4, CarryoverIn
<1>6. IsList(list) /\ of # {} => Home(list, w) = w
  <2> SUFFICES ASSUME IsList(list), NEW i \in of PROVE Home(list, w) = w
    OBVIOUS
  <2>1. buybacks[i].by \in Holders /\ Home(list, buybacks[i].by) = w
    BY BuybackIs DEF BoughtFor
  <2> QED
    BY <2>1, HomeIsHome
<1>7. IsList(list) /\ given # {} => Home(list, w) = w
  <2> SUFFICES ASSUME IsList(list), NEW v \in given PROVE Home(list, w) = w
    OBVIOUS
  <2>1. v \in Holders /\ Home(list, v) = w
    BY GrantsAtHome DEF GrantedTo
  <2> QED
    BY <2>1, HomeIsHome
<1> HIDE DEF given
<1>8. of # {} => totalVotingTickets(e) > 0
  BY <1>3, <1>4, <1>5, TotalIs DEF Lists
<1>9. IsList(list) /\ totalVotingTickets(e) > 0 => Home(list, w) = w
  <2> SUFFICES ASSUME IsList(list), Home(list, w) # w PROVE totalVotingTickets(e) = 0
    OBVIOUS
  <2>1. of = {} /\ given = {} /\ PreviousOf(list, w) = {}
    BY <1>5, <1>6, <1>7
  <2>2. e.raw = 0 /\ e.carryover = 0 /\ e.practice = 0 /\ e.taskReward = 0 /\ e.insiderGrant = 0
    BY <1>3, <1>4, <1>5, <2>1
  <2> QED
    BY <1>5, <2>2, TotalIs
<1>10. IsList(list) /\ totalVotingTickets(e) > 0 => \A x \in e.sources : Home(list, x) = w
  BY <1>3, <1>4, <1>5, <1>9
<1>11. Lists(e, of)
  BY <1>3, <1>4, <1>5 DEF Lists
<1>12. e.sources = SourcesOf(list, w)
  <2>1. given = GrantedTo(list, w)
    BY <1>c, <1>3
  <2>2. b.sources = {w} \cup BuyersOf(list, w)
    BY <1>3
  <2>3. c.sources = b.sources \cup given
    BY <1>4
  <2>4. e.sources = c.sources \cup CarriedFrom(list, w)
    BY <1>5
  <2> QED
    BY <2>1, <2>2, <2>3, <2>4, Zenon DEF SourcesOf
<1> QED
  BY <1>3, <1>4, <1>5, <1>8, <1>10, <1>11, <1>12

(* At first there is nothing. *)
LEMMA LedgerBegins == TicketLedgerInit => TicketLedgerInv
<1> SUFFICES ASSUME TicketLedgerInit PROVE TicketLedgerInv
  OBVIOUS
<1> USE DEF TicketLedgerInit, NoLedger
<1>1. LedgerTypes
  BY DEF LedgerTypes, IsMoves
<1>2. OneEntry /\ OwnBuybacks /\ AllListed /\ AtHome
  BY DEF OneEntry, OwnBuybacks, AllListed, AtHome
<1> QED
  BY <1>1, <1>2 DEF TicketLedgerInv

(* A buyback comes after all that the file counts. *)
LEMMA BuybackKeepsLedger ==
  ASSUME TicketLedgerInv, NEW w \in Holders, NEW n \in Weights, Buyback(w, n) PROVE TicketLedgerInv'
<1> DEFINE N == Len(buybacks)
           new == [by |-> w, weight |-> n]
<1>1. LedgerTypes /\ OneEntry /\ OwnBuybacks /\ AllListed /\ AtHome
  BY DEF TicketLedgerInv
<1>2. buybacks' = Append(buybacks, new) /\ UNCHANGED <<migrations, cachedList, ledgerFile>>
  BY DEF Buyback
<1>3. buybacks \in Seq(Bought) /\ new \in Bought
  BY <1>1 DEF LedgerTypes, Bought
<1> HIDE DEF new
<1>4. /\ N \in Nat /\ buybacks' \in Seq(Bought) /\ Len(buybacks') = N + 1
      /\ \A i \in 1..N : buybacks'[i] = buybacks[i]
  <2> HIDE DEF Bought
  <2> QED
    BY <1>2, <1>3
<1>5. ledgerFile.counts \in 0..N
  BY <1>1 DEF LedgerTypes
<1>6. ASSUME NEW i \in 1..N PROVE Interval(i)' = Interval(i)
  <2>1. \A j \in 1..(i - 1) : buybacks'[j].weight = buybacks[j].weight
    BY <1>4
  <2>2. TicketsBefore(i)' = TicketsBefore(i)
    BY <2>1 DEF TicketsBefore
  <2> QED
    BY <1>4, <2>2 DEF Interval
<1>7. \A i \in 1..ledgerFile.counts : i \in 1..N
  BY <1>4, <1>5
<1>8. \A x : OfHome(x)' = OfHome(x)
  BY <1>2, <1>4, <1>7 DEF OfHome
<1>9. LedgerTypes'
  <2>1. ledgerFile.counts \in 0..(N + 1)
    BY <1>4, <1>5
  <2> QED
    BY <1>1, <1>2, <1>4, <2>1 DEF LedgerTypes
<1>10. OneEntry'
  BY <1>1, <1>2 DEF OneEntry
<1>11. OwnBuybacks'
  <2> SUFFICES ASSUME NEW e \in ledgerFile.entries
               PROVE  /\ e.intervals = {Interval(i)' : i \in OfHome(e.wallet)}
                      /\ \A i \in OfHome(e.wallet) : buybacks'[i].by \in e.sources /\ e.raw > 0
    BY <1>2, <1>8 DEF OwnBuybacks
  <2>1. \A i \in OfHome(e.wallet) : Interval(i)' = Interval(i) /\ buybacks'[i] = buybacks[i]
    BY <1>4, <1>6, <1>7 DEF OfHome
  <2>2. /\ e.intervals = {Interval(i) : i \in OfHome(e.wallet)}
        /\ \A i \in OfHome(e.wallet) : buybacks[i].by \in e.sources /\ e.raw > 0
    BY <1>1 DEF OwnBuybacks
  <2>3. {Interval(i)' : i \in OfHome(e.wallet)} = {Interval(i) : i \in OfHome(e.wallet)}
    BY <2>1
  <2> QED
    BY <2>1, <2>2, <2>3
<1>12. AllListed'
  BY <1>1, <1>2, <1>4, <1>7 DEF AllListed
<1>13. AtHome'
  BY <1>1, <1>2 DEF AtHome
<1> QED
  BY <1>9, <1>10, <1>11, <1>12, <1>13 DEF TicketLedgerInv

(* A migration leads to who has not moved, and nobody had moved to who     *)
(* moves.                                                                  *)
LEMMA MigrateKeepsLedger ==
  ASSUME TicketLedgerInv, NEW old \in Holders, NEW new \in Holders, Migrate(old, new) PROVE TicketLedgerInv'
<1>1. LedgerTypes /\ OneEntry /\ OwnBuybacks /\ AllListed /\ AtHome
  BY DEF TicketLedgerInv
<1>2. UNCHANGED <<buybacks, cachedList, completed, ledgerFile>>
  BY DEF Migrate
<1> DEFINE M == [w \in DOMAIN migrations \cup {old} |-> IF w = old THEN new ELSE migrations[w]]
<1>4. IsMoves(migrations')
  <2>1. IsMoves(migrations)
    BY <1>1 DEF LedgerTypes
  <2>2. migrations' = M
    BY DEF Migrate
  <2> QED
    BY <2>1, <2>2 DEF IsMoves
<1>5. LedgerTypes'
  BY <1>1, <1>2, <1>4 DEF LedgerTypes
<1>6. OneEntry' /\ AtHome'
  BY <1>1, <1>2 DEF OneEntry, AtHome
<1>7. OwnBuybacks'
  <2>1. \A i : Interval(i)' = Interval(i)
    BY <1>2 DEF Interval, TicketsBefore
  <2>2. \A x : OfHome(x)' = OfHome(x)
    BY <1>2 DEF OfHome
  <2> QED
    BY <1>1, <1>2, <2>1, <2>2 DEF OwnBuybacks
<1>8. AllListed'
  BY <1>1, <1>2 DEF AllListed
<1> QED
  BY <1>5, <1>6, <1>7, <1>8 DEF TicketLedgerInv

(* A refresh makes one entry for each home. *)
LEMMA RefreshKeepsLedger ==
  ASSUME TicketLedgerInv, NEW list \in {cachedList, migrations}, RefreshLedger(list) PROVE TicketLedgerInv'
<1> DEFINE E == {NewEntry(list, w) : w \in Holders}
           N == Len(buybacks)
<1>1. LedgerTypes /\ OneEntry /\ OwnBuybacks /\ AllListed /\ AtHome
  BY DEF TicketLedgerInv
<1>2. IsMoves(list)
  BY <1>1 DEF LedgerTypes
<1>3. /\ ledgerFile' = [entries |-> finalizeEntries(E), counts |-> N, list |-> list, by |-> "refresh"]
      /\ cachedList' = list /\ UNCHANGED <<buybacks, migrations, completed>>
  BY DEF RefreshLedger, ReadList, NewEntry
<1> DEFINE new == finalizeEntries(E)
<1>4. /\ ledgerFile'.entries = new /\ ledgerFile'.counts = N /\ ledgerFile'.list = list
      /\ ledgerFile'.by = "refresh"
  BY <1>3
<1>5. \A e \in new : \E w \in Holders : e = NewEntry(list, w) /\ totalVotingTickets(e) > 0
  BY DEF finalizeEntries
<1>6. \A w \in Holders : totalVotingTickets(NewEntry(list, w)) > 0 => NewEntry(list, w) \in new
  BY DEF finalizeEntries
<1> DEFINE O(w) == BoughtFor(list, w)
<1>7. ASSUME NEW w \in Holders, NEW e, e = NewEntry(list, w)
      PROVE  /\ e \in Entry /\ e.wallet = w /\ e.intervals = IntervalsOf(O(w)) /\ Lists(e, O(w))
             /\ O(w) # {} => totalVotingTickets(e) > 0
             /\ IsList(list) /\ totalVotingTickets(e) > 0 => \A x \in e.sources : Home(list, x) = w
  BY <1>1, <1>2, <1>7, NewEntryIs
<1>8. N \in Nat /\ DOMAIN buybacks = 1..N
  <2>1. buybacks \in Seq(Bought)
    BY <1>1 DEF LedgerTypes
  <2> HIDE DEF Bought
  <2> QED
    BY <2>1
<1>9. \A x : OfHome(x)' = O(x)
  BY <1>3, <1>4, <1>8 DEF OfHome, BoughtFor
<1>10. \A i : Interval(i)' = Interval(i)
  BY <1>3 DEF Interval, TicketsBefore
<1> HIDE DEF new, O
<1>11. LedgerTypes'
  <2>1. new \subseteq Entry
    BY <1>5, <1>7
  <2>2. N \in 0..N
    BY <1>8
  <2> QED
    BY <1>1, <1>2, <1>3, <1>4, <2>1, <2>2 DEF LedgerTypes
<1>12. OneEntry'
  <2>1. ASSUME NEW d \in new, NEW e \in new, d.wallet = e.wallet PROVE d = e
    <3>1. PICK v \in Holders : d = NewEntry(list, v)
      BY <1>5
    <3>2. PICK w \in Holders : e = NewEntry(list, w)
      BY <1>5
    <3>3. d.wallet = v /\ e.wallet = w
      BY <1>7, <3>1, <3>2
    <3> QED
      BY <2>1, <3>1, <3>2, <3>3
  <2> QED
    BY <1>4, <2>1 DEF OneEntry
<1>13. OwnBuybacks'
  <2> SUFFICES ASSUME NEW e \in new
               PROVE  /\ e.intervals = {Interval(i) : i \in O(e.wallet)}
                      /\ \A i \in O(e.wallet) : buybacks[i].by \in e.sources /\ e.raw > 0
    BY <1>3, <1>4, <1>9, <1>10 DEF OwnBuybacks
  <2>1. PICK w \in Holders : e = NewEntry(list, w)
    BY <1>5
  <2>2. e.wallet = w /\ e.intervals = IntervalsOf(O(w)) /\ Lists(e, O(w))
    BY <1>7, <2>1
  <2> QED
    BY <2>2 DEF IntervalsOf, Lists
<1>14. AllListed'
  <2> SUFFICES ASSUME NEW i \in 1..N
               PROVE  \E e \in new : e.wallet = Home(list, buybacks[i].by)
    BY <1>3, <1>4 DEF AllListed
  <2> DEFINE w == Home(list, buybacks[i].by)
  <2>1. i \in DOMAIN buybacks /\ buybacks[i].by \in Holders
    BY <1>1, <1>8, BuybackIs
  <2>2. w \in Holders /\ i \in O(w)
    BY <1>2, <2>1, HomeTyped DEF O, BoughtFor
  <2>3. totalVotingTickets(NewEntry(list, w)) > 0 /\ NewEntry(list, w).wallet = w
    <3> HIDE DEF w
    <3> QED
      BY <1>7, <2>2
  <2> QED
    BY <1>6, <2>2, <2>3
<1>15. AtHome'
  <2> SUFFICES ASSUME Plain(list), NEW e \in new, NEW x \in e.sources PROVE Home(list, x) = e.wallet
    BY <1>4 DEF AtHome
  <2>1. PICK w \in Holders : e = NewEntry(list, w) /\ totalVotingTickets(e) > 0
    BY <1>5
  <2> QED
    BY <1>2, <1>7, <2>1 DEF IsList
<1> QED
  BY <1>11, <1>12, <1>13, <1>14, <1>15 DEF TicketLedgerInv

(* The script changes the carryover of the entries there are, and adds     *)
(* those it needs.                                                         *)
LEMMA ApplyKeepsLedger ==
  ASSUME TicketLedgerInv, NEW list \in {cachedList, migrations}, ApplyCarryover(list) PROVE TicketLedgerInv'
<1> DEFINE old == ledgerFile.entries
           missing == {emptyEntry(w) : w \in Holders \ {e.wallet : e \in old}}
           all == {WithCarryover(list, e) : e \in old \cup missing}
           new == finalizeEntries(all)
<1>1. LedgerTypes /\ OneEntry /\ OwnBuybacks /\ AllListed /\ AtHome
  BY DEF TicketLedgerInv
<1>2. IsMoves(list) /\ old \subseteq Entry
  BY <1>1 DEF LedgerTypes
<1>3. /\ ledgerFile' = [entries |-> new, counts |-> ledgerFile.counts, list |-> ledgerFile.list,
                        by |-> IF list = ledgerFile.list THEN ledgerFile.by ELSE "script"]
      /\ cachedList' = list /\ UNCHANGED <<buybacks, migrations, completed>>
  BY DEF ApplyCarryover, ReadList
<1>4. /\ ledgerFile'.entries = new /\ ledgerFile'.counts = ledgerFile.counts /\ ledgerFile'.list = ledgerFile.list
      /\ ledgerFile'.by = "refresh" => list = ledgerFile.list /\ ledgerFile.by = "refresh"
  <2> HIDE DEF new
  <2> QED
    BY <1>3
<1>5. \A m \in missing : /\ m \in Entry /\ m.wallet \in Holders /\ m = emptyEntry(m.wallet)
                         /\ m.sources = {m.wallet} /\ m.intervals = {}
                         /\ \A e \in old : e.wallet # m.wallet
                         /\ m.raw = 0 /\ m.practice = 0 /\ m.taskReward = 0 /\ m.insiderGrant = 0
  <2> SUFFICES ASSUME NEW w \in Holders \ {e.wallet : e \in old}, NEW m, m = emptyEntry(w)
               PROVE  /\ m \in Entry /\ m.wallet \in Holders /\ m = emptyEntry(m.wallet)
                      /\ m.sources = {m.wallet} /\ m.intervals = {}
                      /\ \A e \in old : e.wallet # m.wallet
                      /\ m.raw = 0 /\ m.practice = 0 /\ m.taskReward = 0 /\ m.insiderGrant = 0
    OBVIOUS
  <2>1. /\ m \in Entry /\ m.wallet = w /\ m.sources = {w} /\ m.raw = 0
        /\ m.practice = 0 /\ m.taskReward = 0 /\ m.insiderGrant = 0 /\ m.intervals = {}
    BY EmptyEntryIs
  <2> QED
    BY <2>1
<1>6. \A g \in new : \E e \in old \cup missing : g = WithCarryover(list, e) /\ totalVotingTickets(g) > 0
  BY DEF finalizeEntries
<1>7. \A e \in old : totalVotingTickets(WithCarryover(list, e)) > 0 => WithCarryover(list, e) \in new
  BY DEF finalizeEntries
<1>8. \A e \in old \cup missing : e \in Entry
  BY <1>2, <1>5
<1>9. ASSUME NEW e \in old \cup missing, NEW g, g = WithCarryover(list, e)
      PROVE  /\ g \in Entry /\ g.wallet = e.wallet /\ g.intervals = e.intervals /\ g.raw = e.raw
             /\ g.practice = e.practice /\ g.taskReward = e.taskReward /\ g.insiderGrant = e.insiderGrant
             /\ PreviousOf(list, e.wallet) = {} => g.carryover = 0
             /\ e.sources \subseteq g.sources
             /\ IsList(list) =>
                  /\ \A x \in g.sources : x \in e.sources \/ Home(list, x) = e.wallet
                  /\ PreviousOf(list, e.wallet) # {} => Home(list, e.wallet) = e.wallet
  <2>1. e \in Entry
    BY <1>8
  <2> QED
    BY <1>2, <1>9, <2>1, CarryoverIn
<1>10. \A d, e \in old \cup missing : d.wallet = e.wallet => d = e
  BY <1>1, <1>5 DEF OneEntry
<1>11. \A x : OfHome(x)' = OfHome(x)
  BY <1>3, <1>4 DEF OfHome
<1>12. \A i : Interval(i)' = Interval(i)
  BY <1>3 DEF Interval, TicketsBefore
<1>13. ASSUME NEW i \in 1..ledgerFile.counts
       PROVE  \E e \in old : e.wallet = Home(ledgerFile.list, buybacks[i].by) /\ i \in OfHome(e.wallet)
  BY <1>1 DEF AllListed, OfHome
<1> HIDE DEF new, all, missing, old
<1>14. LedgerTypes'
  <2>1. new \subseteq Entry
    BY <1>6, <1>9
  <2> QED
    BY <1>1, <1>2, <1>3, <1>4, <2>1 DEF LedgerTypes
<1>15. OneEntry'
  <2>1. ASSUME NEW f \in new, NEW g \in new, f.wallet = g.wallet PROVE f = g
    <3>1. PICK d \in old \cup missing : f = WithCarryover(list, d)
      BY <1>6
    <3>2. PICK e \in old \cup missing : g = WithCarryover(list, e)
      BY <1>6
    <3>3. f.wallet = d.wallet /\ g.wallet = e.wallet
      BY <1>9, <3>1, <3>2
    <3>4. d = e
      BY <1>10, <2>1, <3>3
    <3> QED
      BY <3>1, <3>2, <3>4
  <2> QED
    BY <1>4, <2>1 DEF OneEntry
<1>16. OwnBuybacks'
  <2> SUFFICES ASSUME NEW g \in new
               PROVE  /\ g.intervals = {Interval(i) : i \in OfHome(g.wallet)}
                      /\ \A i \in OfHome(g.wallet) : buybacks[i].by \in g.sources /\ g.raw > 0
    BY <1>3, <1>4, <1>11, <1>12 DEF OwnBuybacks
  <2>1. PICK e \in old \cup missing : g = WithCarryover(list, e)
    BY <1>6
  <2>2. g.wallet = e.wallet /\ g.intervals = e.intervals /\ g.raw = e.raw /\ e.sources \subseteq g.sources
    BY <1>9, <2>1
  <2>3. CASE e \in old
    <3>1. /\ e.intervals = {Interval(i) : i \in OfHome(e.wallet)}
          /\ \A i \in OfHome(e.wallet) : buybacks[i].by \in e.sources /\ e.raw > 0
      BY <1>1, <2>3 DEF OwnBuybacks, old
    <3> QED
      BY <2>2, <3>1
  <2>4. CASE e \in missing
    <3>1. OfHome(e.wallet) = {}
      <4> SUFFICES ASSUME NEW i \in OfHome(e.wallet) PROVE FALSE
        OBVIOUS
      <4>1. i \in 1..ledgerFile.counts /\ Home(ledgerFile.list, buybacks[i].by) = e.wallet
        BY DEF OfHome
      <4> QED
        BY <1>5, <1>13, <2>4, <4>1
    <3>2. e.intervals = {}
      BY <1>5, <2>4
    <3> QED
      BY <2>2, <3>1, <3>2
  <2> QED
    BY <2>3, <2>4
<1>17. AllListed'
  <2> SUFFICES ASSUME NEW i \in 1..ledgerFile.counts
               PROVE  \E g \in new : g.wallet = Home(ledgerFile.list, buybacks[i].by)
    BY <1>3, <1>4 DEF AllListed
  <2>1. PICK e \in old : e.wallet = Home(ledgerFile.list, buybacks[i].by) /\ i \in OfHome(e.wallet)
    BY <1>13
  <2>2. e.raw > 0
    BY <1>1, <2>1 DEF OwnBuybacks, old
  <2> DEFINE g == WithCarryover(list, e)
  <2>3. g \in Entry /\ g.wallet = e.wallet /\ g.raw = e.raw
    BY <1>9
  <2>4. totalVotingTickets(g) > 0
    <3> HIDE DEF g
    <3> QED
      BY <2>2, <2>3, TotalIs
  <2> QED
    BY <1>7, <2>1, <2>3, <2>4
<1>18. AtHome'
  <2> SUFFICES ASSUME ledgerFile'.by = "refresh", Plain(ledgerFile.list), NEW g \in new, NEW x \in g.sources
               PROVE  Home(ledgerFile.list, x) = g.wallet
    BY <1>4 DEF AtHome
  <2>1. list = ledgerFile.list /\ ledgerFile.by = "refresh" /\ IsList(list)
    BY <1>2, <1>4 DEF IsList
  <2>2. PICK e \in old \cup missing : g = WithCarryover(list, e) /\ totalVotingTickets(g) > 0
    BY <1>6
  <2>3. g.wallet = e.wallet /\ (x \in e.sources \/ Home(list, x) = e.wallet)
    BY <1>9, <2>1, <2>2
  <2>4. CASE e \in old
    BY <1>1, <2>1, <2>3, <2>4 DEF AtHome, old
  <2>5. CASE e \in missing
    <3>1. /\ e.sources = {e.wallet} /\ e.raw = 0 /\ e.practice = 0 /\ e.taskReward = 0 /\ e.insiderGrant = 0
      BY <1>5, <2>5
    <3>2. PreviousOf(list, e.wallet) # {}
      <4> SUFFICES ASSUME PreviousOf(list, e.wallet) = {} PROVE FALSE
        OBVIOUS
      <4>1. g \in Entry /\ g.raw = 0 /\ g.practice = 0 /\ g.taskReward = 0 /\ g.insiderGrant = 0 /\ g.carryover = 0
        BY <1>9, <2>2, <3>1
      <4>2. totalVotingTickets(g) = 0
        BY <4>1, TotalIs
      <4> QED
        BY <2>2, <4>2
    <3>3. Home(list, e.wallet) = e.wallet
      BY <1>9, <2>1, <2>2, <3>2
    <3> QED
      BY <2>1, <2>3, <3>1, <3>3
  <2> QED
    BY <2>4, <2>5
<1> QED
  BY <1>14, <1>15, <1>16, <1>17, <1>18 DEF TicketLedgerInv

(* Then every ticket has one owner. *)
LEMMA LedgerHasOwners ==
  ASSUME TicketLedgerInv PROVE EveryTicketHasOneOwner
<1>1. LedgerTypes /\ OneEntry /\ OwnBuybacks /\ AllListed /\ AtHome
  BY DEF TicketLedgerInv
<1> SUFFICES ASSUME NEW i \in 1..ledgerFile.counts,
                    NEW t \in (TicketsBefore(i) + 1)..(TicketsBefore(i) + buybacks[i].weight)
             PROVE  LET owners == {e \in ledgerFile.entries : \E r \in e.intervals : t \in r.start..r.end}
                    IN  /\ Cardinality(owners) = 1
                        /\ \A e \in owners : Cardinality({r \in e.intervals : t \in r.start..r.end}) = 1
                        /\ ledgerFile.by = "refresh" /\ Plain(ledgerFile.list) => owners = {FoundIn(ledgerFile.entries, buybacks[i].by)}
  BY DEF EveryTicketHasOneOwner
<1> DEFINE owners == {e \in ledgerFile.entries : \E r \in e.intervals : t \in r.start..r.end}
<1>2. /\ ledgerFile.counts \in 0..Len(buybacks) /\ Len(buybacks) \in Nat
      /\ DOMAIN buybacks = 1..Len(buybacks) /\ ledgerFile.entries \subseteq Entry
  <2>1. buybacks \in Seq(Bought)
    BY <1>1 DEF LedgerTypes
  <2>2. Len(buybacks) \in Nat /\ DOMAIN buybacks = 1..Len(buybacks)
    <3> HIDE DEF Bought
    <3> QED
      BY <2>1
  <2> QED
    BY <1>1, <2>2 DEF LedgerTypes
<1>3. \A j \in 1..ledgerFile.counts : j \in DOMAIN buybacks
  BY <1>2
<1>4. \A j \in 1..ledgerFile.counts : t \in Interval(j).start..Interval(j).end <=> j = i
  <2>1. \A j \in 1..ledgerFile.counts :
          /\ Interval(j).start = TicketsBefore(j) + 1 /\ Interval(j).end = TicketsBefore(j) + buybacks[j].weight
          /\ TicketsBefore(j) \in Nat /\ buybacks[j].weight \in Nat
    BY <1>1, <1>3, TicketsBeforeGrow, BuybackIs DEF Interval
  <2>2. t \in Int /\ t > TicketsBefore(i) /\ t =< TicketsBefore(i) + buybacks[i].weight
    BY <2>1
  <2>3. t \in Interval(i).start..Interval(i).end
    BY <2>1
  <2>4. ASSUME NEW j \in 1..ledgerFile.counts, j # i, t \in Interval(j).start..Interval(j).end PROVE FALSE
    <3>1. t > TicketsBefore(j) /\ t =< TicketsBefore(j) + buybacks[j].weight
      BY <2>1, <2>4
    <3>2. CASE i < j
      <4>1. TicketsBefore(i) + buybacks[i].weight =< TicketsBefore(j)
        BY <1>1, <1>3, <3>2, TicketsBeforeGrow
      <4> QED
        BY <2>1, <2>2, <3>1, <4>1
    <3>3. CASE j < i
      <4>1. TicketsBefore(j) + buybacks[j].weight =< TicketsBefore(i)
        BY <1>1, <1>3, <3>3, TicketsBeforeGrow
      <4> QED
        BY <2>1, <2>2, <3>1, <4>1
    <3> QED
      BY <1>2, <2>4, <3>2, <3>3
  <2> QED
    BY <2>3, <2>4
<1> DEFINE by == buybacks[i].by
           home == Home(ledgerFile.list, by)
<1>5. PICK o \in ledgerFile.entries : o.wallet = home
  BY <1>1 DEF AllListed
<1>6. i \in OfHome(o.wallet) /\ by \in Holders
  BY <1>1, <1>3, <1>5, BuybackIs DEF OfHome
<1>7. \A e \in ledgerFile.entries : /\ e.intervals = {Interval(j) : j \in OfHome(e.wallet)}
                                    /\ \A j \in OfHome(e.wallet) : buybacks[j].by \in e.sources
  BY <1>1 DEF OwnBuybacks
<1>8. \A x : OfHome(x) \subseteq 1..ledgerFile.counts /\ \A j \in OfHome(x) : Home(ledgerFile.list, buybacks[j].by) = x
  BY DEF OfHome
<1>9. \A e \in ledgerFile.entries : \A r \in e.intervals :
        t \in r.start..r.end => r = Interval(i) /\ e.wallet = home
  <2> SUFFICES ASSUME NEW e \in ledgerFile.entries, NEW j \in OfHome(e.wallet),
                      t \in Interval(j).start..Interval(j).end
               PROVE  Interval(j) = Interval(i) /\ e.wallet = home
    BY <1>7
  <2>1. j = i
    BY <1>4, <1>8
  <2> QED
    BY <1>8, <2>1
<1>10. Interval(i) \in o.intervals /\ t \in Interval(i).start..Interval(i).end /\ by \in o.sources
  BY <1>4, <1>6, <1>7
<1>11. owners = {o}
  <2>1. \A e \in owners : e = o
    BY <1>1, <1>5, <1>9 DEF OneEntry
  <2>2. o \in owners
    BY <1>10
  <2> HIDE DEF owners
  <2> QED
    BY <2>1, <2>2
<1>12. Cardinality(owners) = 1
  BY <1>11, FS_Singleton
<1>13. {r \in o.intervals : t \in r.start..r.end} = {Interval(i)}
  BY <1>9, <1>10
<1>14. Cardinality({r \in o.intervals : t \in r.start..r.end}) = 1
  BY <1>13, FS_Singleton
<1>15. ASSUME ledgerFile.by = "refresh", Plain(ledgerFile.list)
       PROVE  FoundIn(ledgerFile.entries, by) = o
  <2> DEFINE L == Listing(ledgerFile.entries, by)
  <2>1. L = {o}
    <3>1. ASSUME NEW e \in L PROVE e = o
      <4>1. e \in ledgerFile.entries /\ by \in e.sources
        BY DEF Listing
      <4>2. e.wallet = home
        BY <1>1, <1>15, <4>1 DEF AtHome
      <4> QED
        BY <1>1, <1>5, <4>1, <4>2 DEF OneEntry
    <3>2. o \in L
      BY <1>10 DEF Listing
    <3> HIDE DEF L
    <3> QED
      BY <3>1, <3>2
  <2>2. ~RanksBefore(o, o)
    <3>1. finalTickets(o) \in Nat /\ totalVotingTickets(o) \in Nat /\ o.raw \in Nat
      BY <1>2, TotalIs DEF Entry
    <3> QED
      BY <3>1 DEF RanksBefore
  <2>3. FoundIn(ledgerFile.entries, by) = CHOOSE e \in L : \A d \in L : ~RanksBefore(d, e)
    BY DEF FoundIn
  <2> HIDE DEF L
  <2>4. \A e \in L : e = o
    BY <2>1
  <2>5. \E e \in L : \A d \in L : ~RanksBefore(d, e)
    BY <2>1, <2>2
  <2> QED
    BY <2>3, <2>4, <2>5
<1> QED
  BY <1>11, <1>12, <1>14, <1>15

(* Every ticket of every buyback a file counts is in one interval of one   *)
(* entry, for any holders, buybacks and migrations, and any grants and     *)
(* previous entries that agree with the resolver.  In a file that a        *)
(* refresh wrote with a plain list, the entry is the one found for the     *)
(* buyer's wallet.                                                         *)
THEOREM TicketsHaveOneOwner == TicketLedgerSpec => []EveryTicketHasOneOwner
<1>1. TicketLedgerInit => TicketLedgerInv
  BY LedgerBegins
<1>2. TicketLedgerInv /\ [TicketLedgerSteps]_ticketLedgerVars => TicketLedgerInv'
  <2> SUFFICES ASSUME TicketLedgerInv, [TicketLedgerSteps]_ticketLedgerVars PROVE TicketLedgerInv'
    OBVIOUS
  <2>1. ASSUME NEW w \in Holders, NEW n \in Weights, Buyback(w, n) PROVE TicketLedgerInv'
    BY <2>1, BuybackKeepsLedger
  <2>2. ASSUME NEW old \in Holders, NEW new \in Holders, Migrate(old, new) PROVE TicketLedgerInv'
    BY <2>2, MigrateKeepsLedger
  <2>3. ASSUME NEW list \in {cachedList, migrations}, RefreshLedger(list) PROVE TicketLedgerInv'
    BY <2>3, RefreshKeepsLedger
  <2>4. ASSUME NEW list \in {cachedList, migrations}, ApplyCarryover(list) PROVE TicketLedgerInv'
    BY <2>4, ApplyKeepsLedger
  <2>5. ASSUME UNCHANGED <<buybacks, migrations, cachedList, ledgerFile>> PROVE TicketLedgerInv'
    <3>1. \A i : Interval(i)' = Interval(i)
      BY <2>5 DEF Interval, TicketsBefore
    <3>2. \A x : OfHome(x)' = OfHome(x)
      BY <2>5 DEF OfHome
    <3>3. LedgerTypes' /\ OneEntry' /\ AllListed' /\ AtHome'
      BY <2>5 DEF TicketLedgerInv, LedgerTypes, OneEntry, AllListed, AtHome
    <3>4. OwnBuybacks'
      BY <2>5, <3>1, <3>2 DEF TicketLedgerInv, OwnBuybacks
    <3> QED
      BY <3>3, <3>4 DEF TicketLedgerInv
  <2>6. ASSUME NEW w \in Holders, CompleteTask(w) PROVE TicketLedgerInv'
    BY <2>5, <2>6 DEF CompleteTask
  <2>7. CASE UNCHANGED ticketLedgerVars
    BY <2>5, <2>7 DEF ticketLedgerVars
  <2> QED
    BY <2>1, <2>2, <2>3, <2>4, <2>6, <2>7 DEF TicketLedgerSteps
<1>3. TicketLedgerInv => EveryTicketHasOneOwner
  BY LedgerHasOwners
<1> QED
  BY <1>1, <1>2, <1>3, PTL DEF TicketLedgerSpec

-----------------------------------------------------------------------------
(* No step takes tickets from an address. A list of migrations only grows, *)
(* and wallets that are at home together stay together.                    *)

Grew(old, new) == DOMAIN old \subseteq DOMAIN new /\ \A w \in DOMAIN old : new[w] = old[w]

(* More tickets divided are no fewer. *)
LEMMA MoreDivided ==
  ASSUME NEW a \in Nat, NEW b \in Nat, a =< b, NEW d \in Nat \ {0}
  PROVE  a \div d \in Nat /\ b \div d \in Nat /\ a \div d =< b \div d
<1> DEFINE p == a \div d
           q == b \div d
<1>1. p \in Nat /\ q \in Nat
  OBVIOUS
<1>2. a >= d * p /\ b < d * (q + 1)
  OBVIOUS
<1> HIDE DEF p, q
<1>3. p =< q
  <2> SUFFICES ASSUME p > q PROVE FALSE
    BY <1>1
  <2>1. p >= q + 1
    BY <1>1
  <2>2. d * p >= d * (q + 1)
    BY <1>1, <2>1
  <2> QED
    BY <1>1, <1>2, <2>2
<1> QED
  BY <1>1, <1>3 DEF p, q

(* Who is mentioned stays where it is. *)
LEMMA MentionedStays ==
  ASSUME NEW old, NEW new, IsList(old), IsList(new), Grew(old, new), NEW x \in Mentioned(old)
  PROVE  x \in Holders /\ x \in Mentioned(new) /\ Home(old, x) = Step(old, x) /\ Home(new, x) = Step(old, x)
<1>1. x \in Holders /\ x \in Mentioned(new)
  BY MentionedAlone DEF Mentioned, Grew
<1>2. Step(new, x) = Step(old, x)
  <2>1. CASE x \in DOMAIN old
    BY <2>1 DEF Grew, Step
  <2>2. CASE x \notin DOMAIN old
    <3>1. PICK v \in DOMAIN old : old[v] = x
      BY <2>2 DEF Mentioned
    <3>2. x \notin DOMAIN new
      BY <3>1, PlainList DEF Grew
    <3> QED
      BY <2>2, <3>2 DEF Step
  <2> QED
    BY <2>1, <2>2
<1> QED
  BY <1>1, <1>2, HomeIs

(* Who is at home together stays together. *)
LEMMA HomesMerge ==
  ASSUME NEW old, NEW new, IsList(old), IsList(new), Grew(old, new),
         NEW x \in Holders, NEW y \in Holders, Home(old, x) = Home(old, y)
  PROVE  Home(new, x) = Home(new, y)
<1>1. ASSUME NEW a \in Holders, NEW b \in Holders, Home(old, a) = Home(old, b),
             a \in Mentioned(old), b \notin Mentioned(old)
      PROVE  FALSE
  <2>1. Home(old, a) = Step(old, a) /\ Step(old, a) \in Mentioned(old)
    BY <1>1, MentionedStays DEF Mentioned, Step, Grew
  <2>2. Home(old, b) = Resolver[b]
    BY <1>1, HomeIs
  <2> QED
    BY <1>1, <2>1, <2>2, MentionedAlone
<1>2. CASE x \in Mentioned(old) /\ y \in Mentioned(old)
  BY <1>2, MentionedStays
<1>3. CASE x \notin Mentioned(old) /\ y \notin Mentioned(old)
  <2>1. Resolver[x] = Resolver[y]
    BY <1>3, HomeIs
  <2>2. CASE x \in Mentioned(new) \/ y \in Mentioned(new)
    <3>1. x = y
      BY <2>1, <2>2, MentionedAlone
    <3> QED
      BY <3>1
  <2>3. CASE x \notin Mentioned(new) /\ y \notin Mentioned(new)
    BY <2>1, <2>3, HomeIs
  <2> QED
    BY <2>2, <2>3
<1> QED
  BY <1>1, <1>2, <1>3

(* Who goes with a wallet goes on to. *)
LEMMA FromGrows ==
  ASSUME NEW old, NEW new, IsList(old), IsList(new), Grew(old, new), NEW y \in Holders
  PROVE  Resolved(old, y).from \subseteq Resolved(new, y).from
<1>1. CASE y \in Mentioned(old)
  <2>1. y \in Mentioned(new) /\ Home(old, y) = Step(old, y) /\ Home(new, y) = Step(old, y)
    BY <1>1, MentionedStays
  <2>2. Step(new, y) = Step(old, y)
    BY <2>1, HomeIs
  <2> DEFINE c == Step(old, y)
  <2>3. /\ Resolved(old, y).from = {y, c} \cup {v \in DOMAIN old : old[v] = c}
        /\ Resolved(new, y).from = {y, c} \cup {v \in DOMAIN new : new[v] = c}
    BY <1>1, <2>1, <2>2, HomeIs
  <2> HIDE DEF c
  <2> QED
    BY <2>3 DEF Grew
<1>2. CASE y \notin Mentioned(old)
  <2>1. Resolved(old, y).from = {y} \cup {o \in Holders : Resolver[o] = Resolver[y]}
    BY <1>2, HomeIs
  <2>2. CASE y \in Mentioned(new)
    <3>1. Resolved(old, y).from = {y}
      BY <2>1, <2>2, MentionedAlone
    <3> QED
      BY <3>1, TogetherAtHome
  <2>3. CASE y \notin Mentioned(new)
    BY <2>1, <2>3, HomeIs
  <2> QED
    BY <2>2, <2>3
<1> QED
  BY <1>1, <1>2

(* What a refresh finds is a number of tickets. *)
LEMMA FoundTyped ==
  ASSUME LedgerTypes, NEW list, IsMoves(list), NEW w \in Holders
  PROVE  /\ RawOf(list, w) \in Nat /\ CarriedTo(list, w) \in Nat
         /\ PracticeOf(list, w) \in Nat /\ GrantOf(list, w) \in Nat
<1>1. PICK e : e = NewEntry(list, w)
  OBVIOUS
<1>2. PICK of : of = BoughtFor(list, w)
  OBVIOUS
<1>3. /\ e \in Entry
      /\ e.raw = RawOf(list, w) /\ e.carryover = CarriedTo(list, w) /\ e.practice = PracticeOf(list, w)
      /\ e.insiderGrant = GrantOf(list, w)
  BY <1>1, <1>2, NewEntryIs
<1> QED
  BY <1>3 DEF Entry

(* What a home has, it has still when the list has grown, or who it moved  *)
(* to has it.                                                              *)
LEMMA GroupsGrow ==
  ASSUME LedgerTypes, NEW old, NEW new, IsList(old), IsList(new), Grew(old, new),
         NEW h \in Holders, Home(old, h) = h, NEW k, k = Home(new, h)
  PROVE  /\ BoughtFor(old, h) \subseteq BoughtFor(new, k)
         /\ GrantedTo(old, h) \subseteq GrantedTo(new, k)
         /\ PreviousOf(old, h) \subseteq PreviousOf(new, k)
         /\ BuyersOf(old, h) \subseteq BuyersOf(new, k)
<1>1. \A x \in Holders : Home(old, x) = h => Home(new, x) = k
  BY HomesMerge
<1>2. BoughtFor(old, h) \subseteq BoughtFor(new, k)
  BY <1>1, BuybackIs DEF BoughtFor
<1>3. GrantedTo(old, h) \subseteq GrantedTo(new, k)
  BY <1>1, GrantsAtHome DEF GrantedTo
<1>4. PreviousOf(old, h) \subseteq PreviousOf(new, k)
  <2> SUFFICES ASSUME NEW p \in Previous, Step(old, p.wallet) = h PROVE Step(new, p.wallet) = k
    BY DEF PreviousOf
  <2>1. p.wallet \in p.sources /\ p.wallet \in Holders
    BY TicketLedgerAssumption
  <2>2. Home(old, p.wallet) = Step(old, p.wallet) /\ Home(new, p.wallet) = Step(new, p.wallet)
    BY <2>1, PreviousAtHome
  <2> QED
    BY <1>1, <2>1, <2>2
<1>5. BuyersOf(old, h) \subseteq BuyersOf(new, k)
  <2>1. \A i \in BoughtFor(old, h) : Resolved(old, buybacks[i].by).from \subseteq Resolved(new, buybacks[i].by).from
    BY BuybackIs, FromGrows DEF BoughtFor
  <2> QED
    BY <1>2, <2>1 DEF BuyersOf
<1> QED
  BY <1>2, <1>3, <1>4, <1>5

LEMMA MoreFound ==
  ASSUME LedgerTypes, NEW old, NEW new, IsList(old), IsList(new), Grew(old, new),
         NEW h \in Holders, Home(old, h) = h, NEW k, k = Home(new, h)
  PROVE  /\ RawOf(old, h) =< RawOf(new, k) /\ CarriedTo(old, h) =< CarriedTo(new, k)
         /\ PracticeOf(old, h) =< PracticeOf(new, k) /\ GrantOf(old, h) =< GrantOf(new, k)
<1>0. k \in Holders
  BY HomeIsHome
<1>1. /\ BoughtFor(old, h) \subseteq BoughtFor(new, k)
      /\ GrantedTo(old, h) \subseteq GrantedTo(new, k)
      /\ PreviousOf(old, h) \subseteq PreviousOf(new, k)
  BY GroupsGrow
<1>2. /\ IsFiniteSet(BoughtFor(new, k)) /\ \A i \in BoughtFor(new, k) : buybacks[i].weight \in Nat
      /\ IsFiniteSet(GrantedTo(new, k))
      /\ \A v \in GrantedTo(new, k) : Grants[v].practice \in Nat /\ Grants[v].grant \in Nat
      /\ IsFiniteSet(PreviousOf(new, k)) /\ \A p \in PreviousOf(new, k) : p.tickets \in Nat
  <2>1. \A i \in BoughtFor(new, k) : i \in DOMAIN buybacks /\ buybacks[i].weight \in Nat
    BY BuybackIs DEF BoughtFor
  <2>2. IsFiniteSet(BoughtFor(new, k))
    <3>1. DOMAIN buybacks = 1..Len(buybacks) /\ Len(buybacks) \in Nat
      <4>1. buybacks \in Seq(Bought)
        BY DEF LedgerTypes
      <4> HIDE DEF Bought
      <4> QED
        BY <4>1
    <3>2. IsFiniteSet(DOMAIN buybacks)
      BY <3>1, FS_Interval
    <3> QED
      BY <2>1, <3>2, FS_Subset
  <2>3. \A v \in GrantedTo(new, k) : v \in Holders /\ Grants[v].practice \in Nat /\ Grants[v].grant \in Nat
    BY TicketLedgerAssumption DEF GrantedTo
  <2>4. IsFiniteSet(GrantedTo(new, k))
    <3>1. GrantedTo(new, k) \subseteq Holders /\ IsFiniteSet(Holders)
      BY <2>3, TicketLedgerAssumption
    <3> QED
      BY <3>1, FS_Subset
  <2>5. \A p \in PreviousOf(new, k) : p \in Previous /\ p.tickets \in Nat
    BY TicketLedgerAssumption DEF PreviousOf
  <2>6. IsFiniteSet(PreviousOf(new, k))
    <3>1. PreviousOf(new, k) \subseteq Previous /\ IsFiniteSet(Previous)
      BY <2>5, TicketLedgerAssumption
    <3> QED
      BY <3>1, FS_Subset
  <2> QED
    BY <2>1, <2>2, <2>3, <2>4, <2>5, <2>6
<1>3. RawOf(old, h) =< RawOf(new, k)
  <2> DEFINE f == [i \in BoughtFor(old, h) |-> buybacks[i].weight]
             g == [i \in BoughtFor(new, k) |-> buybacks[i].weight]
  <2>1. /\ DOMAIN g = BoughtFor(new, k) /\ DOMAIN f = BoughtFor(old, h)
        /\ \A i \in BoughtFor(new, k) : g[i] \in Nat
        /\ \A i \in BoughtFor(old, h) : f[i] = g[i]
    BY <1>1, <1>2
  <2> HIDE DEF f, g
  <2>2. SumFunction(f) =< SumFunction(g)
    BY <1>1, <1>2, <2>1, SumMore
  <2> QED
    BY <2>2 DEF f, g, RawOf
<1>4. PracticeOf(old, h) =< PracticeOf(new, k)
  <2> DEFINE f == [v \in GrantedTo(old, h) |-> Grants[v].practice]
             g == [v \in GrantedTo(new, k) |-> Grants[v].practice]
  <2>1. /\ DOMAIN g = GrantedTo(new, k) /\ DOMAIN f = GrantedTo(old, h)
        /\ \A i \in GrantedTo(new, k) : g[i] \in Nat
        /\ \A i \in GrantedTo(old, h) : f[i] = g[i]
    BY <1>1, <1>2
  <2> HIDE DEF f, g
  <2>2. SumFunction(f) =< SumFunction(g)
    BY <1>1, <1>2, <2>1, SumMore
  <2> QED
    BY <2>2 DEF f, g, PracticeOf
<1>5. GrantOf(old, h) =< GrantOf(new, k)
  <2> DEFINE f == [v \in GrantedTo(old, h) |-> Grants[v].grant]
             g == [v \in GrantedTo(new, k) |-> Grants[v].grant]
  <2>1. /\ DOMAIN g = GrantedTo(new, k) /\ DOMAIN f = GrantedTo(old, h)
        /\ \A i \in GrantedTo(new, k) : g[i] \in Nat
        /\ \A i \in GrantedTo(old, h) : f[i] = g[i]
    BY <1>1, <1>2
  <2> HIDE DEF f, g
  <2>2. SumFunction(f) =< SumFunction(g)
    BY <1>1, <1>2, <2>1, SumMore
  <2> QED
    BY <2>2 DEF f, g, GrantOf
<1>6. CarriedTo(old, h) =< CarriedTo(new, k)
  <2> DEFINE f == [p \in PreviousOf(old, h) |-> p.tickets]
             g == [p \in PreviousOf(new, k) |-> p.tickets]
  <2>1. /\ DOMAIN g = PreviousOf(new, k) /\ DOMAIN f = PreviousOf(old, h)
        /\ \A i \in PreviousOf(new, k) : g[i] \in Nat
        /\ \A i \in PreviousOf(old, h) : f[i] = g[i]
    BY <1>1, <1>2
  <2>a. IsFiniteSet(PreviousOf(old, h)) /\ \A i \in PreviousOf(old, h) : f[i] \in Nat
    BY <1>1, <1>2, FS_Subset
  <2> HIDE DEF f, g
  <2>2. SumFunction(f) =< SumFunction(g)
    BY <1>1, <1>2, <2>1, SumMore
  <2>3. SumFunction(f) \in Nat /\ SumFunction(g) \in Nat
    BY <1>2, <2>1, <2>a, SumOfFunction
  <2>4. Divisor \in Nat \ {0}
    BY TicketLedgerAssumption
  <2>5. SumFunction(f) \div Divisor =< SumFunction(g) \div Divisor
    BY <2>2, <2>3, <2>4, MoreDivided
  <2> QED
    BY <2>5 DEF f, g, CarriedTo
<1> QED
  BY <1>3, <1>4, <1>5, <1>6

(* And all its wallets are listed there. *)
LEMMA SourcesGrow ==
  ASSUME LedgerTypes, NEW old, NEW new, IsList(old), IsList(new), Grew(old, new),
         NEW h \in Holders, Home(old, h) = h, NEW k, k = Home(new, h),
         RawOf(old, h) > 0 \/ CarriedTo(old, h) > 0 \/ PracticeOf(old, h) > 0 \/ GrantOf(old, h) > 0
  PROVE  SourcesOf(old, h) \subseteq SourcesOf(new, k)
<1>0. k \in Holders
  BY HomeIsHome
<1>1. /\ BoughtFor(old, h) \subseteq BoughtFor(new, k)
      /\ GrantedTo(old, h) \subseteq GrantedTo(new, k)
      /\ PreviousOf(old, h) \subseteq PreviousOf(new, k)
      /\ BuyersOf(old, h) \subseteq BuyersOf(new, k)
  BY GroupsGrow
<1>2. CarriedFrom(old, h) \subseteq CarriedFrom(new, k)
  <2>1. CarriedTo(old, h) > 0 => CarriedTo(new, k) > 0
    <3>1. CarriedTo(old, h) \in Nat /\ CarriedTo(new, k) \in Nat
      BY <1>0, FoundTyped DEF IsList
    <3>2. CarriedTo(old, h) =< CarriedTo(new, k)
      BY MoreFound
    <3> QED
      BY <3>1, <3>2
  <2> QED
    BY <1>1, <2>1 DEF CarriedFrom
<1>3. ASSUME h # k PROVE h \in SourcesOf(new, k)
  <2>1. h \notin Mentioned(old)
    BY <1>3, MentionedStays
  <2>2. h \in Mentioned(new)
    <3> SUFFICES ASSUME h \notin Mentioned(new) PROVE FALSE
      OBVIOUS
    <3> QED
      BY <1>3, <2>1, HomeIs
  <2>3. Step(new, h) = k /\ h \in DOMAIN new /\ new[h] = k /\ k \in Mentioned(new)
    BY <1>3, <2>2, HomeIs DEF Step, Mentioned
  <2>4. \A v : Step(old, v) = h => v = h
    BY <2>1 DEF Mentioned, Step
  <2>5. CASE BoughtFor(old, h) # {}
    <3>1. PICK i \in BoughtFor(old, h) : TRUE
      BY <2>5
    <3> DEFINE y == buybacks[i].by
    <3>2. y \in Holders /\ Home(old, y) = h /\ Home(new, y) = k
      BY <1>1, BuybackIs DEF BoughtFor
    <3>3. y \in Mentioned(new)
      BY <2>3, <3>2, HomeIs, MentionedAlone
    <3>4. Resolved(new, y).from = {y, k} \cup {v \in DOMAIN new : new[v] = k}
      BY <3>2, <3>3, HomeIs
    <3>5. h \in Resolved(new, y).from
      BY <2>3, <3>4
    <3> QED
      BY <1>1, <3>1, <3>5 DEF SourcesOf, BuyersOf
  <2>6. CASE GrantedTo(old, h) # {}
    <3>1. h \in GrantedTo(old, h)
      BY <2>4, <2>6 DEF GrantedTo
    <3> QED
      BY <1>1, <3>1 DEF SourcesOf
  <2>7. CASE CarriedTo(old, h) > 0
    <3>1. PreviousOf(old, h) # {}
      <4> SUFFICES ASSUME PreviousOf(old, h) = {} PROVE CarriedTo(old, h) = 0
        BY <2>7
      <4> DEFINE f == [p \in PreviousOf(old, h) |-> p.tickets]
      <4>1. DOMAIN f = {} /\ IsFiniteSet(DOMAIN f)
        BY FS_EmptySet
      <4> HIDE DEF f
      <4>2. SumFunction(f) = 0
        BY <4>1, SumOfFunction
      <4>3. Divisor \in Nat \ {0}
        BY TicketLedgerAssumption
      <4>4. 0 \div Divisor = 0
        BY <4>3
      <4> QED
        BY <4>2, <4>4 DEF f, CarriedTo
    <3>2. PICK p \in PreviousOf(old, h) : TRUE
      BY <3>1
    <3>3. p \in Previous /\ p.wallet = h /\ p.wallet \in p.sources
      BY <2>4, TicketLedgerAssumption DEF PreviousOf
    <3>4. h \in CarriedFrom(old, h)
      BY <2>7, <3>2, <3>3 DEF CarriedFrom
    <3> QED
      BY <1>2, <3>4 DEF SourcesOf
  <2>8. BoughtFor(old, h) = {} => RawOf(old, h) = 0
    <3> DEFINE f == [i \in BoughtFor(old, h) |-> buybacks[i].weight]
    <3>1. ASSUME BoughtFor(old, h) = {} PROVE DOMAIN f = {} /\ IsFiniteSet(DOMAIN f)
      BY <3>1, FS_EmptySet
    <3> HIDE DEF f
    <3>2. BoughtFor(old, h) = {} => SumFunction(f) = 0
      BY <3>1, SumOfFunction
    <3> QED
      BY <3>2 DEF f, RawOf
  <2>9. GrantedTo(old, h) = {} => PracticeOf(old, h) = 0 /\ GrantOf(old, h) = 0
    <3> DEFINE f == [v \in GrantedTo(old, h) |-> Grants[v].practice]
               g == [v \in GrantedTo(old, h) |-> Grants[v].grant]
    <3>1. ASSUME GrantedTo(old, h) = {} PROVE DOMAIN f = {} /\ DOMAIN g = {} /\ IsFiniteSet(DOMAIN f) /\ IsFiniteSet(DOMAIN g)
      BY <3>1, FS_EmptySet
    <3> HIDE DEF f, g
    <3>2. GrantedTo(old, h) = {} => SumFunction(f) = 0 /\ SumFunction(g) = 0
      BY <3>1, SumOfFunction
    <3> QED
      BY <3>2 DEF f, g, PracticeOf, GrantOf
  <2>10. BoughtFor(old, h) # {} \/ GrantedTo(old, h) # {} \/ CarriedTo(old, h) > 0
    BY <2>8, <2>9
  <2> QED
    BY <2>5, <2>6, <2>7, <2>10
<1> QED
  BY <1>1, <1>2, <1>3 DEF SourcesOf

(* An entry of the file has no more, and lists no others, than a refresh   *)
(* with the list finds now for its wallet's home.                          *)
Within(list, e) ==
  LET h == Home(list, e.wallet)
  IN  /\ e.sources \subseteq SourcesOf(list, h)
      /\ e.raw =< RawOf(list, h) /\ e.carryover =< CarriedTo(list, h)
      /\ e.practice =< PracticeOf(list, h) /\ e.insiderGrant =< GrantOf(list, h)
      /\ e.taskReward = 0 /\ totalVotingTickets(e) > 0

AllWithin ==
  /\ \A e \in ledgerFile.entries : e.taskReward = 0 /\ totalVotingTickets(e) > 0
  /\ Plain(cachedList) => \A e \in ledgerFile.entries : Within(cachedList, e)

ListsGrow == Grew(cachedList, migrations)

(* The script changes nothing in a file that a refresh wrote with the list *)
(* the script has.                                                         *)
AsWritten ==
  /\ ledgerFile.by \in {"none", "refresh", "script"}
  /\ ledgerFile.by = "none" => ledgerFile = NoLedger
  /\ ledgerFile.by = "refresh" =>
       /\ ledgerFile = [entries |-> ledgerFile.entries, counts |-> ledgerFile.counts,
                        list |-> cachedList, by |-> "refresh"]
       /\ \A e \in ledgerFile.entries : /\ e.carryover = CarriedTo(cachedList, e.wallet)
                                        /\ CarriedFrom(cachedList, e.wallet) \subseteq e.sources
       /\ \A w \in Holders : w \in {e.wallet : e \in ledgerFile.entries} \/ CarriedTo(cachedList, w) = 0

KeptInv == TicketLedgerInv /\ AllWithin /\ ListsGrow /\ AsWritten /\ completed \subseteq Holders

LEMMA WithinGrows ==
  ASSUME LedgerTypes, NEW old, NEW new, IsList(old), IsList(new), Grew(old, new),
         NEW e \in Entry, Within(old, e)
  PROVE  Within(new, e)
<1> DEFINE h == Home(old, e.wallet)
           k == Home(new, e.wallet)
<1>1. e.wallet \in Holders /\ h \in Holders /\ Home(old, h) = h /\ k \in Holders
  BY HomeIsHome DEF Entry
<1>2. k = Home(new, h)
  BY <1>1, HomesMerge
<1>3. /\ e.sources \subseteq SourcesOf(old, h)
      /\ e.raw =< RawOf(old, h) /\ e.carryover =< CarriedTo(old, h)
      /\ e.practice =< PracticeOf(old, h) /\ e.insiderGrant =< GrantOf(old, h)
      /\ e.taskReward = 0 /\ totalVotingTickets(e) > 0
  BY DEF Within
<1>4. e.raw \in Nat /\ e.carryover \in Nat /\ e.practice \in Nat /\ e.insiderGrant \in Nat
  BY DEF Entry
<1>5. e.raw > 0 \/ e.carryover > 0 \/ e.practice > 0 \/ e.insiderGrant > 0
  <2> SUFFICES ASSUME e.raw = 0, e.carryover = 0, e.practice = 0, e.insiderGrant = 0 PROVE FALSE
    BY <1>4
  <2>1. totalVotingTickets(e) = 0
    BY <1>3, TotalIs
  <2> QED
    BY <1>3, <2>1
<1> HIDE DEF h, k
<1>6. /\ RawOf(old, h) \in Nat /\ CarriedTo(old, h) \in Nat /\ PracticeOf(old, h) \in Nat /\ GrantOf(old, h) \in Nat
      /\ RawOf(new, k) \in Nat /\ CarriedTo(new, k) \in Nat /\ PracticeOf(new, k) \in Nat /\ GrantOf(new, k) \in Nat
  BY <1>1, FoundTyped DEF IsList
<1>7. /\ RawOf(old, h) =< RawOf(new, k) /\ CarriedTo(old, h) =< CarriedTo(new, k)
      /\ PracticeOf(old, h) =< PracticeOf(new, k) /\ GrantOf(old, h) =< GrantOf(new, k)
  BY <1>1, <1>2, MoreFound
<1>8. SourcesOf(old, h) \subseteq SourcesOf(new, k)
  <2>1. RawOf(old, h) > 0 \/ CarriedTo(old, h) > 0 \/ PracticeOf(old, h) > 0 \/ GrantOf(old, h) > 0
    BY <1>3, <1>4, <1>5, <1>6
  <2> QED
    BY <1>1, <1>2, <2>1, SourcesGrow
<1>9. /\ e.sources \subseteq SourcesOf(new, k)
      /\ e.raw =< RawOf(new, k) /\ e.carryover =< CarriedTo(new, k)
      /\ e.practice =< PracticeOf(new, k) /\ e.insiderGrant =< GrantOf(new, k)
  BY <1>3, <1>4, <1>6, <1>7, <1>8
<1> QED
  BY <1>3, <1>9 DEF Within, k

(* One more buyback only adds to what is found.                            *)
LEMMA WithinBought ==
  ASSUME TicketLedgerInv, NEW w \in Holders, NEW n \in Weights, Buyback(w, n), NEW list, IsList(list),
         NEW e \in Entry, Within(list, e)
  PROVE  Within(list, e)'
<1> DEFINE h == Home(list, e.wallet)
           N == Len(buybacks)
<1>0. LedgerTypes /\ LedgerTypes'
  BY BuybackKeepsLedger DEF TicketLedgerInv
<1>1. h \in Holders
  BY HomeIsHome DEF Entry
<1> HIDE DEF h
<1>2. /\ DOMAIN buybacks = 1..N /\ N \in Nat /\ DOMAIN buybacks' = 1..(N + 1)
      /\ \A i \in DOMAIN buybacks : i \in DOMAIN buybacks' /\ buybacks'[i] = buybacks[i]
      /\ IsFiniteSet(DOMAIN buybacks')
  <2>1. buybacks \in Seq(Bought) /\ buybacks' = Append(buybacks, [by |-> w, weight |-> n]) /\ [by |-> w, weight |-> n] \in Bought
    BY <1>0 DEF LedgerTypes, Buyback, Bought
  <2> HIDE DEF Bought
  <2>2. DOMAIN buybacks = 1..N /\ N \in Nat /\ Len(buybacks') = N + 1 /\ DOMAIN buybacks' = 1..(N + 1)
        /\ \A i \in 1..N : buybacks'[i] = buybacks[i]
    BY <2>1
  <2>3. IsFiniteSet(1..(N + 1))
    <3>1. 1 \in Int /\ N + 1 \in Int
      BY <2>2
    <3> HIDE DEF N
    <3> QED
      BY <3>1, FS_Interval
  <2> QED
    BY <2>2, <2>3
<1>3. BoughtFor(list, h) \subseteq BoughtFor(list, h)' /\ IsFiniteSet(BoughtFor(list, h)')
  <2>1. BoughtFor(list, h) \subseteq BoughtFor(list, h)'
    BY <1>2 DEF BoughtFor
  <2>2. BoughtFor(list, h)' \subseteq DOMAIN buybacks'
    BY DEF BoughtFor
  <2> QED
    BY <1>2, <2>1, <2>2, FS_Subset
<1>4. RawOf(list, h) =< RawOf(list, h)' /\ RawOf(list, h)' \in Nat
  <2> DEFINE f == [i \in BoughtFor(list, h) |-> buybacks[i].weight]
             g == [i \in BoughtFor(list, h)' |-> buybacks'[i].weight]
  <2>1. \A i \in BoughtFor(list, h) : buybacks'[i] = buybacks[i]
    BY <1>2 DEF BoughtFor
  <2>2. \A i \in BoughtFor(list, h)' : buybacks'[i].weight \in Nat
    <3>1. \A i \in DOMAIN buybacks' : buybacks'[i].weight \in Nat
      <4>1. buybacks' \in Seq(Bought)
        BY <1>0 DEF LedgerTypes
      <4>2. \A i \in DOMAIN buybacks' : buybacks'[i] \in Bought
        <5> HIDE DEF Bought
        <5> QED
          BY <4>1
      <4>3. Weights \subseteq Nat
        BY TicketLedgerAssumption
      <4> QED
        BY <4>2, <4>3 DEF Bought
    <3> QED
      BY <3>1 DEF BoughtFor
  <2>3. /\ DOMAIN f = BoughtFor(list, h) /\ DOMAIN g = BoughtFor(list, h)'
        /\ \A i \in BoughtFor(list, h) : f[i] = g[i]
        /\ \A i \in BoughtFor(list, h)' : g[i] \in Nat
    BY <1>3, <2>1, <2>2
  <2>4. SumFunction(f) = RawOf(list, h) /\ SumFunction(g) = RawOf(list, h)'
    BY DEF RawOf
  <2> HIDE DEF f, g
  <2>5. SumFunction(f) =< SumFunction(g)
    BY <1>3, <2>3, SumMore
  <2>6. SumFunction(g) \in Nat
    BY <1>3, <2>3, SumOfFunction
  <2> QED
    BY <2>4, <2>5, <2>6
<1>5. BuyersOf(list, h) \subseteq BuyersOf(list, h)'
  <2>1. \A i \in BoughtFor(list, h) : buybacks'[i] = buybacks[i]
    BY <1>2 DEF BoughtFor
  <2> QED
    BY <1>3, <2>1 DEF BuyersOf
<1>6. SourcesOf(list, h) \subseteq SourcesOf(list, h)'
  BY <1>5 DEF SourcesOf
<1>7. /\ e.sources \subseteq SourcesOf(list, h)
      /\ e.raw =< RawOf(list, h) /\ e.carryover =< CarriedTo(list, h)
      /\ e.practice =< PracticeOf(list, h) /\ e.insiderGrant =< GrantOf(list, h)
      /\ e.taskReward = 0 /\ totalVotingTickets(e) > 0
  BY DEF Within, h
<1>8. RawOf(list, h) \in Nat
  BY <1>0, <1>1, FoundTyped DEF IsList
<1>9. e.raw =< RawOf(list, h)' /\ e.raw \in Nat
  <2>1. e.raw \in Nat
    BY DEF Entry
  <2> QED
    BY <1>4, <1>7, <1>8, <2>1
<1> QED
  BY <1>6, <1>7, <1>9 DEF Within, h

(* An entry a refresh makes is what it finds. *)
LEMMA WithinNew ==
  ASSUME LedgerTypes, NEW list, IsList(list), NEW w \in Holders, NEW e, e = NewEntry(list, w),
         totalVotingTickets(e) > 0
  PROVE  Within(list, e)
<1>1. PICK of : of = BoughtFor(list, w)
  OBVIOUS
<1>2. /\ e \in Entry /\ e.wallet = w
      /\ totalVotingTickets(e) > 0 => \A x \in e.sources : Home(list, x) = w
      /\ e.raw = RawOf(list, w) /\ e.carryover = CarriedTo(list, w) /\ e.practice = PracticeOf(list, w)
      /\ e.insiderGrant = GrantOf(list, w) /\ e.taskReward = 0 /\ e.sources = SourcesOf(list, w)
  BY <1>1, NewEntryIs DEF IsList
<1>3. Home(list, w) = w
  BY <1>2 DEF SourcesOf
<1>4. /\ RawOf(list, w) \in Nat /\ CarriedTo(list, w) \in Nat
      /\ PracticeOf(list, w) \in Nat /\ GrantOf(list, w) \in Nat
  BY FoundTyped DEF IsList
<1> QED
  BY <1>2, <1>3, <1>4 DEF Within

(* So is one whose carryover the script applies again, and one it adds. *)
LEMMA WithinCarried ==
  ASSUME LedgerTypes, NEW list, IsList(list), NEW e \in Entry, NEW g, g = WithCarryover(list, e),
         totalVotingTickets(g) > 0,
         Within(list, e) \/ (e.sources = {e.wallet} /\ e.raw = 0 /\ e.practice = 0 /\ e.taskReward = 0 /\ e.insiderGrant = 0)
  PROVE  Within(list, g)
<1> DEFINE w == e.wallet
           h == Home(list, w)
<1>1. w \in Holders /\ h \in Holders
  BY HomeIsHome DEF Entry
<1>2. /\ g \in Entry /\ g.wallet = w /\ g.raw = e.raw
      /\ g.practice = e.practice /\ g.taskReward = e.taskReward /\ g.insiderGrant = e.insiderGrant
      /\ PreviousOf(list, w) = {} => g.carryover = 0
      /\ g.carryover = CarriedTo(list, w)
      /\ g.sources = e.sources \cup CarriedFrom(list, w)
      /\ PreviousOf(list, w) # {} => h = w
  BY CarryoverIn DEF IsList
<1> HIDE DEF w, h
<1>3. /\ RawOf(list, h) \in Nat /\ CarriedTo(list, h) \in Nat
      /\ PracticeOf(list, h) \in Nat /\ GrantOf(list, h) \in Nat /\ CarriedTo(list, w) \in Nat
  BY <1>1, FoundTyped DEF IsList
<1>4. g.carryover =< CarriedTo(list, h) /\ CarriedFrom(list, w) \subseteq SourcesOf(list, h)
  <2>1. CASE PreviousOf(list, w) = {}
    BY <1>2, <1>3, <2>1 DEF CarriedFrom
  <2>2. CASE PreviousOf(list, w) # {}
    BY <1>2, <1>3, <2>2 DEF SourcesOf
  <2> QED
    BY <2>1, <2>2
<1>5. CASE Within(list, e)
  <2>1. /\ e.sources \subseteq SourcesOf(list, h)
        /\ e.raw =< RawOf(list, h)
        /\ e.practice =< PracticeOf(list, h) /\ e.insiderGrant =< GrantOf(list, h)
        /\ e.taskReward = 0
    BY <1>5 DEF Within, h, w
  <2>2. g.sources \subseteq SourcesOf(list, h)
    BY <1>2, <1>4, <2>1
  <2> QED
    BY <1>2, <1>4, <2>1, <2>2 DEF Within, h
<1>6. CASE e.sources = {w} /\ e.raw = 0 /\ e.practice = 0 /\ e.taskReward = 0 /\ e.insiderGrant = 0
  <2>1. PreviousOf(list, w) # {}
    <3> SUFFICES ASSUME PreviousOf(list, w) = {} PROVE FALSE
      OBVIOUS
    <3>1. totalVotingTickets(g) = 0
      BY <1>2, <1>6, TotalIs
    <3> QED
      BY <3>1
  <2>2. g.sources \subseteq SourcesOf(list, h)
    BY <1>2, <1>4, <1>6, <2>1 DEF SourcesOf
  <2> QED
    BY <1>2, <1>3, <1>4, <1>6, <2>2 DEF Within, h
<1> QED
  BY <1>5, <1>6 DEF w

(* A script with the list that a refresh wrote a file with leaves the file *)
(* as it is.                                                               *)
LEMMA CarriedAlready ==
  ASSUME NEW list, IsMoves(list), NEW e \in Entry, e.carryover = CarriedTo(list, e.wallet),
         CarriedFrom(list, e.wallet) \subseteq e.sources
  PROVE  WithCarryover(list, e) = e
<1>1. PICK g : g = WithCarryover(list, e)
  OBVIOUS
<1>2. /\ g \in Entry /\ g.wallet = e.wallet /\ g.intervals = e.intervals /\ g.raw = e.raw
      /\ g.practice = e.practice /\ g.taskReward = e.taskReward /\ g.insiderGrant = e.insiderGrant
      /\ g.carryover = CarriedTo(list, e.wallet) /\ g.sources = e.sources \cup CarriedFrom(list, e.wallet)
  BY <1>1, CarryoverIn
<1>3. g.carryover = e.carryover /\ g.sources = e.sources
  BY <1>2
<1> DEFINE V == SUBSET [start : Nat, end : Nat]
<1>4. Entry = [wallet : Holders, sources : SUBSET Holders, raw : Nat, carryover : Nat, practice : Nat,
               taskReward : Nat, insiderGrant : Nat, intervals : V]
  BY DEF Entry
<1> HIDE DEF V
<1>5. g = e
  BY <1>2, <1>3, <1>4
<1> QED
  BY <1>1, <1>5

LEMMA SameListSameFile ==
  ASSUME KeptInv, NEW list \in {cachedList, migrations}, ApplyCarryover(list), ledgerFile'.by = "refresh"
  PROVE  ledgerFile' = ledgerFile /\ list = cachedList /\ ledgerFile.by = "refresh"
<1> DEFINE old == ledgerFile.entries
           missing == {emptyEntry(w) : w \in Holders \ {e.wallet : e \in old}}
           all == {WithCarryover(list, e) : e \in old \cup missing}
           new == finalizeEntries(all)
<1>1. LedgerTypes /\ AsWritten /\ AllWithin
  BY DEF KeptInv, TicketLedgerInv
<1>2. IsMoves(list) /\ old \subseteq Entry
  BY <1>1 DEF LedgerTypes
<1>3. ledgerFile' = [entries |-> new, counts |-> ledgerFile.counts, list |-> ledgerFile.list,
                     by |-> IF list = ledgerFile.list THEN ledgerFile.by ELSE "script"]
  BY DEF ApplyCarryover
<1>4. ledgerFile.by = "refresh" /\ list = ledgerFile.list
  <2> HIDE DEF new
  <2> QED
    BY <1>3
<1>5. /\ ledgerFile = [entries |-> old, counts |-> ledgerFile.counts, list |-> cachedList, by |-> "refresh"]
      /\ \A e \in old : e.carryover = CarriedTo(cachedList, e.wallet) /\ CarriedFrom(cachedList, e.wallet) \subseteq e.sources
      /\ \A w \in Holders : w \in {e.wallet : e \in old} \/ CarriedTo(cachedList, w) = 0
  BY <1>1, <1>4 DEF AsWritten
<1>6. list = cachedList
  <2> HIDE DEF old
  <2>1. ledgerFile.list = cachedList
    BY <1>5
  <2> QED
    BY <1>4, <2>1
<1>7. \A e \in old : WithCarryover(list, e) = e /\ totalVotingTickets(e) > 0
  <2> TAKE e \in old
  <2>1. e \in Entry
    BY <1>2
  <2>2. WithCarryover(list, e) = e
    BY <1>2, <1>5, <1>6, <2>1, CarriedAlready
  <2>3. totalVotingTickets(e) > 0
    BY <1>1 DEF AllWithin
  <2> QED
    BY <2>2, <2>3
<1>8. ASSUME NEW w \in Holders \ {e.wallet : e \in old}
      PROVE  totalVotingTickets(WithCarryover(list, emptyEntry(w))) = 0
  <2>1. PICK m : m = emptyEntry(w)
    OBVIOUS
  <2>2. PICK g : g = WithCarryover(list, m)
    OBVIOUS
  <2>3. /\ m \in Entry /\ m.wallet = w /\ m.raw = 0 /\ m.practice = 0 /\ m.taskReward = 0 /\ m.insiderGrant = 0
    BY <2>1, EmptyEntryIs
  <2>4. /\ g \in Entry /\ g.raw = m.raw /\ g.practice = m.practice /\ g.taskReward = m.taskReward
        /\ g.insiderGrant = m.insiderGrant /\ g.carryover = CarriedTo(list, m.wallet)
    BY <1>2, <2>2, <2>3, CarryoverIn
  <2>5. CarriedTo(list, w) = 0
    BY <1>5, <1>6
  <2>6. totalVotingTickets(g) = 0
    BY <2>3, <2>4, <2>5, TotalIs
  <2> QED
    BY <2>1, <2>2, <2>6
<1>9. new = old
  <2>1. \A g \in new : g \in old
    <3> SUFFICES ASSUME NEW e \in old \cup missing, totalVotingTickets(WithCarryover(list, e)) > 0
                 PROVE  WithCarryover(list, e) \in old
      BY DEF finalizeEntries
    <3>1. CASE e \in old
      BY <1>7, <3>1
    <3>2. CASE e \in missing
      BY <1>8, <3>2
    <3> QED
      BY <3>1, <3>2
  <2>2. \A e \in old : e \in new
    <3> TAKE e \in old
    <3>1. e \in all
      BY <1>7
    <3> QED
      BY <1>7, <3>1 DEF finalizeEntries
  <2> HIDE DEF new, old
  <2> QED
    BY <2>1, <2>2
<1> HIDE DEF new, old
<1>10. ledgerFile' = [entries |-> old, counts |-> ledgerFile.counts, list |-> cachedList, by |-> "refresh"]
  BY <1>3, <1>4, <1>6, <1>9
<1> QED
  BY <1>4, <1>5, <1>6, <1>10

(* The invariant is kept. *)
LEMMA KeptBegins == TicketLedgerInit => KeptInv
<1> SUFFICES ASSUME TicketLedgerInit PROVE KeptInv
  OBVIOUS
<1>1. TicketLedgerInv
  BY LedgerBegins
<1>2. AllWithin /\ ListsGrow /\ AsWritten /\ completed \subseteq Holders
  BY DEF TicketLedgerInit, NoLedger, AllWithin, ListsGrow, Grew, AsWritten
<1> QED
  BY <1>1, <1>2 DEF KeptInv

LEMMA BuybackKeeps ==
  ASSUME KeptInv, NEW w \in Holders, NEW n \in Weights, Buyback(w, n) PROVE KeptInv'
<1>1. TicketLedgerInv /\ AllWithin /\ ListsGrow /\ AsWritten /\ completed \subseteq Holders
  BY DEF KeptInv
<1>2. UNCHANGED <<migrations, cachedList, completed, ledgerFile>>
  BY DEF Buyback
<1>3. TicketLedgerInv'
  BY <1>1, BuybackKeepsLedger
<1>4. IsMoves(cachedList) /\ ledgerFile.entries \subseteq Entry
  BY <1>1 DEF TicketLedgerInv, LedgerTypes
<1>5. AllWithin'
  <2> SUFFICES ASSUME Plain(cachedList), NEW e \in ledgerFile.entries PROVE Within(cachedList, e)'
    BY <1>1, <1>2 DEF AllWithin
  <2>1. PICK list : list = cachedList
    OBVIOUS
  <2>2. Within(list, e)
    BY <1>1, <2>1 DEF AllWithin
  <2>3. Within(list, e)'
    BY <1>1, <1>4, <2>1, <2>2, WithinBought DEF IsList
  <2>4. cachedList' = list
    BY <1>2, <2>1
  <2> QED
    BY <2>3, <2>4
<1>6. ListsGrow' /\ AsWritten' /\ completed' \subseteq Holders
  BY <1>1, <1>2 DEF ListsGrow, AsWritten
<1> QED
  BY <1>3, <1>5, <1>6 DEF KeptInv

LEMMA WithinSame ==
  ASSUME buybacks' = buybacks, NEW list, NEW e PROVE Within(list, e)' <=> Within(list, e)
<1>1. \A w : BoughtFor(list, w)' = BoughtFor(list, w)
  BY DEF BoughtFor
<1>2. \A w : RawOf(list, w)' = RawOf(list, w) /\ BuyersOf(list, w)' = BuyersOf(list, w)
  BY <1>1 DEF RawOf, BuyersOf
<1>3. \A w : SourcesOf(list, w)' = SourcesOf(list, w)
  BY <1>2 DEF SourcesOf
<1> QED
  BY <1>2, <1>3 DEF Within

LEMMA MigrateKeeps ==
  ASSUME KeptInv, NEW old \in Holders, NEW new \in Holders, Migrate(old, new) PROVE KeptInv'
<1>1. TicketLedgerInv /\ AllWithin /\ ListsGrow /\ AsWritten /\ completed \subseteq Holders
  BY DEF KeptInv
<1>2. UNCHANGED <<buybacks, cachedList, completed, ledgerFile>>
  BY DEF Migrate
<1>3. TicketLedgerInv'
  BY <1>1, MigrateKeepsLedger
<1>4. AllWithin'
  <2> SUFFICES ASSUME Plain(cachedList), NEW e \in ledgerFile.entries PROVE Within(cachedList, e)'
    BY <1>1, <1>2 DEF AllWithin
  <2>1. PICK list : list = cachedList
    OBVIOUS
  <2>2. Within(list, e)'
    BY <1>1, <1>2, <2>1, WithinSame DEF AllWithin
  <2>3. cachedList' = list
    BY <1>2, <2>1
  <2> QED
    BY <2>2, <2>3
<1>5. ListsGrow'
  <2>1. old \notin DOMAIN migrations
        /\ migrations' = [w \in DOMAIN migrations \cup {old} |-> IF w = old THEN new ELSE migrations[w]]
    BY DEF Migrate
  <2>2. \A w \in DOMAIN migrations : w \in DOMAIN migrations' /\ migrations'[w] = migrations[w]
    BY <2>1
  <2> QED
    BY <1>1, <1>2, <2>2 DEF ListsGrow, Grew
<1>6. AsWritten' /\ completed' \subseteq Holders
  BY <1>1, <1>2 DEF AsWritten
<1> QED
  BY <1>3, <1>4, <1>5, <1>6 DEF KeptInv

(* A list that is read is the cached one, or one that it has grown to. *)
LEMMA ReadGrows ==
  ASSUME KeptInv, NEW list \in {cachedList, migrations}, ReadList(list), UNCHANGED migrations
  PROVE  /\ IsMoves(list) /\ IsMoves(cachedList) /\ Grew(cachedList, list) /\ ListsGrow'
         /\ Plain(list) => IsList(list) /\ IsList(cachedList)
<1>1. IsMoves(list) /\ IsMoves(cachedList) /\ Grew(cachedList, list) /\ ListsGrow'
  BY DEF KeptInv, TicketLedgerInv, LedgerTypes, ListsGrow, Grew, ReadList
<1>2. ASSUME Plain(list) PROVE Plain(cachedList)
  <2> SUFFICES ASSUME NEW w \in DOMAIN cachedList
               PROVE  /\ cachedList[w] \notin DOMAIN cachedList
                      /\ \A v \in {w, cachedList[w]} : {o \in Holders : Resolver[o] = v} = {v}
    BY DEF Plain
  <2>1. w \in DOMAIN list /\ list[w] = cachedList[w] /\ DOMAIN cachedList \subseteq DOMAIN list
    BY <1>1 DEF Grew
  <2> QED
    BY <1>2, <2>1 DEF Plain
<1> QED
  BY <1>1, <1>2 DEF IsList

LEMMA RefreshKeeps ==
  ASSUME KeptInv, NEW list \in {cachedList, migrations}, RefreshLedger(list) PROVE KeptInv'
<1> DEFINE E == {NewEntry(list, w) : w \in Holders}
           N == Len(buybacks)
           new == finalizeEntries(E)
<1>1. TicketLedgerInv /\ LedgerTypes /\ AsWritten /\ completed \subseteq Holders
  BY DEF KeptInv, TicketLedgerInv
<1>2. /\ ledgerFile' = [entries |-> new, counts |-> N, list |-> list, by |-> "refresh"]
      /\ cachedList' = list /\ UNCHANGED <<buybacks, migrations, completed>> /\ ReadList(list)
  BY DEF RefreshLedger, ReadList, NewEntry
<1>3. IsMoves(list) /\ ListsGrow' /\ (Plain(list) => IsList(list))
  BY <1>2, ReadGrows
<1>4. TicketLedgerInv'
  BY <1>1, RefreshKeepsLedger
<1>5. \A e \in new : \E w \in Holders : e = NewEntry(list, w) /\ totalVotingTickets(e) > 0
  BY DEF finalizeEntries
<1>6. \A w \in Holders : totalVotingTickets(NewEntry(list, w)) > 0 => NewEntry(list, w) \in new
  BY DEF finalizeEntries
<1> HIDE DEF new
<1>7. ASSUME NEW w \in Holders, NEW e, e = NewEntry(list, w)
      PROVE  /\ e \in Entry /\ e.wallet = w
             /\ e.carryover = CarriedTo(list, w) /\ e.sources = SourcesOf(list, w) /\ e.taskReward = 0
  <2>1. PICK of : of = BoughtFor(list, w)
    OBVIOUS
  <2> QED
    BY <1>1, <1>3, <1>7, <2>1, NewEntryIs
<1>8. AllWithin'
  <2>0. \A e \in new : e.taskReward = 0 /\ totalVotingTickets(e) > 0
    BY <1>5, <1>7
  <2>0a. AllWithin' <=> /\ \A e \in new : e.taskReward = 0 /\ totalVotingTickets(e) > 0
                        /\ Plain(list) => \A e \in new : Within(cachedList, e)'
    BY <1>2 DEF AllWithin, Plain
  <2> SUFFICES ASSUME Plain(list), NEW e \in new PROVE Within(cachedList, e)'
    BY <2>0, <2>0a
  <2>1. PICK w \in Holders : e = NewEntry(list, w) /\ totalVotingTickets(e) > 0
    BY <1>5
  <2>2. Within(list, e)
    BY <1>1, <1>3, <2>1, WithinNew
  <2>3. Within(list, e)'
    BY <1>2, <2>2, WithinSame
  <2> QED
    BY <1>2, <2>3
<1>9. AsWritten'
  <2>1. ledgerFile'.by = "refresh" /\ ledgerFile'.entries = new
        /\ ledgerFile' = [entries |-> ledgerFile'.entries, counts |-> ledgerFile'.counts,
                          list |-> cachedList', by |-> "refresh"]
    BY <1>2
  <2>2. ASSUME NEW e \in new
        PROVE  e.carryover = CarriedTo(list, e.wallet) /\ CarriedFrom(list, e.wallet) \subseteq e.sources
    <3>1. PICK w \in Holders : e = NewEntry(list, w)
      BY <1>5
    <3> QED
      BY <1>7, <3>1 DEF SourcesOf
  <2>3. ASSUME NEW w \in Holders, w \notin {e.wallet : e \in new}
        PROVE  CarriedTo(list, w) = 0
    <3>1. PICK e : e = NewEntry(list, w)
      OBVIOUS
    <3>2. e \in Entry /\ e.wallet = w /\ e.carryover = CarriedTo(list, w)
      BY <1>7, <3>1
    <3>3. ~(totalVotingTickets(e) > 0)
      BY <1>6, <2>3, <3>1, <3>2
    <3>4. e.carryover \in Nat
      BY <3>2 DEF Entry
    <3> QED
      BY <3>2, <3>3, <3>4, TotalIs
  <2>4. \A e \in new : e.carryover = CarriedTo(list, e.wallet) /\ CarriedFrom(list, e.wallet) \subseteq e.sources
    BY <2>2
  <2>5. \A w \in Holders : w \in {e.wallet : e \in new} \/ CarriedTo(list, w) = 0
    BY <2>3
  <2>6. cachedList' = list
    BY <1>2
  <2> QED
    BY <2>1, <2>4, <2>5, <2>6 DEF AsWritten
<1> QED
  BY <1>1, <1>2, <1>3, <1>4, <1>8, <1>9 DEF KeptInv

LEMMA ApplyKeeps ==
  ASSUME KeptInv, NEW list \in {cachedList, migrations}, ApplyCarryover(list) PROVE KeptInv'
<1> DEFINE old == ledgerFile.entries
           missing == {emptyEntry(w) : w \in Holders \ {e.wallet : e \in old}}
           all == {WithCarryover(list, e) : e \in old \cup missing}
           new == finalizeEntries(all)
<1>1. TicketLedgerInv /\ LedgerTypes /\ AllWithin /\ AsWritten /\ completed \subseteq Holders
  BY DEF KeptInv, TicketLedgerInv
<1>2. /\ ledgerFile' = [entries |-> new, counts |-> ledgerFile.counts, list |-> ledgerFile.list,
                        by |-> IF list = ledgerFile.list THEN ledgerFile.by ELSE "script"]
      /\ cachedList' = list /\ UNCHANGED <<buybacks, migrations, completed>> /\ ReadList(list)
      /\ ledgerFile # NoLedger
  BY DEF ApplyCarryover, ReadList
<1>3. /\ IsMoves(list) /\ Grew(cachedList, list) /\ ListsGrow'
      /\ Plain(list) => IsList(list) /\ IsList(cachedList)
  BY <1>2, ReadGrows
<1>4. TicketLedgerInv'
  BY <1>1, ApplyKeepsLedger
<1>5. old \subseteq Entry
  BY <1>1 DEF LedgerTypes
<1>6. \A g \in new : \E e \in old \cup missing : g = WithCarryover(list, e) /\ totalVotingTickets(g) > 0
  BY DEF finalizeEntries
<1>7. \A m \in missing : \E w \in Holders : m = emptyEntry(w)
  OBVIOUS
<1>8. ledgerFile'.entries = new
  BY <1>2
<1> HIDE DEF new, old, missing
<1>9. AllWithin'
  <2>0. ASSUME NEW g \in new PROVE g.taskReward = 0 /\ totalVotingTickets(g) > 0
    <3>1. PICK e \in old \cup missing : g = WithCarryover(list, e) /\ totalVotingTickets(g) > 0
      BY <1>6
    <3>2. e \in Entry /\ e.taskReward = 0
      <4>1. CASE e \in old
        BY <1>1, <1>5, <4>1 DEF AllWithin, old
      <4>2. CASE e \in missing
        BY <1>7, <4>2, EmptyEntryIs
      <4> QED
        BY <4>1, <4>2
    <3> QED
      BY <1>3, <3>1, <3>2, CarryoverIn
  <2>0a. AllWithin' <=> /\ \A g \in new : g.taskReward = 0 /\ totalVotingTickets(g) > 0
                        /\ Plain(list) => \A g \in new : Within(cachedList, g)'
    BY <1>2, <1>8 DEF AllWithin, Plain
  <2> SUFFICES ASSUME Plain(list), NEW g \in new PROVE Within(cachedList, g)'
    BY <2>0, <2>0a
  <2>1. PICK e \in old \cup missing : g = WithCarryover(list, e) /\ totalVotingTickets(g) > 0
    BY <1>6
  <2>2. CASE e \in old
    <3>1. e \in Entry /\ Within(cachedList, e)
      BY <1>1, <1>3, <1>5, <2>2 DEF AllWithin, old, IsList
    <3>2. Within(list, e)
      BY <1>1, <1>3, <3>1, WithinGrows
    <3>3. Within(list, g)
      BY <1>1, <1>3, <2>1, <3>1, <3>2, WithinCarried
    <3> QED
      BY <1>2, <3>3, WithinSame
  <2>3. CASE e \in missing
    <3>1. PICK w \in Holders : e = emptyEntry(w)
      BY <1>7, <2>3
    <3>2. e \in Entry /\ e.sources = {e.wallet} /\ e.raw = 0 /\ e.practice = 0 /\ e.taskReward = 0 /\ e.insiderGrant = 0
      BY <3>1, EmptyEntryIs
    <3>3. Within(list, g)
      BY <1>1, <1>3, <2>1, <3>2, WithinCarried
    <3> QED
      BY <1>2, <3>3, WithinSame
  <2> QED
    BY <2>2, <2>3
<1>10. AsWritten'
  <2>1. CASE ledgerFile'.by = "refresh"
    <3>1. ledgerFile' = ledgerFile /\ list = cachedList
      BY <2>1, SameListSameFile
    <3>2. cachedList' = cachedList
      BY <1>2, <3>1
    <3> QED
      BY <1>1, <3>1, <3>2 DEF AsWritten
  <2>2. CASE ledgerFile'.by # "refresh"
    <3>1. ledgerFile.by # "none" /\ ledgerFile.by \in {"none", "refresh", "script"}
      BY <1>1, <1>2 DEF AsWritten
    <3>2. ledgerFile'.by = ledgerFile.by \/ ledgerFile'.by = "script"
      BY <1>2
    <3> QED
      BY <2>2, <3>1, <3>2 DEF AsWritten
  <2> QED
    BY <2>1, <2>2
<1> QED
  BY <1>1, <1>2, <1>3, <1>4, <1>9, <1>10 DEF KeptInv

LEMMA CompleteKeeps ==
  ASSUME KeptInv, completed' \subseteq Holders, UNCHANGED <<buybacks, migrations, cachedList, ledgerFile>>
  PROVE  KeptInv'
<1>1. TicketLedgerInv /\ AllWithin /\ ListsGrow /\ AsWritten
  BY DEF KeptInv
<1>2. TicketLedgerInv'
  <2>1. \A i : Interval(i)' = Interval(i)
    BY DEF Interval, TicketsBefore
  <2>2. \A x : OfHome(x)' = OfHome(x)
    BY DEF OfHome
  <2>3. LedgerTypes' /\ OneEntry' /\ AllListed' /\ AtHome'
    BY <1>1 DEF TicketLedgerInv, LedgerTypes, OneEntry, AllListed, AtHome
  <2>4. OwnBuybacks'
    BY <1>1, <2>1, <2>2 DEF TicketLedgerInv, OwnBuybacks
  <2> QED
    BY <2>3, <2>4 DEF TicketLedgerInv
<1>3. AllWithin'
  <2> SUFFICES ASSUME Plain(cachedList), NEW e \in ledgerFile.entries PROVE Within(cachedList, e)'
    BY <1>1 DEF AllWithin
  <2>1. PICK list : list = cachedList
    OBVIOUS
  <2>2. Within(list, e)'
    BY <1>1, <2>1, WithinSame DEF AllWithin
  <2>3. cachedList' = list
    BY <2>1
  <2> QED
    BY <2>2, <2>3
<1>4. ListsGrow' /\ AsWritten'
  BY <1>1 DEF ListsGrow, AsWritten
<1> QED
  BY <1>2, <1>3, <1>4 DEF KeptInv

(* One of finitely many has a greatest value. *)
LEMMA Greatest ==
  ASSUME NEW S, IsFiniteSet(S), S # {}, NEW f \in [S -> Nat]
  PROVE  \E x \in S : \A y \in S : f[y] =< f[x]
<1> DEFINE G == {V \in SUBSET S : V # {} => \E x \in V : \A y \in V : f[y] =< f[x]}
<1>1. \A x \in S : f[x] \in Nat
  OBVIOUS
<1>2. ASSUME NEW V \in SUBSET S, \A W \in SUBSET V : W # V => W \in G
      PROVE  V \in G
  <2> SUFFICES ASSUME V # {} PROVE \E x \in V : \A y \in V : f[y] =< f[x]
    OBVIOUS
  <2>1. PICK z \in V : TRUE
    OBVIOUS
  <2> DEFINE W == V \ {z}
  <2>2. CASE W = {}
    BY <1>1, <2>1, <2>2
  <2>3. CASE W # {}
    <3>1. W \in G
      BY <1>2, <2>1
    <3>2. PICK x \in W : \A y \in W : f[y] =< f[x]
      BY <2>3, <3>1
    <3>3. f[x] \in Nat /\ f[z] \in Nat /\ \A y \in W : f[y] \in Nat
      BY <1>1
    <3>4. CASE f[z] =< f[x]
      BY <2>1, <3>2, <3>3, <3>4
    <3>5. CASE f[x] < f[z]
      <4>1. \A y \in V : f[y] =< f[z]
        BY <3>2, <3>3, <3>5
      <4> QED
        BY <4>1
    <3> QED
      BY <3>3, <3>4, <3>5
  <2> QED
    BY <2>2, <2>3
<1>3. S \in G
  <2>1. G \in SUBSET SUBSET S
    OBVIOUS
  <2> HIDE DEF G
  <2> QED
    BY <1>2, <2>1, SubsetInduction
<1> QED
  BY <1>3

(* An entry is found for an address that is listed. *)
LEMMA FoundIs ==
  ASSUME NEW S, S \subseteq Entry, IsFiniteSet(S), NEW w, Listing(S, w) # {}
  PROVE  FoundIn(S, w) \in S /\ w \in FoundIn(S, w).sources
<1> DEFINE L == Listing(S, w)
           a == [e \in L |-> finalTickets(e)]
           A == {e \in L : \A d \in L : a[d] =< a[e]}
           b == [e \in A |-> e.raw]
           B == {e \in A : \A d \in A : b[d] =< b[e]}
           c == [e \in B |-> totalVotingTickets(e)]
<1>1. L \subseteq S /\ L # {} /\ IsFiniteSet(L)
  <2>1. L \subseteq S
    BY DEF Listing
  <2> QED
    BY <2>1, FS_Subset
<1>2. \A e \in L : finalTickets(e) \in Nat /\ e.raw \in Nat /\ totalVotingTickets(e) \in Nat
  <2>1. \A e \in L : e \in Entry
    BY <1>1
  <2>2. \A e \in L : e.raw \in Nat
    BY <2>1 DEF Entry
  <2> QED
    BY <2>1, <2>2, TotalIs
<1>3. \A e \in L : e \in S /\ w \in e.sources
  BY DEF Listing
<1> HIDE DEF L
<1>4. A # {} /\ A \subseteq L /\ IsFiniteSet(A)
  <2>1. a \in [L -> Nat]
    BY <1>2
  <2> HIDE DEF a
  <2>2. \E x \in L : \A y \in L : a[y] =< a[x]
    BY <1>1, <2>1, Greatest
  <2>3. A # {} /\ A \subseteq L
    BY <2>2
  <2> HIDE DEF A
  <2> QED
    BY <1>1, <2>3, FS_Subset
<1>5. \A e \in A : \A d \in L : finalTickets(d) =< finalTickets(e)
  OBVIOUS
<1> HIDE DEF A, a
<1>6. B # {} /\ B \subseteq A /\ IsFiniteSet(B)
  <2>1. b \in [A -> Nat]
    BY <1>2, <1>4
  <2> HIDE DEF b
  <2>2. \E x \in A : \A y \in A : b[y] =< b[x]
    BY <1>4, <2>1, Greatest
  <2>3. B # {} /\ B \subseteq A
    BY <2>2
  <2> HIDE DEF B
  <2> QED
    BY <1>4, <2>3, FS_Subset
<1>7. \A e \in B : \A d \in A : d.raw =< e.raw
  OBVIOUS
<1>8. \A d \in A : (\A e \in A : e.raw =< d.raw) => d \in B
  OBVIOUS
<1> HIDE DEF B, b
<1>9. PICK e \in B : \A d \in B : totalVotingTickets(d) =< totalVotingTickets(e)
  <2>1. c \in [B -> Nat]
    BY <1>2, <1>4, <1>6
  <2>2. \A d \in B : c[d] = totalVotingTickets(d)
    OBVIOUS
  <2> HIDE DEF c
  <2>3. \E x \in B : \A y \in B : c[y] =< c[x]
    BY <1>6, <2>1, Greatest
  <2> QED
    BY <2>2, <2>3
<1>10. e \in L /\ e \in A
  BY <1>4, <1>6
<1>11. ASSUME NEW d \in L, RanksBefore(d, e) PROVE FALSE
  <2>1. /\ finalTickets(d) \in Nat /\ d.raw \in Nat /\ totalVotingTickets(d) \in Nat
        /\ finalTickets(e) \in Nat /\ e.raw \in Nat /\ totalVotingTickets(e) \in Nat
    BY <1>2, <1>10
  <2>2. finalTickets(d) =< finalTickets(e)
    BY <1>5, <1>10
  <2>3. /\ finalTickets(d) = finalTickets(e)
        /\ d.raw > e.raw \/ (d.raw = e.raw /\ totalVotingTickets(d) > totalVotingTickets(e))
    BY <1>11, <2>1, <2>2 DEF RanksBefore
  <2>4. d \in A
    <3>1. \A x \in L : finalTickets(x) =< finalTickets(d)
      BY <1>5, <1>10, <2>3
    <3> QED
      BY <3>1 DEF A, a
  <2>5. d.raw =< e.raw
    BY <1>7, <2>4
  <2>6. d.raw = e.raw /\ totalVotingTickets(d) > totalVotingTickets(e)
    BY <2>1, <2>3, <2>5
  <2>7. d \in B
    BY <1>7, <1>8, <2>4, <2>6
  <2>8. totalVotingTickets(d) =< totalVotingTickets(e)
    BY <1>9, <2>7
  <2> QED
    BY <2>1, <2>6, <2>8
<1>12. FoundIn(S, w) = CHOOSE x \in L : \A d \in L : ~RanksBefore(d, x)
  BY DEF FoundIn, L
<1>13. FoundIn(S, w) \in L
  BY <1>10, <1>11, <1>12
<1> QED
  BY <1>3, <1>13

(* The entries as they are served to those who completed the task. *)
Rewarded(e) == [e EXCEPT !.taskReward = Reward, !.insiderGrant = @ + Reward]
ServedTo(done, entries) ==
  LET rewarded == {FoundIn(entries, w) : w \in {v \in done : Listing(entries, v) # {}}}
      unlisted == {w \in done : Listing(entries, w) = {}}
  IN  (entries \ rewarded) \cup {Rewarded(e) : e \in rewarded} \cup {Rewarded(emptyEntry(w)) : w \in unlisted}

LEMMA ServedIs == \A entries : Served(entries) = ServedTo(completed, entries)
BY DEF Served, ServedTo, Rewarded

(* An entry before the tasks are looked at. *)
PlainEntries(entries) == entries \subseteq Entry /\ IsFiniteSet(entries) /\ \A e \in entries : e.taskReward = 0

LEMMA GrantIs ==
  ASSUME NEW e \in Entry
  PROVE  InsiderGrant(e) \in Nat /\ InsiderGrant(e) = IF e.taskReward >= e.insiderGrant THEN e.taskReward ELSE e.insiderGrant
<1> DEFINE a == e.taskReward
           b == e.insiderGrant
<1>1. a \in Nat /\ b \in Nat
  BY DEF Entry
<1>2. InsiderGrant(e) = Max({a, b})
  BY DEF InsiderGrant
<1>3. Max({a, b}) = IF a >= b THEN a ELSE b
  <2>1. a \in Int /\ b \in Int
    BY <1>1
  <2> QED
    BY <2>1, OfTwo, Zenon
<1> QED
  BY <1>1, <1>2, <1>3

LEMMA RewardedIs ==
  ASSUME NEW e \in Entry, e.taskReward = 0, NEW r, r = Rewarded(e)
  PROVE  /\ r \in Entry /\ r.sources = e.sources /\ r.raw = e.raw /\ r.carryover = e.carryover
         /\ r.practice = e.practice /\ InsiderGrant(r) = e.insiderGrant + Reward
<1>1. Reward \in Nat /\ e.insiderGrant \in Nat
  BY TicketLedgerAssumption DEF Entry
<1> DEFINE n == e.insiderGrant + Reward
<1>2. n \in Nat
  BY <1>1
<1>3. r = [e EXCEPT !.taskReward = Reward, !.insiderGrant = n]
  BY DEF Rewarded
<1> HIDE DEF n
<1> DEFINE V == SUBSET [start : Nat, end : Nat]
           e1 == [e EXCEPT !.taskReward = Reward]
<1>4. Entry = [wallet : Holders, sources : SUBSET Holders, raw : Nat, carryover : Nat, practice : Nat,
               taskReward : Nat, insiderGrant : Nat, intervals : V]
  BY DEF Entry
<1> HIDE DEF V
<1>5. e1 \in Entry /\ e1.sources = e.sources /\ e1.raw = e.raw /\ e1.carryover = e.carryover
      /\ e1.practice = e.practice /\ e1.taskReward = Reward
  BY <1>1, <1>4
<1>6. r = [e1 EXCEPT !.insiderGrant = n]
  BY <1>3
<1> HIDE DEF e1
<1>7. r \in Entry /\ r.sources = e.sources /\ r.raw = e.raw /\ r.carryover = e.carryover
      /\ r.practice = e.practice /\ r.taskReward = Reward /\ r.insiderGrant = n
  BY <1>2, <1>4, <1>5, <1>6
<1>8. InsiderGrant(r) = n
  BY <1>1, <1>7, GrantIs DEF n
<1> QED
  BY <1>7, <1>8 DEF n

(* What is served for an address: an entry, rewarded if it is the one      *)
(* found for somebody who completed the task, or a reward of its own.      *)
PlainFor(done, entries, d) ==
  d \in entries /\ \A v \in done : Listing(entries, v) # {} => d # FoundIn(entries, v)
RewardFor(done, entries, d) ==
  \E v \in done : Listing(entries, v) # {} /\ d = Rewarded(FoundIn(entries, v))
OwnFor(done, entries, d) ==
  \E v \in done : Listing(entries, v) = {} /\ d = Rewarded(emptyEntry(v))

LEMMA ServedOnes ==
  ASSUME NEW done, NEW entries, NEW d
  PROVE  d \in ServedTo(done, entries) <=>
           PlainFor(done, entries, d) \/ RewardFor(done, entries, d) \/ OwnFor(done, entries, d)
BY DEF ServedTo, PlainFor, RewardFor, OwnFor

LEMMA ValuesAreFinite ==
  ASSUME NEW S, IsFiniteSet(S), NEW f, DOMAIN f = S, NEW T, T = {f[x] : x \in S}, f \in [S -> T]
  PROVE  IsFiniteSet(T)
<1>1. f \in Surjection(S, T)
  BY DEF Surjection
<1> QED
  BY <1>1, FS_Surjection

LEMMA ServedEntries ==
  ASSUME NEW entries, PlainEntries(entries), NEW done, done \subseteq Holders, NEW S, S = ServedTo(done, entries)
  PROVE  S \subseteq Entry /\ IsFiniteSet(S)
<1>0. entries \subseteq Entry /\ IsFiniteSet(entries) /\ \A e \in entries : e.taskReward = 0
  BY DEF PlainEntries
<1>1. S \subseteq Entry
  <2> SUFFICES ASSUME NEW d \in S PROVE d \in Entry
    OBVIOUS
  <2>1. CASE PlainFor(done, entries, d)
    BY <1>0, <2>1 DEF PlainFor
  <2>2. CASE RewardFor(done, entries, d)
    <3>1. PICK v \in done : Listing(entries, v) # {} /\ d = Rewarded(FoundIn(entries, v))
      BY <2>2 DEF RewardFor
    <3>2. FoundIn(entries, v) \in entries
      BY <1>0, <3>1, FoundIs
    <3> QED
      BY <1>0, <3>1, <3>2, RewardedIs
  <2>3. CASE OwnFor(done, entries, d)
    <3>1. PICK v \in done : d = Rewarded(emptyEntry(v))
      BY <2>3 DEF OwnFor
    <3>2. emptyEntry(v) \in Entry /\ emptyEntry(v).taskReward = 0
      BY EmptyEntryIs
    <3> QED
      BY <3>1, <3>2, RewardedIs
  <2> QED
    BY <2>1, <2>2, <2>3, ServedOnes
<1>2. IsFiniteSet(S)
  <2> DEFINE R == {FoundIn(entries, w) : w \in {v \in done : Listing(entries, v) # {}}}
             U == {w \in done : Listing(entries, w) = {}}
             A == {Rewarded(e) : e \in R}
             B == {Rewarded(emptyEntry(w)) : w \in U}
             C == entries \ R
  <2>1. R \subseteq entries
    BY <1>0, FoundIs
  <2>2. IsFiniteSet(R) /\ IsFiniteSet(C)
    BY <1>0, <2>1, FS_Subset
  <2>3. IsFiniteSet(U)
    <3>1. U \subseteq Holders /\ IsFiniteSet(Holders)
      BY TicketLedgerAssumption
    <3> QED
      BY <3>1, FS_Subset
  <2>4. S = C \cup A \cup B
    BY DEF ServedTo
  <2> HIDE DEF R, U, C
  <2>5. IsFiniteSet(A)
    <3> DEFINE f == [e \in R |-> Rewarded(e)]
    <3>1. DOMAIN f = R /\ A = {f[e] : e \in R} /\ f \in [R -> A]
      OBVIOUS
    <3> HIDE DEF f, A
    <3> QED
      BY <2>2, <3>1, ValuesAreFinite
  <2>6. IsFiniteSet(B)
    <3> DEFINE f == [w \in U |-> Rewarded(emptyEntry(w))]
    <3>1. DOMAIN f = U /\ B = {f[w] : w \in U} /\ f \in [U -> B]
      OBVIOUS
    <3> HIDE DEF f, B
    <3> QED
      BY <2>3, <3>1, ValuesAreFinite
  <2> HIDE DEF A, B
  <2>7. IsFiniteSet(C \cup A)
    BY <2>2, <2>5, FS_Union
  <2>8. IsFiniteSet((C \cup A) \cup B)
    BY <2>6, <2>7, FS_Union
  <2> QED
    BY <2>4, <2>8
<1> QED
  BY <1>1, <1>2

(* What an address may use, by the entry that is found for it. *)
LEMMA UsableIs ==
  ASSUME NEW S, S \subseteq Entry, IsFiniteSet(S), NEW x \in Holders, NEW u, u = Usable(S, x)
  PROVE  /\ u.of = x
         /\ \E e \in Entry :
              /\ u.practice = e.practice /\ u.shared = e.raw + e.carryover + InsiderGrant(e)
              /\ \/ (\A d \in S : x \notin d.sources) /\ e = emptyEntry(x)
                 \/ e \in S /\ x \in e.sources
<1> DEFINE e == IF Listing(S, x) = {} THEN emptyEntry(x) ELSE FoundIn(S, x)
<1>1. u = [of |-> x, practice |-> UsableTickets(e, "round32"), shared |-> UsableTickets(e, "round16")]
  BY DEF Usable
<1>2. /\ e \in Entry
      /\ \/ (\A d \in S : x \notin d.sources) /\ e = emptyEntry(x)
         \/ e \in S /\ x \in e.sources
  <2>1. CASE Listing(S, x) = {}
    <3>1. \A d \in S : x \notin d.sources
      BY <2>1 DEF Listing
    <3>2. emptyEntry(x) \in Entry
      BY EmptyEntryIs
    <3> QED
      BY <2>1, <3>1, <3>2
  <2>2. CASE Listing(S, x) # {}
    BY <2>2, FoundIs
  <2> QED
    BY <2>1, <2>2
<1> HIDE DEF e
<1>3. e.raw \in Nat /\ e.carryover \in Nat /\ e.practice \in Nat /\ InsiderGrant(e) \in Nat
  BY <1>2, GrantIs DEF Entry
<1>4. UsableTickets(e, "round32") = e.practice
  BY <1>3 DEF UsableTickets, BaseTickets, SharedRounds
<1>5. UsableTickets(e, "round16") = e.raw + e.carryover + InsiderGrant(e)
  BY <1>3 DEF UsableTickets, BaseTickets, SharedRounds
<1>6. u.of = x /\ u.practice = e.practice /\ u.shared = e.raw + e.carryover + InsiderGrant(e)
  BY <1>1, <1>4, <1>5
<1> QED
  BY <1>2, <1>6

(* What an address has before it is rewarded, by the entry.                *)
Shares(e) == e.raw + e.carryover + e.insiderGrant

(* What it has at most. *)
LEMMA HasAtMost ==
  ASSUME NEW entries, PlainEntries(entries), NEW done, done \subseteq Holders,
         NEW x \in Holders, NEW u, u = Usable(ServedTo(done, entries), x)
  PROVE  /\ u.of = x
         /\ \/ u.practice = 0 /\ u.shared = 0
            \/ \E e \in entries : x \in e.sources /\ u.practice = e.practice /\ u.shared = Shares(e)
            \/ \E e \in entries : /\ x \in e.sources /\ u.practice = e.practice /\ u.shared = Shares(e) + Reward
                                  /\ \E v \in done : v \in e.sources
            \/ x \in done /\ u.practice = 0 /\ u.shared = Reward
<1> DEFINE S == ServedTo(done, entries)
<1>0. entries \subseteq Entry /\ IsFiniteSet(entries) /\ \A e \in entries : e.taskReward = 0
  BY DEF PlainEntries
<1>1. S \subseteq Entry /\ IsFiniteSet(S)
  BY ServedEntries
<1>2. \A d : d \in S <=> PlainFor(done, entries, d) \/ RewardFor(done, entries, d) \/ OwnFor(done, entries, d)
  BY ServedOnes
<1>3. u = Usable(S, x)
  OBVIOUS
<1> HIDE DEF S
<1>4. u.of = x
  BY <1>1, <1>3, UsableIs
<1>5. PICK d \in Entry :
        /\ u.practice = d.practice /\ u.shared = d.raw + d.carryover + InsiderGrant(d)
        /\ \/ (\A y \in S : x \notin y.sources) /\ d = emptyEntry(x)
           \/ d \in S /\ x \in d.sources
  BY <1>1, <1>3, UsableIs
<1>6. \A e \in Entry : e.raw \in Nat /\ e.carryover \in Nat /\ e.practice \in Nat /\ e.insiderGrant \in Nat
  BY DEF Entry
<1>7. Reward \in Nat
  BY TicketLedgerAssumption
<1>8. CASE d = emptyEntry(x)
  <2>1. d.raw = 0 /\ d.carryover = 0 /\ d.practice = 0 /\ d.taskReward = 0 /\ d.insiderGrant = 0
    BY <1>8, EmptyEntryIs
  <2>2. InsiderGrant(d) = 0
    BY <2>1, GrantIs
  <2> QED
    BY <1>4, <1>5, <2>1, <2>2
<1>9. CASE d \in S /\ x \in d.sources
  <2>1. CASE PlainFor(done, entries, d)
    <3>1. d \in entries /\ d.taskReward = 0
      BY <1>0, <2>1 DEF PlainFor
    <3>2. InsiderGrant(d) = d.insiderGrant
      BY <1>6, <3>1, GrantIs
    <3>3. u.shared = Shares(d)
      BY <1>5, <3>2 DEF Shares
    <3> QED
      BY <1>4, <1>5, <1>9, <3>1, <3>3
  <2>2. CASE RewardFor(done, entries, d)
    <3>1. PICK v \in done : Listing(entries, v) # {} /\ d = Rewarded(FoundIn(entries, v))
      BY <2>2 DEF RewardFor
    <3>2. PICK e : e = FoundIn(entries, v)
      OBVIOUS
    <3>3. e \in entries /\ v \in e.sources /\ e \in Entry /\ e.taskReward = 0
      BY <1>0, <3>1, <3>2, FoundIs
    <3>4. /\ d.sources = e.sources /\ d.raw = e.raw /\ d.carryover = e.carryover
          /\ d.practice = e.practice /\ InsiderGrant(d) = e.insiderGrant + Reward
      BY <3>1, <3>2, <3>3, RewardedIs
    <3>5. u.shared = Shares(e) + Reward
      BY <1>5, <1>6, <1>7, <3>3, <3>4 DEF Shares
    <3> QED
      BY <1>4, <1>5, <1>9, <3>3, <3>4, <3>5
  <2>3. CASE OwnFor(done, entries, d)
    <3>1. PICK v \in done : d = Rewarded(emptyEntry(v))
      BY <2>3 DEF OwnFor
    <3>2. PICK e : e = emptyEntry(v)
      OBVIOUS
    <3>3. /\ e \in Entry /\ e.sources = {v} /\ e.raw = 0 /\ e.carryover = 0 /\ e.practice = 0
          /\ e.taskReward = 0 /\ e.insiderGrant = 0
      BY <3>2, EmptyEntryIs
    <3>4. /\ d.sources = e.sources /\ d.raw = e.raw /\ d.carryover = e.carryover
          /\ d.practice = e.practice /\ InsiderGrant(d) = e.insiderGrant + Reward
      BY <3>1, <3>2, <3>3, RewardedIs
    <3>5. x = v /\ u.practice = 0 /\ u.shared = Reward
      BY <1>5, <1>7, <1>9, <3>3, <3>4
    <3> QED
      BY <1>4, <3>1, <3>5
  <2> QED
    BY <1>2, <1>9, <2>1, <2>2, <2>3
<1> QED
  BY <1>5, <1>8, <1>9

(* What it has at least, when no address is listed twice. *)
Single(entries) == \A d, e \in entries : \A x \in d.sources : x \in e.sources => d = e

LEMMA HasAtLeast ==
  ASSUME NEW entries, PlainEntries(entries), Single(entries), NEW done, done \subseteq Holders,
         NEW x \in Holders, NEW u, u = Usable(ServedTo(done, entries), x)
  PROVE  /\ u.of = x /\ u.practice \in Nat /\ u.shared \in Nat
         /\ x \in done => u.shared >= Reward
         /\ \A n \in entries : x \in n.sources =>
              /\ u.practice >= n.practice /\ u.shared >= Shares(n)
              /\ \A v \in done : v \in n.sources => u.shared >= Shares(n) + Reward
<1> DEFINE S == ServedTo(done, entries)
<1>0. entries \subseteq Entry /\ IsFiniteSet(entries) /\ \A e \in entries : e.taskReward = 0
  BY DEF PlainEntries
<1>1. S \subseteq Entry /\ IsFiniteSet(S)
  BY ServedEntries
<1>2. \A d : d \in S <=> PlainFor(done, entries, d) \/ RewardFor(done, entries, d) \/ OwnFor(done, entries, d)
  BY ServedOnes
<1>3. u = Usable(S, x)
  OBVIOUS
<1> HIDE DEF S
<1>4. u.of = x
  BY <1>1, <1>3, UsableIs
<1>5. PICK d \in Entry :
        /\ u.practice = d.practice /\ u.shared = d.raw + d.carryover + InsiderGrant(d)
        /\ \/ (\A y \in S : x \notin y.sources) /\ d = emptyEntry(x)
           \/ d \in S /\ x \in d.sources
  BY <1>1, <1>3, UsableIs
<1>6. \A e \in Entry : e.raw \in Nat /\ e.carryover \in Nat /\ e.practice \in Nat /\ e.insiderGrant \in Nat
  BY DEF Entry
<1>7. Reward \in Nat
  BY TicketLedgerAssumption
<1>8. u.practice \in Nat /\ u.shared \in Nat
  BY <1>5, <1>6, GrantIs
<1>9. ASSUME NEW v \in done, NEW n \in entries, v \in n.sources
      PROVE  Listing(entries, v) # {} /\ FoundIn(entries, v) = n
  <2>1. n \in Listing(entries, v)
    BY <1>9 DEF Listing
  <2>2. FoundIn(entries, v) \in entries /\ v \in FoundIn(entries, v).sources
    BY <1>0, <2>1, FoundIs
  <2> QED
    BY <1>9, <2>1, <2>2 DEF Single
<1>10. ASSUME NEW n \in entries, NEW r, r = Rewarded(n)
       PROVE  /\ r.sources = n.sources /\ r.raw = n.raw /\ r.carryover = n.carryover
              /\ r.practice = n.practice /\ InsiderGrant(r) = n.insiderGrant + Reward
  BY <1>0, <1>10, RewardedIs
<1>11. ASSUME NEW v \in Holders, NEW r, r = Rewarded(emptyEntry(v))
       PROVE  /\ r.sources = {v} /\ r.raw = 0 /\ r.carryover = 0
              /\ r.practice = 0 /\ InsiderGrant(r) = Reward
  <2>1. PICK e : e = emptyEntry(v)
    OBVIOUS
  <2>2. /\ e \in Entry /\ e.sources = {v} /\ e.raw = 0 /\ e.carryover = 0 /\ e.practice = 0
        /\ e.taskReward = 0 /\ e.insiderGrant = 0
    BY <2>1, EmptyEntryIs
  <2>3. /\ r.sources = e.sources /\ r.raw = e.raw /\ r.carryover = e.carryover
        /\ r.practice = e.practice /\ InsiderGrant(r) = e.insiderGrant + Reward
    BY <1>11, <2>1, <2>2, RewardedIs
  <2> QED
    BY <1>7, <2>2, <2>3
<1>12. ASSUME NEW n \in entries, x \in n.sources
       PROVE  /\ u.practice >= n.practice /\ u.shared >= Shares(n)
              /\ \A v \in done : v \in n.sources => u.shared >= Shares(n) + Reward
  <2>0. n \in Entry /\ n.taskReward = 0
    BY <1>0
  <2>1. \E y \in S : x \in y.sources
    <3>1. CASE \E v \in done : v \in n.sources
      <4>1. PICK v \in done : v \in n.sources
        BY <3>1
      <4>2. Listing(entries, v) # {} /\ FoundIn(entries, v) = n
        BY <1>9, <4>1
      <4>3. PICK r : r = Rewarded(n)
        OBVIOUS
      <4>4. r \in S
        BY <1>2, <4>2, <4>3 DEF RewardFor
      <4> QED
        BY <1>10, <1>12, <4>3, <4>4
    <3>2. CASE \A v \in done : v \notin n.sources
      <4>1. PlainFor(done, entries, n)
        <5> SUFFICES ASSUME NEW v \in done, Listing(entries, v) # {}, n = FoundIn(entries, v) PROVE FALSE
          BY DEF PlainFor
        <5>1. v \in n.sources
          BY <1>0, FoundIs
        <5> QED
          BY <3>2, <5>1
      <4> QED
        BY <1>2, <1>12, <4>1
    <3> QED
      BY <3>1, <3>2
  <2>2. d \in S /\ x \in d.sources
    BY <1>5, <2>1
  <2>3. CASE PlainFor(done, entries, d)
    <3>1. d = n
      BY <1>12, <2>2, <2>3 DEF PlainFor, Single
    <3>2. \A v \in done : v \notin n.sources
      BY <1>9, <2>3, <3>1 DEF PlainFor
    <3>3. InsiderGrant(n) = n.insiderGrant
      BY <1>6, <2>0, GrantIs
    <3>4. u.practice = n.practice /\ u.shared = Shares(n)
      BY <1>5, <3>1, <3>3 DEF Shares
    <3> QED
      BY <1>6, <1>8, <2>0, <3>2, <3>4
  <2>4. CASE RewardFor(done, entries, d)
    <3>1. PICK v \in done : Listing(entries, v) # {} /\ d = Rewarded(FoundIn(entries, v))
      BY <2>4 DEF RewardFor
    <3>2. PICK e : e = FoundIn(entries, v)
      OBVIOUS
    <3>3. e \in entries
      BY <1>0, <3>1, <3>2, FoundIs
    <3>4. /\ d.sources = e.sources /\ d.raw = e.raw /\ d.carryover = e.carryover
          /\ d.practice = e.practice /\ InsiderGrant(d) = e.insiderGrant + Reward
      BY <1>10, <3>1, <3>2, <3>3
    <3>5. e = n
      BY <1>12, <2>2, <3>3, <3>4 DEF Single
    <3>6. u.practice = n.practice /\ u.shared = Shares(n) + Reward
      BY <1>5, <1>6, <1>7, <2>0, <3>4, <3>5 DEF Shares
    <3>7. Shares(n) \in Nat
      BY <1>6, <2>0 DEF Shares
    <3> QED
      BY <1>6, <1>7, <2>0, <3>6, <3>7
  <2>5. CASE OwnFor(done, entries, d)
    <3>1. PICK v \in done : Listing(entries, v) = {} /\ d = Rewarded(emptyEntry(v))
      BY <2>5 DEF OwnFor
    <3>2. d.sources = {v}
      BY <1>11, <3>1
    <3>3. n \in Listing(entries, v)
      BY <1>12, <2>2, <3>2 DEF Listing
    <3> QED
      BY <3>1, <3>3
  <2> QED
    BY <1>2, <2>2, <2>3, <2>4, <2>5
<1>13. ASSUME x \in done PROVE u.shared >= Reward
  <2>1. CASE \E n \in entries : x \in n.sources
    <3>1. PICK n \in entries : x \in n.sources
      BY <2>1
    <3>2. u.shared >= Shares(n) + Reward
      BY <1>12, <1>13, <3>1
    <3>3. Shares(n) \in Nat
      BY <1>0, <1>6 DEF Shares
    <3> QED
      BY <1>7, <1>8, <3>2, <3>3
  <2>2. CASE \A n \in entries : x \notin n.sources
    <3>1. Listing(entries, x) = {}
      BY <2>2 DEF Listing
    <3>2. PICK r : r = Rewarded(emptyEntry(x))
      OBVIOUS
    <3>3. r \in S /\ x \in r.sources
      BY <1>2, <1>11, <1>13, <3>1, <3>2 DEF OwnFor
    <3>4. d \in S /\ x \in d.sources
      BY <1>5, <3>3
    <3>5. ~PlainFor(done, entries, d)
      BY <2>2, <3>4 DEF PlainFor
    <3>6. ~RewardFor(done, entries, d)
      <4> SUFFICES ASSUME NEW v \in done, Listing(entries, v) # {}, d = Rewarded(FoundIn(entries, v)) PROVE FALSE
        BY DEF RewardFor
      <4>1. PICK e : e = FoundIn(entries, v)
        OBVIOUS
      <4>2. e \in entries
        BY <1>0, <4>1, FoundIs
      <4>3. d.sources = e.sources
        BY <1>10, <4>1, <4>2
      <4> QED
        BY <2>2, <3>4, <4>2, <4>3
    <3>7. PICK v \in done : d = Rewarded(emptyEntry(v))
      BY <1>2, <3>4, <3>5, <3>6 DEF OwnFor
    <3>8. d.raw = 0 /\ d.carryover = 0 /\ InsiderGrant(d) = Reward
      BY <1>11, <3>7
    <3> QED
      BY <1>5, <1>7, <3>8
  <2> QED
    BY <2>1, <2>2
<1> QED
  BY <1>4, <1>8, <1>12, <1>13

(* Whoever had an entry has it in one that is no less: then no address has *)
(* fewer tickets.                                                          *)
NoLess(e, n) ==
  /\ e.sources \subseteq n.sources
  /\ e.raw =< n.raw /\ e.carryover =< n.carryover
  /\ e.practice =< n.practice /\ e.insiderGrant =< n.insiderGrant

LEMMA TicketsAreKept ==
  ASSUME NEW E, NEW F, PlainEntries(E), PlainEntries(F), Single(F), \A e \in E : \E n \in F : NoLess(e, n),
         NEW done, NEW more, done \subseteq more, more \subseteq Holders, NEW x \in Holders,
         NEW b, b = Usable(ServedTo(done, E), x), NEW a, a = Usable(ServedTo(more, F), x)
  PROVE  b.of = x /\ a.of = x /\ a.practice >= b.practice /\ a.shared >= b.shared
<1>1. /\ b.of = x
      /\ \/ b.practice = 0 /\ b.shared = 0
         \/ \E e \in E : x \in e.sources /\ b.practice = e.practice /\ b.shared = Shares(e)
         \/ \E e \in E : /\ x \in e.sources /\ b.practice = e.practice /\ b.shared = Shares(e) + Reward
                         /\ \E v \in done : v \in e.sources
         \/ x \in done /\ b.practice = 0 /\ b.shared = Reward
  BY HasAtMost
<1>2. /\ a.of = x /\ a.practice \in Nat /\ a.shared \in Nat
      /\ x \in more => a.shared >= Reward
      /\ \A n \in F : x \in n.sources =>
           /\ a.practice >= n.practice /\ a.shared >= Shares(n)
           /\ \A v \in more : v \in n.sources => a.shared >= Shares(n) + Reward
  BY HasAtLeast
<1>3. Reward \in Nat
  BY TicketLedgerAssumption
<1>4. \A e \in Entry : /\ e.raw \in Nat /\ e.carryover \in Nat /\ e.practice \in Nat /\ e.insiderGrant \in Nat
                       /\ Shares(e) \in Nat
  BY DEF Entry, Shares
<1>5. \A e \in E : e \in Entry
  BY DEF PlainEntries
<1>6. \A n \in F : n \in Entry
  BY DEF PlainEntries
<1>7. ASSUME NEW e \in E, x \in e.sources
      PROVE  \E n \in F : /\ e.sources \subseteq n.sources /\ e.practice =< n.practice
                          /\ Shares(e) =< Shares(n) /\ x \in n.sources
  <2>1. PICK n \in F : NoLess(e, n)
    OBVIOUS
  <2>2. e \in Entry /\ n \in Entry
    BY <1>5, <1>6
  <2>3. Shares(e) =< Shares(n)
    BY <1>4, <2>1, <2>2 DEF NoLess, Shares
  <2> QED
    BY <1>7, <2>1, <2>3 DEF NoLess
<1>8. CASE b.practice = 0 /\ b.shared = 0
  BY <1>1, <1>2, <1>8
<1>9. ASSUME NEW e \in E, x \in e.sources, b.practice = e.practice, b.shared = Shares(e)
      PROVE  a.practice >= b.practice /\ a.shared >= b.shared
  <2>1. PICK n \in F : e.sources \subseteq n.sources /\ e.practice =< n.practice /\ Shares(e) =< Shares(n) /\ x \in n.sources
    BY <1>7, <1>9
  <2>2. a.practice >= n.practice /\ a.shared >= Shares(n)
    BY <1>2, <2>1
  <2>3. e \in Entry /\ n \in Entry
    BY <1>5, <1>6
  <2> QED
    BY <1>2, <1>4, <1>9, <2>1, <2>2, <2>3
<1>10. ASSUME NEW e \in E, x \in e.sources, b.practice = e.practice, b.shared = Shares(e) + Reward,
              NEW v \in done, v \in e.sources
       PROVE  a.practice >= b.practice /\ a.shared >= b.shared
  <2>1. PICK n \in F : e.sources \subseteq n.sources /\ e.practice =< n.practice /\ Shares(e) =< Shares(n) /\ x \in n.sources
    BY <1>7, <1>10
  <2>2. a.practice >= n.practice /\ a.shared >= Shares(n) + Reward
    BY <1>2, <1>10, <2>1
  <2>3. e \in Entry /\ n \in Entry
    BY <1>5, <1>6
  <2>4. /\ e.practice \in Nat /\ n.practice \in Nat /\ Shares(e) \in Nat /\ Shares(n) \in Nat
    BY <1>4, <2>3
  <2> QED
    BY <1>2, <1>3, <1>10, <2>1, <2>2, <2>4
<1>11. CASE x \in done /\ b.practice = 0 /\ b.shared = Reward
  BY <1>1, <1>2, <1>11
<1> QED
  BY <1>1, <1>2, <1>8, <1>9, <1>10, <1>11

(* The file's entries are finitely many, one for a home; and one that a    *)
(* refresh wrote lists no address twice.                                   *)
LEMMA FileIsPlain ==
  ASSUME KeptInv
  PROVE  /\ PlainEntries(ledgerFile.entries)
         /\ ledgerFile.by # "script" /\ Plain(ledgerFile.list) => Single(ledgerFile.entries)
<1> DEFINE T == ledgerFile.entries
           S == {e.wallet : e \in T}
           f == [w \in S |-> CHOOSE e \in T : e.wallet = w]
<1>1. LedgerTypes /\ OneEntry /\ AtHome /\ AllWithin /\ AsWritten
  BY DEF KeptInv, TicketLedgerInv
<1>2. T \subseteq Entry /\ \A d, e \in T : d.wallet = e.wallet => d = e
  BY <1>1 DEF LedgerTypes, OneEntry
<1>3. IsFiniteSet(S)
  <2>1. S \subseteq Holders /\ IsFiniteSet(Holders)
    BY <1>2, TicketLedgerAssumption DEF Entry
  <2> QED
    BY <2>1, FS_Subset
<1>4. IsFiniteSet(T)
  <2>1. \A e \in T : e.wallet \in S /\ f[e.wallet] = e
    BY <1>2
  <2>2. \A w \in S : f[w] \in T
    OBVIOUS
  <2>3. DOMAIN f = S /\ f \in [S -> T]
    BY <2>2
  <2> HIDE DEF f, S, T
  <2>4. T = {f[w] : w \in S}
    BY <2>1, <2>2
  <2> QED
    BY <1>3, <2>3, <2>4, ValuesAreFinite
<1>5. \A e \in T : e.taskReward = 0
  BY <1>1 DEF AllWithin
<1>6. ASSUME ledgerFile.by # "script", Plain(ledgerFile.list) PROVE Single(T)
  <2>1. CASE ledgerFile.by = "refresh"
    BY <1>1, <1>2, <1>6, <2>1 DEF AtHome, Single
  <2>2. CASE ledgerFile.by = "none"
    <3>1. T = {}
      BY <1>1, <2>2 DEF AsWritten, NoLedger
    <3> QED
      BY <3>1 DEF Single
  <2> QED
    BY <1>1, <1>6, <2>1, <2>2 DEF AsWritten
<1> QED
  BY <1>2, <1>4, <1>5, <1>6 DEF PlainEntries

LEMMA NextFileIsPlain ==
  KeptInv' => /\ PlainEntries(ledgerFile'.entries)
              /\ ledgerFile'.by # "script" /\ Plain(ledgerFile'.list) => Single(ledgerFile'.entries)
<1>1. KeptInv => /\ PlainEntries(ledgerFile.entries)
                 /\ ledgerFile.by # "script" /\ Plain(ledgerFile.list) => Single(ledgerFile.entries)
  BY FileIsPlain
<1>2. (KeptInv => /\ PlainEntries(ledgerFile.entries)
                  /\ ledgerFile.by # "script" /\ Plain(ledgerFile.list) => Single(ledgerFile.entries))'
  BY <1>1, PTL
<1> QED
  BY <1>2 DEF PlainEntries, Single, Plain

(* The tickets of an address before and after. *)
TicketsKept ==
  \A before \in UsableNow, after \in UsableNow' :
    before.of = after.of => after.practice >= before.practice /\ after.shared >= before.shared

LEMMA KeptTickets ==
  ASSUME KeptInv, KeptInv', completed \subseteq completed', ledgerFile'.by # "script", Plain(ledgerFile'.list),
         \A e \in ledgerFile.entries : \E n \in ledgerFile'.entries : NoLess(e, n)
  PROVE  TicketsKept
<1> DEFINE E == ledgerFile.entries
           F == ledgerFile'.entries
<1>1. PlainEntries(E)
  BY FileIsPlain
<1>2. PlainEntries(F) /\ Single(F)
  BY NextFileIsPlain
<1>3. completed' \subseteq Holders
  BY DEF KeptInv
<1>4. ASSUME NEW x \in Holders, NEW y \in Holders, NEW b, b = Usable(ServedTo(completed, E), x),
             NEW a, a = Usable(ServedTo(completed', F), y), b.of = a.of
      PROVE  a.practice >= b.practice /\ a.shared >= b.shared
  <2> HIDE DEF E, F
  <2>1. b.of = x /\ a.of = y
    <3>1. completed \subseteq Holders
      BY <1>3
    <3> QED
      BY <1>1, <1>2, <1>3, <1>4, <3>1, HasAtMost
  <2>2. x = y
    BY <1>4, <2>1
  <2>3. a = Usable(ServedTo(completed', F), x)
    BY <1>4, <2>2
  <2>4. \A e \in E : \E n \in F : NoLess(e, n)
    BY DEF E, F
  <2> QED
    BY <1>1, <1>2, <1>3, <1>4, <2>3, <2>4, TicketsAreKept
<1>5. \A before \in UsableNow : \E x \in Holders : before = Usable(ServedTo(completed, E), x)
  BY ServedIs DEF UsableNow
<1>6. \A after \in UsableNow' : \E y \in Holders : after = Usable(ServedTo(completed', F), y)
  <2>1. \A entries : Served(entries)' = ServedTo(completed', entries)
    BY DEF Served, ServedTo, Rewarded
  <2> QED
    BY <2>1 DEF UsableNow
<1> HIDE DEF E, F
<1>7. ASSUME NEW before \in UsableNow, NEW after \in UsableNow', before.of = after.of
      PROVE  after.practice >= before.practice /\ after.shared >= before.shared
  <2>1. PICK x \in Holders : before = Usable(ServedTo(completed, E), x)
    BY <1>5
  <2>2. PICK y \in Holders : after = Usable(ServedTo(completed', F), y)
    BY <1>6
  <2> QED
    BY <1>4, <1>7, <2>1, <2>2
<1> QED
  BY <1>7 DEF TicketsKept

LEMMA RefreshTickets ==
  ASSUME KeptInv, KeptInv', NEW list \in {cachedList, migrations}, RefreshLedger(list), Plain(list) PROVE TicketsKept
<1> DEFINE new == finalizeEntries({NewEntry(list, w) : w \in Holders})
<1>1. LedgerTypes /\ AllWithin
  BY DEF KeptInv, TicketLedgerInv
<1>2. /\ ledgerFile' = [entries |-> new, counts |-> Len(buybacks), list |-> list, by |-> "refresh"]
      /\ UNCHANGED <<migrations, completed>> /\ ReadList(list)
  BY DEF RefreshLedger, NewEntry
<1>3. IsList(list) /\ IsList(cachedList) /\ Grew(cachedList, list)
  BY <1>2, ReadGrows
<1>4. ledgerFile'.entries = new /\ ledgerFile'.list = list /\ ledgerFile'.by = "refresh"
  BY <1>2
<1>5. \A w \in Holders : totalVotingTickets(NewEntry(list, w)) > 0 => NewEntry(list, w) \in new
  BY DEF finalizeEntries
<1> HIDE DEF new
<1>6. ASSUME NEW e \in ledgerFile.entries PROVE \E n \in new : NoLess(e, n)
  <2>1. e \in Entry /\ Within(list, e)
    <3>1. e \in Entry /\ Within(cachedList, e)
      BY <1>1, <1>3 DEF LedgerTypes, AllWithin, IsList
    <3> QED
      BY <1>1, <1>3, <3>1, WithinGrows
  <2> DEFINE h == Home(list, e.wallet)
  <2>2. h \in Holders
    BY <1>3, <2>1, HomeIsHome DEF Entry
  <2>3. /\ e.sources \subseteq SourcesOf(list, h)
        /\ e.raw =< RawOf(list, h) /\ e.carryover =< CarriedTo(list, h)
        /\ e.practice =< PracticeOf(list, h) /\ e.insiderGrant =< GrantOf(list, h)
        /\ e.taskReward = 0 /\ totalVotingTickets(e) > 0
    BY <2>1 DEF Within
  <2> HIDE DEF h
  <2>4. PICK n : n = NewEntry(list, h)
    OBVIOUS
  <2>5. PICK of : of = BoughtFor(list, h)
    OBVIOUS
  <2>6. /\ n \in Entry
        /\ n.raw = RawOf(list, h) /\ n.carryover = CarriedTo(list, h) /\ n.practice = PracticeOf(list, h)
        /\ n.insiderGrant = GrantOf(list, h) /\ n.sources = SourcesOf(list, h)
    BY <1>1, <1>3, <2>2, <2>4, <2>5, NewEntryIs DEF IsList
  <2>7. NoLess(e, n)
    BY <2>3, <2>6 DEF NoLess
  <2>8. totalVotingTickets(n) > 0
    <3>1. e.raw > 0 \/ e.carryover > 0 \/ e.practice > 0 \/ e.insiderGrant > 0
      <4>1. e.raw \in Nat /\ e.carryover \in Nat /\ e.practice \in Nat /\ e.insiderGrant \in Nat
        BY <2>1 DEF Entry
      <4> SUFFICES ASSUME e.raw = 0, e.carryover = 0, e.practice = 0, e.insiderGrant = 0 PROVE FALSE
        BY <4>1
      <4>2. totalVotingTickets(e) = 0
        BY <2>1, <2>3, TotalIs
      <4> QED
        BY <2>3, <4>2
    <3>2. /\ e.raw \in Nat /\ e.carryover \in Nat /\ e.practice \in Nat /\ e.insiderGrant \in Nat
          /\ n.raw \in Nat /\ n.carryover \in Nat /\ n.practice \in Nat /\ n.insiderGrant \in Nat
      BY <2>1, <2>6 DEF Entry
    <3>3. n.raw > 0 \/ n.carryover > 0 \/ n.practice > 0 \/ n.insiderGrant > 0
      BY <2>7, <3>1, <3>2 DEF NoLess
    <3> QED
      BY <2>6, <3>3, TotalIs
  <2> QED
    BY <1>5, <2>2, <2>4, <2>7, <2>8
<1> QED
  BY <1>2, <1>4, <1>6, KeptTickets

(* Between a refresh or a reward and the next no address gets fewer        *)
(* tickets than it had, as long as the list the file is written with is    *)
(* plain: for any holders, buybacks, migrations into such a list, grants   *)
(* and previous entries that agree with the resolver. Where a wallet that  *)
(* was moved to moves on it does not hold.                                 *)
THEOREM NoTicketsAreLost == TicketLedgerSpec => TicketsAreNotLost
<1> DEFINE Kept == /\ ledgerFile' # ledgerFile \/ completed' # completed
                   /\ ledgerFile'.by # "script" /\ Plain(ledgerFile'.list)
                   => TicketsKept
<1>1. TicketLedgerInit => KeptInv
  BY KeptBegins
<1>2. KeptInv /\ [TicketLedgerSteps]_ticketLedgerVars => KeptInv' /\ Kept
  <2> SUFFICES ASSUME KeptInv, [TicketLedgerSteps]_ticketLedgerVars PROVE KeptInv' /\ Kept
    OBVIOUS
  <2>1. ASSUME NEW w \in Holders, NEW n \in Weights, Buyback(w, n) PROVE KeptInv' /\ Kept
    BY <2>1, BuybackKeeps DEF Buyback
  <2>2. ASSUME NEW old \in Holders, NEW new \in Holders, Migrate(old, new) PROVE KeptInv' /\ Kept
    BY <2>2, MigrateKeeps DEF Migrate
  <2>3. ASSUME NEW list \in {cachedList, migrations}, RefreshLedger(list) PROVE KeptInv' /\ Kept
    <3>1. KeptInv'
      BY <2>3, RefreshKeeps
    <3>2. ledgerFile'.list = list
      BY <2>3 DEF RefreshLedger
    <3> QED
      BY <2>3, <3>1, <3>2, RefreshTickets DEF Plain
  <2>4. ASSUME NEW list \in {cachedList, migrations}, ApplyCarryover(list) PROVE KeptInv' /\ Kept
    <3>1. KeptInv'
      BY <2>4, ApplyKeeps
    <3>2. completed' = completed
      BY <2>4 DEF ApplyCarryover
    <3>3. ledgerFile'.by # "script" => ledgerFile'.by = "refresh"
      <4>1. ledgerFile # NoLedger /\ AsWritten
        BY <2>4 DEF ApplyCarryover, KeptInv
      <4>2. ledgerFile.by \in {"refresh", "script"}
        BY <4>1 DEF AsWritten
      <4>3. ledgerFile'.by = ledgerFile.by \/ ledgerFile'.by = "script"
        BY <2>4 DEF ApplyCarryover
      <4> QED
        BY <4>2, <4>3
    <3>4. ledgerFile'.by = "refresh" => ledgerFile' = ledgerFile
      BY <2>4, SameListSameFile
    <3> QED
      BY <3>1, <3>2, <3>3, <3>4
  <2>5. ASSUME NEW w \in Holders, CompleteTask(w) PROVE KeptInv' /\ Kept
    <3>1. completed' = completed \cup {w} /\ UNCHANGED <<buybacks, migrations, cachedList, ledgerFile>>
      BY <2>5 DEF CompleteTask
    <3>2. KeptInv'
      BY <3>1, CompleteKeeps DEF KeptInv
    <3>3. ASSUME NEW e \in ledgerFile.entries PROVE \E n \in ledgerFile'.entries : NoLess(e, n)
      <4>1. e \in Entry
        BY DEF KeptInv, TicketLedgerInv, LedgerTypes
      <4>2. NoLess(e, e)
        BY <4>1 DEF NoLess, Entry
      <4> QED
        BY <3>1, <4>2
    <3>4. ledgerFile'.by # "script" /\ Plain(ledgerFile'.list) => TicketsKept
      BY <3>1, <3>2, <3>3, KeptTickets
    <3> QED
      BY <3>2, <3>4
  <2>6. CASE UNCHANGED ticketLedgerVars
    <3>1. completed' \subseteq Holders
      BY <2>6 DEF ticketLedgerVars, KeptInv
    <3> QED
      BY <2>6, <3>1, CompleteKeeps DEF ticketLedgerVars
  <2> QED
    BY <2>1, <2>2, <2>3, <2>4, <2>5, <2>6 DEF TicketLedgerSteps
<1>3. TicketLedgerSpec => [][Kept]_ticketLedgerVars
  <2> HIDE DEF Kept
  <2> QED
    BY <1>1, <1>2, PTL DEF TicketLedgerSpec
<1>4. Kept => (/\ ledgerFile' # ledgerFile \/ completed' # completed
               /\ ledgerFile'.by # "script" /\ Plain(ledgerFile'.list)
               => \A before \in UsableNow, after \in UsableNow' :
                    before.of = after.of =>
                      after.practice >= before.practice /\ after.shared >= before.shared)
  BY DEF TicketsKept
<1> QED
  BY <1>3, <1>4, PTL DEF TicketsAreNotLost

=============================================================================
