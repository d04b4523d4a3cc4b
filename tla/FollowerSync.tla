---------------------------- MODULE FollowerSync ----------------------------
(***************************************************************************)
(* syncFollowers.js: a cache of who follows the campaign's X account.  X   *)
(* serves the followers in pages, newest first.  A full run reads all      *)
(* pages and takes whom it did not see as gone; a delta run stops at the   *)
(* first page without news or after MaxPages.  A run loads the cache when  *)
(* it begins and saves it when it ends; a failure saves nothing.  The      *)
(* watch and an operator may have runs under way at once.                  *)
(***************************************************************************)
EXTENDS Integers, FiniteSetsExt

CONSTANTS
  Users,
  Runners,      \* who starts runs
  PageSize,
  MaxPages,     \* of a delta run
  MaxChanges    \* bound: follows and unfollows

ASSUME FollowerSyncAssumption ==
  /\ IsFiniteSet(Users)
  /\ PageSize \in Nat \ {0} /\ MaxPages \in Nat \ {0}
  /\ MaxChanges \in Nat

VARIABLES
  since,     \* X: when each user followed, 0 for who does not follow
  changes,   \* X: the follows and unfollows so far
  cached,    \* the followers the cache file calls current
  run,       \* of each runner
  left,      \* who has left since the last full run began
  doubts     \* why the cache may lack somebody: a delta run was "cut", runs "overlap"

followerVars == <<since, changes, cached, run, left, doubts>>

NoRun ==
  [pc |-> "idle", mode |-> "delta", cache |-> {}, seen |-> {}, token |-> 0, pages |-> 0,
   cut |-> FALSE, stale |-> FALSE, left |-> {}, moved |-> {}]

FollowerInit ==
  /\ since = [u \in Users |-> 0]
  /\ changes = 0
  /\ cached = {}
  /\ run = [r \in Runners |-> NoRun]
  /\ left = {}
  /\ doubts = {}

Followers == {u \in Users : since[u] > 0}

(* A user has moved during the runs under way. *)
Moved(u, leaves) ==
  run' = [r \in Runners |->
            IF run[r].pc = "idle" THEN run[r]
            ELSE [run[r] EXCEPT !.moved = @ \cup {u},
                                !.left = IF leaves /\ run[r].mode = "full" THEN @ \cup {u} ELSE @]]

Follow(u) ==
  /\ u \notin Followers /\ changes < MaxChanges
  /\ changes' = changes + 1
  /\ since' = [since EXCEPT ![u] = changes']
  /\ Moved(u, FALSE)
  /\ UNCHANGED <<cached, left, doubts>>

Unfollow(u) ==
  /\ u \in Followers /\ changes < MaxChanges
  /\ changes' = changes + 1
  /\ since' = [since EXCEPT ![u] = 0]
  /\ left' = left \cup {u}
  /\ Moved(u, TRUE)
  /\ UNCHANGED <<cached, doubts>>

-----------------------------------------------------------------------------

Start(r, mode) ==
  /\ run[r].pc = "idle"
  /\ run' = [run EXCEPT ![r] = [NoRun EXCEPT !.pc = "paging", !.mode = mode, !.cache = cached,
                                             !.token = MaxChanges + 1]]
  /\ UNCHANGED <<since, changes, cached, left, doubts>>

(* A page holds the newest followers before its token, which is that of    *)
(* the last follower of the page before.                                   *)
Before(token) == {u \in Followers : since[u] < token}
FollowersPage(token) ==
  {u \in Before(token) : Cardinality({v \in Before(token) : since[v] > since[u]}) < PageSize}

GetFollowersPage(r) ==
  LET old    == run[r]
      page   == FollowersPage(old.token)
      known  == old.mode = "delta" /\ page \subseteq old.cache
      end    == page = Before(old.token)
      cut    == old.mode = "delta" /\ old.pages + 1 = MaxPages /\ ~known /\ ~end
  IN  /\ old.pc = "paging"
      /\ run' = [run EXCEPT ![r] =
                   [old EXCEPT !.cache = @ \cup page, !.seen = @ \cup page,
                               !.pages = @ + 1, !.cut = cut,
                               !.token = IF end THEN @ ELSE Min({since[u] : u \in page}),
                               !.pc = IF known \/ end \/ cut THEN "saving" ELSE @]]
      /\ UNCHANGED <<since, changes, cached, left, doubts>>

(* Mutant of Missing: whom a full run did not see stays. *)
NobodyMissing(old) == {}

(* markMissingFollowersInactive *)
Missing(old) == IF old.mode = "full" THEN old.cache \ old.seen ELSE {}

(* The run of r has ended; those under way have loaded a cache that is no  *)
(* longer the one on file if it saved.                                     *)
Ended(r, saved) ==
  run' = [q \in Runners |->
            IF q = r THEN NoRun
            ELSE [run[q] EXCEPT !.stale = @ \/ (saved /\ run[q].pc # "idle")]]

SaveFollowerCache(r) ==
  LET old == run[r] IN
  /\ old.pc = "saving"
  /\ cached' = old.cache \ Missing(old)
  /\ IF old.mode = "full"
     THEN left' = old.left /\ doubts' = {}
     ELSE /\ left' = left
          /\ doubts' = doubts \cup (IF old.cut THEN {"cut"} ELSE {})
                              \cup (IF old.stale THEN {"overlap"} ELSE {})
  /\ Ended(r, TRUE)
  /\ UNCHANGED <<since, changes>>

(* Mutant of RunFails: what was read so far is saved. *)
RunFailsSaving(r) ==
  /\ run[r].pc # "idle"
  /\ cached' = run[r].cache
  /\ Ended(r, TRUE)
  /\ UNCHANGED <<since, changes, left, doubts>>

RunFails(r) ==
  /\ run[r].pc # "idle"
  /\ Ended(r, FALSE)
  /\ UNCHANGED <<since, changes, cached, left, doubts>>

FollowerSteps ==
  \/ \E u \in Users : Follow(u) \/ Unfollow(u)
  \/ \E r \in Runners :
       \/ \E mode \in {"full", "delta"} : Start(r, mode)
       \/ GetFollowersPage(r) \/ SaveFollowerCache(r) \/ RunFails(r)

FollowerSpec == FollowerInit /\ [][FollowerSteps]_followerVars

-----------------------------------------------------------------------------
(* Who is called a follower by the cache follows, or has left since the    *)
(* last full run began: however many delta runs came after it and whatever *)
(* changed while it read its pages ("Run a full sync before important      *)
(* reward decisions", README.md).  Runs that overlapped are excepted: a    *)
(* delta run may put back whom a full run took out.                        *)
CachedFollowersFollow ==
  "overlap" \notin doubts => cached \subseteq Followers \cup left

(* A run that ends has found every follower who followed before it began   *)
(* and all through it, also when a delta run stopped at the first page it  *)
(* knew: provided that nobody has left since the last full run began, no   *)
(* delta run was cut and none overlapped another.                          *)
NobodyIsLeftOut ==
  [][\A r \in Runners :
       run[r].pc = "saving" /\ run'[r].pc = "idle"
       /\ cached' = run[r].cache \ Missing(run[r]) /\ doubts' = {} /\ left' = {}
       => Followers \ run[r].moved \subseteq cached']_followerVars
=============================================================================
