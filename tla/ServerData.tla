----------------------------- MODULE ServerData -----------------------------
(***************************************************************************)
(* The data of the server and the jobs that keep it: the refresh of the    *)
(* ticket ledger, the sync of the results, the backup to a repository and  *)
(* the restore at start-up, each a child process, each at most once at a   *)
(* time.  Votes are accepted all the while, from the moment the server     *)
(* listens.                                                                *)
(***************************************************************************)
EXTENDS Naturals, FiniteSets

CONSTANTS
  Votes,         \* votes that may be submitted
  MaxVersion,    \* bound: versions of the ledger and of the results
  MaxLosses,     \* bound: times the volume is lost
  MaxFailures,   \* bound: backups that fail
  SnapshotKeep   \* ledger snapshots kept

ASSUME ServerDataAssumption ==
  MaxVersion \in Nat \ {0} /\ MaxLosses \in Nat /\ MaxFailures \in Nat /\ SnapshotKeep \in Nat \ {0}

VARIABLES
  mode,       \* SOCCER_VOTE_STORE
  up,         \* the server runs
  disk,       \* the files of the data directory
  repo,       \* the head of the backup repository
  jobs,       \* how far each job is, "idle" when its flag is down
  worktree,   \* the checkout of the running backup or restore
  snapshots,  \* the ledger snapshots on disk
  accepted,   \* the votes accepted since the volume was lost
  losses, failures   \* how often the volume was lost, backups failed

dataVars == <<mode, up, disk, repo, jobs, worktree, snapshots, accepted, losses, failures>>

Files == {"votes", "ledger", "results"}
MissingFile == [there |-> FALSE, votes |-> {}, version |-> 0]
VoteFile(votes) == [there |-> TRUE, votes |-> votes, version |-> 0]
Versioned(n) == [there |-> TRUE, votes |-> {}, version |-> n]
Nothing == [f \in Files |-> MissingFile]

DataInit ==
  /\ mode \in {"sqlite", "json"}
  /\ up = FALSE
  /\ disk = Nothing
  /\ repo = Nothing
  /\ jobs = [j \in {"restore", "refresh", "sync", "backup"} |-> "idle"]
  /\ worktree = [j \in {"restore", "backup"} |-> Nothing]
  /\ snapshots = {}
  /\ accepted = {}
  /\ losses = 0 /\ failures = 0

Go(j, pc) == jobs' = [jobs EXCEPT ![j] = pc]

-----------------------------------------------------------------------------
(* The server starts: the SQLite store makes its file, then the restore    *)
(* runs, and only when it has ended the other jobs may.                    *)

Boot ==
  /\ ~ up /\ up' = TRUE
  /\ disk' = IF mode = "sqlite" /\ ~ disk["votes"].there
             THEN [disk EXCEPT !["votes"] = VoteFile({})] ELSE disk
  /\ jobs' = [j \in DOMAIN jobs |-> IF j = "restore" THEN "fetching" ELSE "idle"]
  /\ UNCHANGED <<mode, repo, worktree, snapshots, accepted, losses, failures>>

RestoreFetches ==
  /\ jobs["restore"] = "fetching" /\ Go("restore", "votes")
  /\ worktree' = [worktree EXCEPT !["restore"] = repo]
  /\ UNCHANGED <<mode, up, disk, repo, snapshots, accepted, losses, failures>>

(* Mutant of Restored: a file on disk is replaced, as with --force. *)
RestoredAnyhow(f) == IF worktree["restore"][f].there THEN worktree["restore"][f] ELSE disk[f]

Restored(f) ==
  IF worktree["restore"][f].there /\ ~ disk[f].there THEN worktree["restore"][f] ELSE disk[f]

(* copyMissingDirectory, one file after the other. *)
RestoreCopies(f, next) ==
  /\ jobs["restore"] = f /\ Go("restore", next)
  /\ disk' = [disk EXCEPT ![f] = Restored(f)]
  /\ UNCHANGED <<mode, up, repo, worktree, snapshots, accepted, losses, failures>>

(* The jobs start whether the restore succeeds or not. *)
RestoreFails ==
  /\ jobs["restore"] \notin {"idle", "done"} /\ Go("restore", "idle")
  /\ UNCHANGED <<mode, up, disk, repo, worktree, snapshots, accepted, losses, failures>>

JobsStarted == up /\ jobs["restore"] \in {"idle", "done"}

-----------------------------------------------------------------------------

SubmitVote(v) ==
  /\ up /\ v \notin accepted
  /\ accepted' = accepted \cup {v}
  /\ disk' = [disk EXCEPT !["votes"] = VoteFile(@.votes \cup {v})]
  /\ UNCHANGED <<mode, up, repo, jobs, worktree, snapshots, losses, failures>>

(* At start-up and at every interval, unless one is running. *)
RunLedgerRefresh ==
  /\ JobsStarted /\ jobs["refresh"] = "idle" /\ Go("refresh", "running")
  /\ UNCHANGED <<mode, up, disk, repo, worktree, snapshots, accepted, losses, failures>>

RunFifaResultSync ==
  /\ JobsStarted /\ jobs["sync"] = "idle" /\ Go("sync", "running")
  /\ UNCHANGED <<mode, up, disk, repo, worktree, snapshots, accepted, losses, failures>>

RunDataBackup ==
  /\ JobsStarted /\ jobs["backup"] = "idle" /\ Go("backup", "votes")
  /\ UNCHANGED <<mode, up, disk, repo, worktree, snapshots, accepted, losses, failures>>

(* A job that succeeds asks for a backup, which is not made when one is    *)
(* running.                                                                *)
Succeeds(j) ==
  jobs' = [jobs EXCEPT ![j] = "idle", !["backup"] = IF @ = "idle" THEN "votes" ELSE @]

Rewritten(f) ==
  disk' = [disk EXCEPT ![f] = Versioned(IF @.version < MaxVersion THEN @.version + 1 ELSE @.version)]

(* snapshotLedger and pruneLedgerSnapshots *)
Kept(all) == {n \in all : Cardinality({m \in all : m > n}) < SnapshotKeep}

RefreshEnds ==
  /\ jobs["refresh"] = "running" /\ Succeeds("refresh")
  /\ Rewritten("ledger")
  /\ snapshots' = Kept(snapshots \cup {disk'["ledger"].version})
  /\ UNCHANGED <<mode, up, repo, worktree, accepted, losses, failures>>

SyncEnds ==
  /\ jobs["sync"] = "running" /\ Succeeds("sync")
  /\ Rewritten("results")
  /\ UNCHANGED <<mode, up, repo, worktree, snapshots, accepted, losses, failures>>

JobFails(j) ==
  /\ jobs[j] = "running" /\ Go(j, "idle")
  /\ UNCHANGED <<mode, up, disk, repo, worktree, snapshots, accepted, losses, failures>>

(* The backup: the checkout is emptied, every file is copied as it is by   *)
(* then, and the whole is pushed.                                          *)
BackupCopies(f, next) ==
  /\ jobs["backup"] = f /\ Go("backup", next)
  /\ worktree' = [worktree EXCEPT !["backup"][f] = disk[f]]
  /\ UNCHANGED <<mode, up, disk, repo, snapshots, accepted, losses, failures>>

BackupPushes ==
  /\ jobs["backup"] = "push" /\ Go("backup", "idle")
  /\ repo' = worktree["backup"]
  /\ worktree' = [worktree EXCEPT !["backup"] = Nothing]
  /\ UNCHANGED <<mode, up, disk, snapshots, accepted, losses, failures>>

(* Mutant of BackupFails: its flag stays up. *)
BackupFailsForGood ==
  /\ failures < MaxFailures /\ failures' = failures + 1
  /\ jobs["backup"] \notin {"idle", "failed"} /\ Go("backup", "failed")
  /\ worktree' = [worktree EXCEPT !["backup"] = Nothing]
  /\ UNCHANGED <<mode, up, disk, repo, snapshots, accepted, losses>>

BackupFails ==
  /\ failures < MaxFailures /\ failures' = failures + 1
  /\ jobs["backup"] # "idle" /\ Go("backup", "idle")
  /\ worktree' = [worktree EXCEPT !["backup"] = Nothing]
  /\ UNCHANGED <<mode, up, disk, repo, snapshots, accepted, losses>>

-----------------------------------------------------------------------------
(* Crashes: the server and its jobs stop; the next deployment may find the *)
(* volume empty.                                                           *)

Stop ==
  /\ up /\ up' = FALSE
  /\ jobs' = [j \in DOMAIN jobs |-> "idle"]
  /\ worktree' = [j \in DOMAIN worktree |-> Nothing]
  /\ UNCHANGED <<mode, disk, repo, snapshots, accepted, losses, failures>>

LoseVolume ==
  /\ ~ up /\ losses < MaxLosses /\ losses' = losses + 1
  /\ disk' = Nothing
  /\ snapshots' = {}
  /\ accepted' = {}
  /\ UNCHANGED <<mode, up, repo, jobs, worktree, failures>>

RestoreSteps ==
  \/ RestoreFetches
  \/ RestoreCopies("votes", "ledger") \/ RestoreCopies("ledger", "results")
  \/ RestoreCopies("results", "done")

BackupSteps ==
  \/ BackupCopies("votes", "ledger") \/ BackupCopies("ledger", "results")
  \/ BackupCopies("results", "push")
  \/ BackupPushes

DataSteps ==
  \/ Boot \/ Stop \/ LoseVolume
  \/ RestoreSteps \/ RestoreFails
  \/ \E v \in Votes : SubmitVote(v)
  \/ RunLedgerRefresh \/ RunFifaResultSync \/ RefreshEnds \/ SyncEnds
  \/ \E j \in {"refresh", "sync"} : JobFails(j)
  \/ RunDataBackup \/ BackupSteps \/ BackupFails

(* Timers fire and processes get on. *)
DataFairness ==
  /\ WF_dataVars(RestoreSteps) /\ WF_dataVars(RunDataBackup)
  /\ WF_dataVars(BackupSteps)

DataSpec == DataInit /\ [][DataSteps]_dataVars /\ DataFairness

-----------------------------------------------------------------------------

(* A vote accepted since the volume was lost stays on file, although the   *)
(* restore works on the same files while votes come in.  (With the JSON    *)
(* store a first vote may be accepted between the restore's look at the    *)
(* file and its copy.)                                                     *)
RestoreKeepsVotes ==
  mode = "sqlite" => accepted \subseteq disk["votes"].votes

(* While the server stays up, everything on disk is in the repository in   *)
(* the end, although a backup asked for while one runs is not made.        *)
DataGetsBackedUp == <>[]up => <>[](repo = disk)

(* What README.md says of the restore: the files missing on disk come back *)
(* from the repository, its votes among them.                              *)
RestoredVotesCount ==
  jobs["restore"] = "done" =>
    worktree["restore"]["votes"].votes \subseteq disk["votes"].votes

=============================================================================
