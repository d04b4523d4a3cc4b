# Renaiss World Cup: verification of the votes and the lucky draw

This directory is the verification project kept beside the Renaiss World Cup
application: TLA+ models of its parts, TLC runs that check them on small
instances, and theorems whose proofs TLAPS checks. Paths such as
`scripts/production-server.mjs` are relative to the repository's root.

## 1. The system

Users hold *tickets*, earned by buying packs back on BNB Smart Chain and by
rewards. In each knockout round they place tickets on teams. When a match of the
round has its official result, the tickets on the winner form the draw pool of
that match. A smart contract fixes the pools (by hash), asks a VRF coordinator
for one random word per round and derives the winning tickets from it. A script
drives the contract and writes the winners file the front end shows.

    chain events --> ticket ledger --+--> vote API --> vote store --+
                                     |       ^                      v
    FIFA calendar --> calendar cache +-------+            match draw ledger (file)
    FIFA results  --> match-results.json ----+---------------^      |
                                                                    v
      winners file <-- draw runner <--> RenaissLuckyDraw <--> VRF coordinator
            |               ^
            v               |  started by the draw-admin API, one at a time
       winners API      production server (also: backup, restore, refresh jobs)

| Part | State it keeps | Operations | What is hard | What makes it correct |
|---|---|---|---|---|
| Contract, access (`RenaissLuckyDraw.sol`) | owner, nominee, operator, admins, settings | hand-over in two steps, role and settings changes | orders of hand-overs | only a nominee of the present owner can take over |
| Contract, rounds | per round: state, ledger, matches, request, word, winners | finalize, reset, request, answer, reveal | re-finalizing, resets, late and repeated answers, partial reveals | a sealed ledger and one word determine the winners; nothing published changes |
| Contract, per-draw path | per draw: the same, with lazily computed tickets | finalize, reset, request, answer, five reveal functions | the order of reveals | the tickets equal those computed in order |
| VRF coordinator (external) | numbering, answered requests | request, callback | any order, repetition, delay | (assumed to answer in the end) |
| Draw runner (`run-lucky-draw-round-level.mjs`) | its ledger, last status, list of unrevealed matches; winners file | status, finalize, request, wait, reveal, write | several runs, kills, pending transactions | the winners file tells the draw that took place, completely |
| Vote API and store (`production-server.mjs`, `soccer-vote-store-sqlite.mjs`) | allocations, event log, calendar cache, requests in progress | submit, calendar fetch, restart | an await between reading and submitting, overlapping fetches | nobody places more than he has, log and balances agree, votes go to the right match |
| Ticket rules (`ticketEligibility.js`) | none | usable tickets per round, shared pool | two limits at once | the same on both sides of a vote |
| Match results (`sync-fifa-results.mjs`, `soccer-match-results.mjs`) | result per match | sync | matches asked one by one while FIFA corrects them | a winner on file is official, and no file goes back behind its predecessor |
| Match draw ledger (`build-match-draw-ledger.mjs`) | pools of every round, locked rounds | build, merge, replace | crash between two files, a round rebuilt later | every winning ticket belongs to exactly one vote |
| Draw-admin API (`production-server.mjs`) | challenges, running flag, runs | challenge, build ledger, run round | time-outs against a process whose transactions are pending | one run at a time, one use per signature |
| Draw room (`DrawRoom.jsx`) | the press under way, redraw settings | press, select, give up, switch to a redraw | it decides from the text of a failure | it leaves a draw only when that is stuck |
| Winners board (`production-server.mjs`) | winners file, history files, rebuilding processes | serve the current and earlier rounds, rebuild | a rebuild beside a run that writes the same file | only real draws are listed |
| Server jobs, backup, restore | flags, the data files, the repository | refresh, sync, backup, restore at start-up | jobs overlapping, restore beside votes, lost volumes | no accepted vote is lost, all is backed up in the end |
| On-chain source (`lucky-draw/onchain-source.mjs`) | event cache per source, checkpoints | scan, look back, match | late event logs, kills between two sources | what was shown is counted |
| Ledger refresh and API (`fetch-lucky-draw-ledger.mjs`, `soccer-ledger-api.mjs`) | the ledger file, the cached migration list | refresh, apply carryover, find an entry | wallets joined while files of two ages are in use | each ticket has one owner, nobody loses any |
| Login (`auth/auth-state.mjs`, `session-store.mjs`, `routes.mjs`) | challenges, sessions, tokens, profiles | start, callback, log out, expire | repeated callbacks, a slow provider | one answer per challenge |
| X gate and Firefly eligibility (`auth/x-*.mjs`) | verification records | verify follow, verify eligibility | answers out of order | one Firefly UID per voter |
| Web page (`App.jsx`) | what it shows and asks for | session, entry, votes, pool, board, poll | given-up requests whose answers still come | it shows the present wallet and board in the end |
| X follower sync (`src/syncFollowers.js`) | follower cache | full run, delta run | overlapping, cut and failing runs | who is listed follows, nobody is left out |
| Match runner (`run-lucky-draw-round.mjs`) | its ledger row, two answers of the contract; winners file | status, finalize, request, wait, reveal in its order, write | reveals of others between its calls, kills | the winners file tells the draw |
| Vote store's files (`soccer-vote-store-sqlite.mjs`, `soccer-vote-store.mjs`) | placed tickets, event log with its chain of hashes | open and bring up to date, submit | crash between two writes, two processes | what is placed is what the log says |
| Deploy, roles, seed and demo scripts, rate limiter | | | | see section 7 |

Interactions that matter: the store and the ledger build use the same ticket
rules but count different allocations (the store leaves out those whose team the
calendar does not show); the runner and the server share the ledger file and the
winners file; runs killed by the server leave transactions behind; both contract
paths share the numbering of the coordinator's requests.

## 2. Modules

| Module | Models | Extends / instantiates |
|---|---|---|
| `FairDraw` | abstract: what a draw promises | |
| `DrawAccess` | roles and settings of the contract | |
| `VrfCoordinator` | the oracle, as the contract's tests and base class use it | |
| `TicketPick` | how a word becomes tickets and slots | |
| `RoundDraw` | round path | `DrawAccess`, `VrfCoordinator`, `TicketPick` |
| `SlotDraw` | per-draw path | `RoundDraw` |
| `LuckyDraw` | the contract as a whole, its properties, the refinements | `SlotDraw`, instances of `FairDraw` |
| `MatchRunner` | the script of the per-draw path, its ledger row, pending calls, winners file | `LuckyDraw` |
| `DrawRunner` | runners, mempool, chain, ledger file and winners file | an instance of `FairDraw` |
| `TicketRules` | `ticketEligibility.js` | |
| `VotesApi` | the vote handler, the store's transaction, the calendar and its cache, results, ledger growth | `TicketRules` |
| `MatchResults` | FIFA's pages, the sync, the results file | |
| `VoteStore` | tables or files of the votes, who opens them, crashes between their writes | |
| `DrawLedger` | the build of the draw ledger: its two files, who starts it, votes, results and corrections around it | `TicketRules` |
| `DrawAdmin` | challenges, the single-flight flag, the processes of the runs | |
| `DrawRoom` | the operators' pages | `DrawAdmin` |
| `WinnersBoard` | winners and history files, rebuilding, readers | `DrawAdmin` |
| `DrawDay` | the three together, with restarts | `DrawRoom`, `WinnersBoard` |
| `Accounts` | logins, sessions, X connections, profiles | |
| `VoteGate` | the X follow gate and the eligibility check | `Accounts` |
| `Page` | the vote view and the winners view of the page | |
| `ServerData` | start-up, restore, jobs, backup, lost volumes | |
| `TicketScan` | the scan of the event logs | |
| `TicketLedger` | from buybacks to the tickets found for an address | `TicketRules` |
| `FollowerSync` | the cache of the X account's followers | |
| `SumProofs` | lemmas about finite sets, numbers and sums | |
| `LuckyDrawProofs` | theorems about rounds, access, requests and the tickets of the round-level path | `LuckyDraw`, `SumProofs` |
| `SlotProofs` | theorems about the per-draw path and its script | `LuckyDrawProofs`, `MatchRunner` |
| `DrawRunnerProofs`, `DrawDayProofs` | theorems about the module they are named after | that module |
| `LedgerProofs` | theorems about the two ledgers: of a draw and of the tickets | `DrawLedger`, `TicketLedger`, `SumProofs` |
| `VotesProofs` | theorems about the vote API | `VotesApi`, `SumProofs` |
| `SiteProofs` | theorems about the vote gate, the follower sync, the result sync, the data files, the vote store and the scan of the event logs | `VoteGate`, `FollowerSync`, `MatchResults`, `ServerData`, `VoteStore`, `TicketScan`, `SumProofs` |
| `MCLuckyDraw`, `MCDraws`, `MCDrawRunner`, `MCVotesApi`, `MCVoters`, `MCDrawLedger`, `MCDrawDay`, `MCSite` | constants and views for TLC | the modules they check |

An operator that begins a comment with "Mutant of X" is a plausible mistake in
X, used to see that a property notices it; no action uses it.

### The contract

A call that reverts changes nothing, so the guards of an action are the
`require`s and custom errors of the function and its modifiers, all of them.
`rounds`, `draws` and the request tables are the storage variables `s_rounds`,
`s_draws`, `s_roundIdByRequestId` and `s_drawIdByRequestId`; mappings inside a
round (its matches) are functions whose domain is the set of keys written. What
is left out: URIs, event emission, gas, and the code that only reads.
`keccak256` over packed arguments is the constant `Keccak`; nothing is assumed
of it but its type. `FairDraw` says what users are told: a ledger is sealed
before the word exists, the outcome of each item is a function of word, draw,
item and ledger, publishing in any order and any batches gives the same
outcomes, and a sealed draw cannot be abandoned. It also says what the contract
does *not* promise: once the word is known, an admin may discard the whole draw
and hold another.

### The draw runner

`run[p]` is one execution of the script: `pc` names the statement group of
`main` it is about to perform, `ledger` what it read from the file at the start,
`status` the state it last read from the contract, `todo` the matches it found
unrevealed. All runners use one wallet, so the mempool is a queue (nonces) and a
transaction of a killed runner still lands. `ScanMatch` is one `eth_call` per
match, other runners' transactions may land in between. The ledger file is
written only while no runner is up (the API's flag and the operator's procedure)
and its contents are numbered and grow: a file that returns to an earlier
content is not covered (see the hazard list).

### The match runner

`MatchRunner` runs on the contract of `LuckyDraw` itself. A run reads the ledger row of
its match once and then the contract: the status when it starts and after finalizing, a
poll for the word, and in the loop first how many slots are revealed (`SeeCount`), then
which (`SeeSlots`); what an admin or a killed run's call reveals in between shows in one
and not in the other. A call is estimated before it is sent (`SendCall` ends the run when
the call would revert now) and mined in the order of the wallet's nonces. `Consistent` is
what the script demands before it writes. A build may rewrite the row at any time, since
no lock keeps the builder and the script apart; the history variable `quiet` says that
none has come while a run was up or a call was waiting. Admins do not reset the draw.

### The vote API

A request has three moments: the body is there and ledger and results are read
(`ReceiveWithCache`, `ReceiveAndFetch`); the calendar answers (`CalendarAnswers`
takes the state of FIFA at that moment, `FetchLands` is when the response is
processed, so answers may land in another order than they were made);
`Submit` or `Refuse`, one synchronous transaction. The 45-second freshness of
the cache is nondeterminism: a request may use any cached answer. The server's
three calendars are one variable. A match is *unknown* (teams not confirmed),
*open*, *closed* (cutoff passed) or *final* (official result). The app's matches
carry FIFA's numbers in kickoff order; for round16 and later the rows of the
calendar are put on the matches by position (`RowsFor`), as in
`buildRealtimeRound32Preview`. A team is named by the match it plays and its
side. For round32, whose rows go by code, the answer is assumed complete: the
fallbacks for a missing row there (an unused row, or a votable unrevealed slot)
are not modelled. The gates in front of the handler (session, X, eligibility)
and the JSON files written after the commit are left out; wallets and ledger
entries correspond one to one; the ledger only grows. Two history variables say of which
wallets the calendar told something wrong when a vote of theirs was accepted: `shifted`,
where the rows of a round had a gap (`RowsInPlace`), `forgotten`, where a team they had
tickets on was not in it (`HasTeams`).

### The draw ledger

A build for one draw (`--round-id`) is *looking* until it knows whether there is
a locked file of the draw or a row in the aggregate
(`readExistingRoundPreservation`), then *building*, then *locking* and *writing*,
in the order the script writes its files; `BuildFails` is a build that throws. A
build for all rounds (no `--round-id`) starts with *building* and replaces the
aggregate. The server starts builds for rounds whose results are complete, a
shell starts them for any draw and with `--replace-existing-round`; `Kill` is the
server's time-out or a container that stops. A locked file and a row of the
aggregate are the pools of the draw's matches, the data that the row's hash
covers; tickets are counted one by one, with the round multipliers of the code,
all 1. `SyncResults` writes the whole results file and may miss matches whose
request failed. `Overlap` says whether two builds may run at once: the server
admits one of its own, nothing stops an operator's shell. Left out: `--match-id`,
`--dry-run`, `--prize-slots`, files damaged by hand, and the builder of the
sandbox.

### The draw day

`runs[i]` is the i-th process the API has started and `running` the server's flag,
which is down again as soon as a run ends, fails or is sent SIGTERM; `challenges` are
the messages to sign. `StartRun` and `RefuseRun` are what a handler does after its
body has arrived, in the order of the code: the readiness check, the challenge (used
up), the flag. The chain side is the one of `DrawRunner`, reduced to asked, answered
and revealed. `page[p].press` is one press of the operator's button: it holds the
action and the draw that were current when it began, while the round and the redraw
the page shows may change under it, as they do in the component's closures.
`FailAndRedraw` is `shouldAutoRedrawAfterFailure` with `enableNextRedrawVersion`:
`ReadsStuck` says which failures contain the words it looks for. `reader[b]` is a
request for the board; requests for the same missing round share one process. A
killed run writes nothing more; that a SIGTERM may arrive a moment late is not
modelled, and neither is a winners file written by a shell. Before the board is given,
the proofs of its draws are asked of a chain node, draw by draw, without a time limit
(`enrichDrawWinnersChainProof`): while `nodeUp` is false, `GiveBoard` needs the proofs
to be in the file or the cache already (`known`), or nothing revealed to ask about.

### Logins and the vote gate

`challenges` is `auth-state.json` with the wallet's nonces and the e-mail codes;
`call[c]` is a request between the moment it goes to the provider and the answer. A
callback is checked and its challenge removed before the provider is asked, without
an await between; the session is written after. `Connected` re-reads the session.
Tokens are written for the session a request was made for: `SaveToken` of one that
has ended has no effect. The profile database keeps, per wallet, the X account of the
newest login that named one, and its queue drops the oldest write when it is full. In
`VoteGate` the record of a wallet is replaced by whichever answer comes last, and a
Firefly UID is compared with the records as they are when the answer comes.

### The page

Each `useEffect` that loads something is a request with a flag, `live`: starting it
again clears the flag of the one before, whose answer may still arrive and is then
dropped. `Start` is what a change of the wallet sets off; the timers of `RetryData`
belong to a failed request. The winners view has a copy of the board per network and a
poll; the poll and the request give each other up through the same effects as in the
component. Choosing a match or a round, the calendar's requests and all drawing are
left out.

### Results and the vote store

`MatchResults`: `told[m]` is all FIFA has said of a match, and each row of the file keeps
which of these words it was made of. A sync asks for the calendar first, if the map needs
it, then for one match after the other. `VoteStore`: an event's hash is the sequence of
payloads it covers; opening the database is split where the code commits. Rows that
`backfillVoteEventHashes` finds wrong are written as it read them, before its transaction:
builds are therefore started only by a server that is up (`ShellBuilds = FALSE`). With a
build from a shell beside the first start on an old database the property does not hold:
the build may put old match ids back into the payloads. Old ids are those of round16, the
only ones that are moved.

### Data, scan, ledger, followers

`ServerData`: `disk` and `repo` are the data directory and the head of the
repository, `worktree` the checkout a child process works on, one file at a time;
`Boot` makes the SQLite file before the restore starts, as the server does.
`TicketScan`: events have a block, and the explorer shows them late; a refresh reads
one source after the other, from the checkpoints it looks back to, and its cache file
survives when it is killed. `ExplorerIsPunctual` is the assumption under which the
look-back is enough, and shows how little it allows: an event may be missing from fewer
scans than the look-back less the two sources, and never before the first complete
refresh. `TicketLedger`: `Resolved` is what the list and the resolver say of a buyer,
`Interval` the ticket numbers of a buyback, `Served` and `FoundIn` what the API makes of
the file. `FollowerSync`: X serves followers newest first in pages; a full run takes out
whom it did not see, a delta run stops at a page it knows.

## 3. Runs

Several runs put views of one or more modules side by side: the variable `view` is
chosen in the initial state and the parts that are not looked at stand still.

| Run | Bounds | What it shows |
|---|---|---|
| `draws` (MCDraws) | view *rounds*: 2 rounds, 3 requests, 2 words (0 among them), ledgers of up to two matches, refused inputs included; *calls*: 1 draw, 24 words, 2..4 tickets, 2 or 3 slots; *script*: 2 runs, 2 killed, builds at any time of 2 ledgers of equal figures (3 tickets, 2 slots), batches of 1, 1 word | bookkeeping, lifecycle, distinct tickets, and that rounds and draws implement `FairDraw`; lazy computation gives the tickets of the eager one, whatever is revealed in whichever order; the scans favour no ticket and no slot; the winners file of the script tells the draw, and names its ledger unless a build came between |
| `contract` (MCContract) | 2 accounts, 1 round, 1 draw, 3 requests; the only run with role and settings changes | requests of the two paths never meet; a word answers the current request; nominations do not outlive the owner who made them; no round or draw waits for ever |
| `runners` (MCRunners) | view *together*: 2 runners in every mode, 2 kills; view *alone*: 1 runner, 4 kills; 2 ledgers, 3 matches, batches of 2 | the winners file is right and complete, the round stays fair; alone, a complete file is never replaced by a partial one and the round gets published |
| `votes` (MCVotes) | view *pool*: 2 handlers, 2 rounds of the shared pool, one match of which closes and gets its result; *opening*: 1 request at a time, 2 matches that open, close and get results, 2 wallets; *calendar*: 2 overlapping handlers, teams of 2 matches that come up, answers that may lack a row; *followers*: 3 users, 2 runners, pages of 1, 3 changes | balances are the log; who was told nothing wrong by the calendar stays within his tickets; votes go to their match and never to one with a winner; the follower cache names followers and leaves nobody out |
| `draw_ledger` (MCDrawLedger) | a round of 2 matches and its redraw, 2 wallets, 4 allocations, 1 corrected result, 1 killed build, builds one at a time | locked pools are exactly the votes; a build that ends well leaves both files in agreement; locked files stay |
| `draw_day` (MCDrawDay) | view *operators*: 1 page, a round and its redraw, 2 challenges; *public*: 2 rounds drawn by calls of the API, 1 reader, a node that goes down and comes back | runs are signed and alone; the board lists real draws; nobody waits for ever |
| `site` (MCSite) | ten views: *logins* and *voters* (2 browsers, 2 requests, 2 wallets, 2 X accounts, 1 UID, 2 challenges), *one voter* (both browsers are one wallet's, which changes its X account, 2 UIDs), *vote view* (2 wallets, 2 answers about the session, 1 vote, 2 failures), *winners view* (2 networks, 1 write each), *data* (1 vote, 1 version, 1 lost volume, 1 failed backup), *scan* (1 checkout, 5 blocks, look-back 3), *ledger* (4 wallets, 2 buybacks of one size, 2 of 4 possible migrations, chains among them), *results* (2 matches, 5 pages, 2 changes, 2 processes), *store* (2 voters, 3 logs of an earlier version, 4 events, 1 build) | one answer per challenge; one UID per voter; tickets come up; the viewer catches up; the restore keeps votes; data gets backed up; the ledger counts what was shown; every ticket has one owner; none is lost where nobody moves twice and the resolver joins none who moves; results move forward; what is placed is what the log says |
| `announced_ledger` (MCAnnounce) | 2 runs of the match script, no kills, one word | *violation* of `AnnouncedLedgerIsDrawn` |
| `partial_calendar` (MCPartialCalendar) | 1 handler, 2 matches, one row may be missing | *violation* of `TheBuildAccepts` |
| `redraw` (MCRedraw) | a round of 1 match and its redraw, no kills | *violation* of `WinnersOwnTheirTickets` |
| `auto_redraw` (MCAutoRedraw) | as `draw_day` | *violation* of `RedrawLeavesAStuckDraw` |
| `restore` (MCRestore) | 1 vote, 1 lost volume | *violation* of `RestoredVotesCount` |

Why these bounds are enough to be interesting. The contract's guards look at one
round or draw at a time, and rounds meet only in the request tables: two rounds,
or one round and one draw, and three requests give a request made, answered,
reset and made again while another is outstanding. Two matches are the least for
a partial reveal, three slots the least for a reveal out of order with something
left. Pools as large as the number of picks are included, the case where the
reduction is by one. Two runners and two kills give the orders that a third
would repeat: one run's transaction is pending while another reads, sends and
writes. Two handlers are what it takes for two fetches to overlap; the limits of
a wallet involve at most two allocations of one round and one of another. An answer
without the second match is the least in which a row moves: the third match then appears
in its place, and a ballot for that is among those of the view. Of three handlers, and
of a ballot for the practice round next to the pool, TLC checks nothing; the theorems
speak of any number.

For the match script, two kills leave two finalize calls of different ledgers behind,
and a third would repeat one; two runs are one that is past its check and one that
is not.

For the draw ledger, one base round and one redraw are what a row found under the
wrong draw needs; two matches let a sync lose one of them between the readiness
check and the build; one kill between the writes meets every later build. The
second wallet's tickets do not cover both of its late votes, so the capacity check
refuses some builds; one match may have too few tickets, so the other check does.

Two challenges are one run under way, or just timed out, and the next one signed
beside it. The operators' view has one page: a second one is, to the first, a client of
the API, and of clients beside a page nothing is checked. Two requests are what two answers
under way need, two challenges a login and a connection, or two logins that cross. The
two views of voters begin with three challenges answered, so nobody logs in there; what
a login would add, a wallet whose X account changes between two checks, is where *one
voter* begins.
The page's two wallets make an answer come for the other one. The look-back of three
checkpoints is the least with which an event may be late at all (the code keeps more).
Four wallets are an old and a new one, one the resolver joins to another, and the
other; one entry of the previous campaign lists the joined two. Two migrations are the
least for a chain, and one of the four possible ones moves the joined wallet. Three changes let a user follow, leave and be replaced while both runners read;
with four changes the follower view, checked once by itself, holds as well. Two changes of
FIFA's pages are a winner shown and corrected, or one on each match; the view holds with
three, too.

### Disagreements found

Each of the first five is a run.

1. `partial_calendar`: a calendar answer with one row of round16 missing is
   accepted with a remark, and the rows after the gap appear on the wrong
   matches (`fifaRealtime.js:929`). Votes are stored under the wrong match, and a
   wallet's votes whose team vanished are not counted against it, so it can place
   more than it has; `build-match-draw-ledger.mjs:240` then refuses to build any
   round.
2. `redraw`: README.md:348-349 says the round command maps winning tickets "back to
   ledger wallet/allocation rows". `run-lucky-draw-round-level.mjs:142` takes the first
   row with the match's id, and the base round sorts before its redraws: when a result
   was corrected between the two builds, the tickets of the redraw are looked up in the
   pool of the first draw.
3. `auto_redraw`: the page tells the operator that it "Detected a stuck on-chain round"
   (`src/app/i18n/locales/en.js:926`), but `shouldAutoRedrawAfterFailure` only looks for
   words in the failure (`DrawRoom.jsx:673`). It leaves draws that were never asked for,
   that have their word, or that are wholly revealed.
4. `restore`: README.md:175-176 says that the server restores missing files. The SQLite
   store makes its empty file before the restore starts
   (`production-server.mjs:4295`), so on a lost volume the votes do not come back, and
   the next backup replaces them in the repository.

5. `announced_ledger`: the match script takes another ledger in the contract than its own
   for an error ("Contract ledger hash ... does not match ...",
   `run-lucky-draw-round.mjs:485`), but looks before it asks for the word and never after
   (`:405`, `:484`, `:494`). A second run that starts after a build with equal figures
   can have its finalize call mined in between; the first then finds every later demand met
   and writes a winners file with the hash and the wallets of a ledger that was not
   drawn from.

Met while modelling, without a run:

6. README.md:358-362 gives a command that writes the winners file once the draw is
   fulfilled; without `--broadcast` or `--write-verified-snapshot` the script writes
   nothing (`run-lucky-draw-round-level.mjs:672`).
7. Overlapping calendar fetches are cached in the order they land
   (`production-server.mjs:2959`): an older answer can take a match's teams away again,
   with the consequence of number 1 for the wallet's limit.
8. README.md:244-246 says each refresh scans the latest 60 minutes again. The code looks
   back a number of checkpoints, and every refresh, every start-up and every source left
   cached by a killed refresh makes one; the first refreshes have none. README.md:235-236
   names a setting in minutes that has no effect on the scan.
9. README.md:321-323 keeps "Pending, missing, source-error, stale, or team-mismatch
   results" out of the pools. When the app has no id for one of FIFA's two teams nothing is
   compared (`soccer-match-results.mjs:275`), so another match's official winner is
   confirmed; and nothing marks a result as stale.
10. A ledger file says of itself "Wallet migration resolver was applied to merge old and
   canonical addresses." (`fetch-lucky-draw-ledger.mjs:669`). Buybacks follow the list of
   migrations to its end (`wallet-resolve.mjs:44-52`), but grants
   (`fetch-lucky-draw-ledger.mjs:422`) and carryover (`carryover-tickets.mjs:108-110`) one
   step: a person who moved twice gets two entries, and each of his addresses finds one of
   them. Without the condition `Plain` TLC finds `TicketsAreNotLost` violated by two
   migrations.
11. The board waits for the node of the proofs without a time limit
   (`production-server.mjs:2177`, `:2696`; the provider is made at `:2205` without one), so
   a node that is down keeps every reader of a board with a drawn round waiting, though
   the proofs are only an addition to it.

## 4. Fairness

Safety runs use `Init /\ [][Next]_vars`. `LiveSpec` of the contract assumes weak
fairness of the accepted callback for each request: what a funded VRF
subscription provides. Nothing obliges admins to act. `FairSpec` of the runner
assumes that the wallet's oldest transaction is mined, that the coordinator
answers, that each runner that is up takes its next step (a Node process runs
on), that somebody starts the script again when no run is up, and that a first
ledger is built. It is checked with one runner at a time, as the server starts
them. A ledger file replaced after the draw was finalized stops every later run at
its hash check, so the property makes that its one exception. Kills are bounded by `MaxKills` and otherwise unrestricted.
The vote API has no liveness property: a request ends with an answer or an error
of the fetch, whose time-outs belong to the HTTP client.

`DrawDay`: the timers fire (the server's for a run and for a rebuild, the page's for a
request), and the event loop answers what is ready: a board, once its proofs are known or its node
answers. Operators, wallets, nodes and the
coordinator owe nothing: a page that waits for its wallet's signature may wait for ever, a
reader of the board while the node is down, and the property says so of both. `Page`: a request in flight is answered (weak fairness; the
failures are bounded by `MaxErrors`) and a failed one tried again; in the winners view
the server reads its files, the poll goes on, and an answer that is possible again and
again arrives in time once (strong fairness: each poll gives the last one up, so weak
fairness would say nothing). `ServerData`: timers fire and the two child processes that
copy files get on; the property asks only for the case that the server stays up, and
`MaxFailures` bounds the failing backups. `Accounts`, `VoteGate`, `TicketScan`, `TicketLedger` and
`FollowerSync` have safety properties only.

## 5. Theorems

Every theorem is about `Spec` with arbitrary constants that satisfy the named
`ASSUME`s of the modules, which the runs evaluate.

`LuckyDrawProofs`. `RoundsAreTyped`, `BookkeepingCorrect`
(`RoundBookkeeping`) and `LifecycleCorrect` (`RoundLifecycle`), for every number of
rounds, matches, words and requests and every hash function, from the inductive
invariant `RoundInv`: the types of a round, the agreement of `matchIds`, the
matches and the counter, and the lifecycle. Each alone is not inductive: a reveal
completes the round by comparing the counter with the array, so the lifecycle
needs the bookkeeping, and the counter stays a cardinality only if matches are
finite and unrevealed before the word arrives.

Of requests and access: `NominationCorrect` (`NominationIsCurrent`),
`AccessIsTyped`, `RequestsCorrect` (`RequestsReachTheirDraw`) and `AnswersCorrect`
(`WordAnswersCurrentRequest`), from `RequestInv`, which adds to `RoundInv`: the two
tables say 0 for every number not handed out yet (`TablesUpToDate`), and what a
round (`RoundAsks`) or a draw (`DrawAsks`) that waits or has its word says of its
request. Without the first, a fresh number could already lead to another draw;
without the others, a late answer to an earlier request could not be told from
the current one.

Of the winners: `MatchTicketsCorrect` (`MatchTicketsValid`) and
`RoundsImplementFairDraw` (`RoundsAreFair`: the round-level path refines `FairDraw`),
for pools and lists of any size. The first needs `HashesAreNumbers`: the values of
`keccak256` are natural numbers (they are `uint256`); nothing else is asked of the
hash function, it may even be constant. The argument: the tickets free for a pick
are a finite set of numbers, and `_uniqueTicket`'s scan returns the element of that
set whose rank the hash selects; so a pick is a free ticket, n picks are n different
tickets, and picking more leaves the earlier picks alone. From this, `TicketInv`: a
match is empty or holds the picks of its round's word. Each step of a round is then
a step of `FairDraw`, the reveal of several matches in one call included.

`SlotProofs`. Under the same hypothesis, for any order of the five reveal functions:
`TypeCorrect` (`TypeOK` of both paths), `SlotTicketsCorrect` (`SlotTicketsValid`),
`SlotsImplementFairDraw` (`SlotDrawsAreFair`) and `PicksFair` (`PicksAreFair`: over the
hash's range no free ticket and no unrevealed slot is favoured). The invariant
`SlotInv` says that the tickets a draw has computed so far, lazily and as far as the
highest slot revealed, are a prefix of the picks of its word, and that the slots
revealed are different slots with the ticket of their own position; the ticket of a
slot therefore does not depend on when it was revealed.

The script of the path comes last in the module: `AnnouncementCorrect`
(`AnnouncedIsTheDraw`), for any runs, ledger rows, batch size and **number of killed
runs**, any builds at any time, any order of other admins' reveals and calls of the
public. That the winners file tells the tickets of a complete draw rests on what the
script demands at the end and on `SlotInv`, whichever ledger was drawn from. That it
names the contract's ledger holds while no build came between a run, or a call that was
sent, and its end (`quiet`), from `MatchInv`: then every run and every call in the
queue, those of killed runs included, carry the row on file, and the contract is a
draft or holds that row. Without that condition it is false, however many runs are
killed: the run `announced_ledger` (section 3) shows it with none.

`DrawRunnerProofs`. `RunnersAreTyped`, `SnapshotCorrect`
(`SnapshotTellsTheDraw`) and `SnapshotWhole` (`SnapshotIsComplete`), for any number
of runners, ledgers, matches, kills and any batch size, from `RunnerInv`: what each
runner's `pc` says of the chain (a runner past its ledger check and the seal holds
the ledger the contract drew with; a runner with nothing left to do has seen every
match revealed), and that no finalize transaction of another ledger can take
effect after the seal. `RunnersImplementFairDraw` (`RoundStaysFair`): what the contract
makes of the runs is a behaviour of `FairDraw`; every transaction that is mined, those
of killed runs included, is one of its steps or none. `FairInv` adds to `RunnerInv` that
ledgers come from the file only, that no batch is empty (a batch is of a set that is not
empty and has a size of at least one), and that the word is 0 until the request is
answered. `LabelsCorrect` (`LabelNeverRegresses`): one run at a time, whatever the
transactions of killed runs do meanwhile. From `LabelInv`: once the file is labelled
revealed, the only run is before its look at the chain, or it has found the round
complete. It is the run's own status, read before it looks at each match, that the
label is made of, so a second run that began earlier could still write the older label.

`VotesProofs`. For any requests in progress, ballots, matches, wallets, calendar
answers, failures and restarts:

- `AuditCorrect` (`AllocationsAreTheBallots`), without a hypothesis: the transaction
  adds the same to the balance and to the sum of the log, and a `requestId` only once.
- `NamesCorrect` (`VotesNameTheirTeams`): a wallet's votes name teams of their own match
  unless one was taken on a calendar with a gap. Ranks tell the rows of a round apart,
  so in a calendar without one each match shows its own row and no other (`RowsAreOwn`).
  `WinnersCorrect` (`NoVoteOnAKnownWinner`): never is a vote taken for a team whose match
  has its winner on file, gap or no gap, because a winner on file is official
  (`VotesTyped`) while the transaction compares the present time with the cutoff; and
  for the match it is stored under the same holds if there was no gap.
- `AcceptCorrect` (`RestHasCapacity`): whoever is over his capacity has had a vote taken
  on a calendar with a gap, or on one without a team he has tickets on. From `AcceptInv`:
  where a request was told neither, what the transaction leaves out of its sums is 0
  (`SubmitTells`, with `VotesNameTheirTeams`); and the entry a request holds is still
  covered by the ledger, which only grows (`EntriesHeld`). That both exceptions do occur
  is disagreements 1 and 7 of section 3; each alone is needed, as TLC finds.
- `NobodyIsMisled` is the complement: with answers that have all rows (`CalendarIsWhole`)
  and either all teams known from the start (`TeamsAreKnown`) or one request at a time
  (`OneAtATime`), neither exception ever occurs, so nobody is over his capacity at all.

None of the first four has a hypothesis: gaps, older answers and overlapping requests are
all in `Spec`.

`LedgerProofs`. `LocksCorrect` (`LockedRoundsStay`) and `DoneCorrect`
(`DoneMeansOnFile`), for any rounds, draws, votes, callers, corrections and kills, under
the assumption `Overlap = FALSE`, from `LedgerInv` (`LedgerCorrect`): at each place a
build can be at, what it saw of the files still holds, because only a build changes
them and it is alone. With two builds at once `LockedRoundsStay` is false: the two
writing steps are where the proof needs the build to be alone.

`PoolsCorrect` (`PoolsAreTheVotes`) needs no such assumption. A pool made of the first n
allocations is sound (`IsPool`: its entries divide the tickets among them, and a wallet
owns the sum of what it placed), by induction over n along the fold that `EntriesFor` is.
`PoolsInv` says that all rows on file and in the hands of a build are sound pools of
matches that have a result at FIFA: such a match keeps a result and gets no more votes,
so the row stays the pool of all its votes wherever builds carry it.

The ledger of tickets, in the same module. `TicketsHaveOneOwner`
(`EveryTicketHasOneOwner`), for any holders, buybacks, packs, migrations, resolver,
grants, carryover and task rewards, chains of migrations included. That every ticket number is in
one interval of one entry holds of any list. That this entry is the one found for the
buyer is said of lists that are `Plain`: nobody in it moves twice, and the resolver joins
no one who moves or is moved to. Every wallet has a home: the end of its list or, if
the list does not know it, what the resolver answers. From `TicketLedgerInv`: no two
entries of a file have the same wallet (`OneEntry`); an entry has the intervals of
exactly the buybacks whose buyer is at home there, and lists those buyers
(`OwnBuybacks`, `AllListed`); and in a file that a refresh wrote, every wallet an entry
lists is at home there (`AtHome`), which is what makes the entry found for an address
the right one. Grants and carryover are added by one step of the list, buybacks by all
of them; `TogetherAtHome`, `GrantsAtHome` and `PreviousAtHome` show that they meet when
the list is plain. Intervals do not overlap because the tickets
before a buyback grow with it (`TicketsBeforeGrow`), by induction. It rests on
`TicketLedgerAssumption`: what the resolver answers stands for itself, and grants and
the entries of the previous campaign agree with it. The last was found by the proof: the
model first asked only that an entry list its own wallet, and TLC showed that one that
lists a second wallet, which the resolver does not join to the first, puts that wallet
into two entries. The previous ledger was written with the same resolver's answers; the
assumption asks for what they guarantee while they stay the same.

`NoTicketsAreLost` (`TicketsAreNotLost`) holds from `KeptInv`, which adds: an entry of
the file has no more of anything than a refresh with the cached list would find now
for the home of its wallet (`AllWithin`). Buybacks are only added, and when a list grows,
what was found for a wallet is found for its new home (`HomesMerge`), with what that
home had already; both are facts about sums over sets that grow. So the file the next
refresh writes has for each home at least what any entry that moved there had. The cached
list is a part of the true one (`ListsGrow`). A file that a refresh wrote has for each
wallet the carryover the script would find with the same list, so the script changes
nothing (`AsWritten`). A task reward is not in the file but added when it is answered,
and `completed` only grows. What the statement leaves out are the steps after which the file has a list that is not
plain (a wallet that moved on, or one that the resolver knows too; section 3,
disagreement 10) or was written by a script with a newer list than the file's (section
6). Both occur in the `site` run, and in both tickets can be out of reach.

`DrawDayProofs`. `RunsCorrect` (`SignedRunsOneAtATime`) and `BoardCorrect`
(`BoardListsRealDraws`), for any pages, readers, rounds, redraws and challenges, from
`DayInv`. Its part `AdminInv`: a challenge is live until one run has its number, so no
two runs share one (`RunsAreSigned`), and the flag is up exactly while a run is open,
and only one is (`FlagTellsTheRun`). Its part `BoardInv`: what a winners file, a history file, a
process or an answer under way says of a draw, the chain has come at least as far
(`FilesAreDrawn`), and a list names a round once (`OneDrawPerRound`).

`SiteProofs`. Six parts of the site that share no variables:

- `AnswersCorrect` (`OneAnswerPerChallenge`) and `UidsCorrect` (`OneUidPerVoter`), for any
  browsers, requests, wallets, X accounts, UIDs and challenges. The first needs
  `AnswerInv`: a challenge that is answered is closed and stays closed; every session,
  connection and request under way holds a closed one, and the requests that will become
  sessions hold challenges that no session and no other request has (`CallsAnswer`); and
  a token carried by a follow check is one its session had. The second, `UidInv`, is
  inductive with the records' type, because the conflict is looked for in the step that
  writes.
- `FollowersCorrect` (`CachedFollowersFollow`), for any users, runners, page and run sizes
  and changes, from `FInv`: what a run has seen follows or has left since that run began,
  and what it loaded is as good as the cache it loaded it from, unless that was replaced
  meanwhile. `NobodyLeftOut` (`NobodyIsLeftOut`) says the reverse, for users who stay while
  a run reads. A delta run stops at the first page without news, so it has not seen who
  is below; it is right only because a cache has no gap: with one follower it has all
  who are older (`Gapless`). That holds of the file while there is no doubt and nobody
  has left (`GapInv`), since full runs meet followers from the newest down, and new
  followers are newer than all. For runs under way: `FullMeets`, and `DeltaFits` while
  the cache that a run loaded is on file. A run that lost that is not given up:
  `DeltaMeets` holds of it too, so that the statement covers a run that fails while the
  file happens to be what it would have saved.
- `ResultsCorrect` (`ResultsMoveForward`), for any matches, editions and failures, from
  `ResultsInv`: at most one sync runs (`OneSync`), and what it has read of a match is not
  older than the row on file (`SyncReadsRecent`).
- `DataCorrect` (`RestoreKeepsVotes`), for any votes, backups, jobs and restarts, from
  `DataInv`, which adds that the database is opened before a vote is accepted
  (`StoreBeforeVotes`).
- `VotesLogged` (`VotesAreTheirLog`), for any voters, matches, logs of an earlier version,
  builds and crashes, under the assumption that builds start only beside a server that is
  up (`ShellBuilds = FALSE`; section 3 says what happens otherwise). `StoreInv`: in
  whatever state a crash leaves the tables, the tickets on a match are the number of its
  events (`PlacedIs`) and a payload names the match of its event (`PayloadsFit`); the
  server has read the log that is there, since nobody writes before it is open
  (`ServerOK`); a build has read the beginning of a log in order (`BuildOK`), so it
  changes nothing. That tickets and events move to the official ids together
  (`MovedTogether`) is a fact about sums, by induction over the set of old ids
  (`SumOfSent`); it needs that set to be finite, which `VoteStoreAssumption` says. In the
  JSON store, what is placed lies between what was answered and what is in the log.
- `WhatWasShownIsCounted` (`LedgerCountsWhatWasShown`), for any buybacks, chain length,
  overlap and look-back of three checkpoints or more (the default is twelve,
  `production-server.mjs:98`). From `ScanInv`, whose heart is `MissInv`: of the blocks a
  source is known up to, at most as many lie at an uncached event's block or after it as
  scans have missed the event. A refresh looks back over one block more, the other
  source's when a refresh was killed in between (`LooksBackFarEnough`), and still begins
  at the event (`FromInv`). With a look-back of two that one block is enough to push the
  start behind an event missed once, which is why the theorem asks for three. It rests on
  `ExplorerIsPunctual`, the assumption about the explorer that section 2 describes.

How induction over data is done: the library's induction theorems take an operator
as a parameter, which the provers cannot instantiate, but the statement that the proper
subsets of a finite set are well-founded has only sets as parameters. From it follow
induction over the subsets of a finite set (`SubsetInduction`) and over the naturals
(`NatInd`), both stated for sets. With the picks and the community modules' sums
written as recursive functions, that suffices for picks, slots, sums and pools; what several
modules need of it is in `SumProofs`.

Only model-checked: liveness and what uses ENABLED. The page's properties are all of that
kind, so nothing is proved of it.

## 6. Hazards

`PROJECT.json` lists, at its line, what in this code a test would hardly reach, each
with the properties that cover it. Hazards that no property covers yet:

- a draw ledger rebuilt with `--replace-existing-round` to a content it had before, while
  a finalize transaction of that content is pending (`DrawRunner` numbers the contents);
- two builds at once, the server's and one from a shell: the second replaces what the
  first has locked (`build-match-draw-ledger.mjs:597`; with `Overlap = TRUE`
  `LockedRoundsStay` does not hold);
- the readiness check and the build read the results file at different moments
  (`sync-fifa-results.mjs:215`): the build takes the matches that have a result when it
  reads and fails only if there is none, so a sync in between can make it lock part of a
  round (`DrawAdmin.BuildLedger` allows it; `DrawLedger` has the contents);
- the winners board while a redraw is the current file, and the history file, named by
  the source round, that a redraw's winners replace (`run-lucky-draw-round-level.mjs:529`);
- two readers share a rebuilding process whose round is drawn meanwhile; a press that
  waits while another operator's run goes on;
- two eligibility answers for one key, of which the older lands last, and a follow check
  that fails late and replaces a success (`VoteGate` has both; what is right is not said
  anywhere);
- a token refreshed for a session that logs out meanwhile; the profile queue that drops
  its oldest write at 250;
- jobs that start although the restore failed, and back up what there is;
- a reorganisation of the chain deeper than the overlap;
- a vote's answer that arrives after the session changed, and a `requestId` that is made
  anew per click, so a vote whose answer was lost counts again when it is repeated;
- two addresses joined by a migration share one ledger entry, but votes are counted per
  address, so each can place all of its tickets (`soccer-vote-store.mjs:210`);
- the migration of old match ids rewrites only rows of round16, although its table has
  those of later rounds (`soccer-vote-store-sqlite.mjs:136`), and no id in the JSON store.

What the ticket ledger and follower models show beside their properties: with a
migration in a chain (A to B to C), buybacks end at C but carryover and grants at B, so
one person's tickets are in two entries; the same for an old wallet that only the
resolver knows. Both are excepted by `Plain`. `apply-carryover` with a newer list than the file's leaves an address in
two entries until the next refresh. A wallet in the list is no longer asked of the
resolver. A delta run that was cut at its last page, or that overlapped another, or
whose newest page is filled by users who came back, leaves followers out until the next
full run, and one that overlaps a full run may put back whom that took out.

## 7. Not modelled

Deployment, role and verification scripts send one transaction each, by hand; the
effect of the role changes is in `DrawAccess`. The scripts that replace a whole vote database serve
local tests. The rate limiter refuses
requests, which every model allows at any time. Sandbox, seed and synchronisation
scripts make test data. HTTP headers, cookies' attributes, audit trails, e-mail texts,
the Google and Discord logins (which follow the modelled OAuth steps), sessions without
a wallet, the local bypass of the X gate, and statistics carry no protocol state.

About a tenth of the repository's lines are the three locale tables (some 1400 lines
each), and most of the large components of the front end (`DrawRoom.jsx`,
`ControlRoom.jsx`, `WinnersRoom.jsx`, `App.jsx`) are markup, formatting and animation.
What of them has state that several actors share is in `DrawRoom` and `Page`. The
previews in the front end are display only: every rule is enforced again by the API.

## 8. Plan

What would come next, in this order.

1. Votes of joined addresses: `VotesApi` over the entries of `TicketLedger`, whose
   migrations and look-ups decide whose tickets a vote uses.
2. `DrawDay` with the builds of `DrawLedger` instead of its set `locked`, and the
   winners file while a redraw is current.
3. Two pages at once in `draw_day` (its views are at the limit of TLC's time).
4. Proofs: that `DrawDay` with the builds of `DrawLedger` keeps `DayInv`, and the
   redraw's winners file with it.
