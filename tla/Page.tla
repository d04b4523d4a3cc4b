-------------------------------- MODULE Page --------------------------------
(***************************************************************************)
(* The web page (App.jsx) and what it asks the server for.                 *)
(*                                                                         *)
(* For the vote view: the ledger entry and the votes of the wallet it      *)
(* shows, and everybody's votes (the pool).  A new wallet or a vote starts *)
(* a request again; a failed one is tried again after a while.             *)
(*                                                                         *)
(* For the winners view: the board of the selected network, with a copy    *)
(* per network, and a poll that says when the board has a new version.     *)
(* Starting a request again gives up the one in flight, whose answer may   *)
(* still come.                                                             *)
(***************************************************************************)
EXTENDS Naturals

CONSTANTS
  Voters,       \* the wallets the page may show
  Nobody,
  MaxSessions,  \* bound: answers about the session
  MaxPosts,     \* bound: votes posted
  MaxErrors,    \* bound: requests of the vote view that fail
  MaxWrites     \* bound: versions of each board

ASSUME PageAssumption ==
  /\ MaxSessions \in Nat /\ MaxPosts \in Nat /\ MaxErrors \in Nat /\ MaxWrites \in Nat
  /\ Nobody \notin Voters

VARIABLES
  session,   \* the wallet of the session, as far as the page knows
  selected,  \* the wallet shown without a session
  answers,   \* answers about the session so far
  request,   \* what each request says to the page: for whom, and how far it is
  flights,   \* the requests under way, the ones given up included
  posting,   \* the wallet whose vote is being posted
  posts,     \* votes posted
  errors     \* requests that failed

voteViewVars == <<session, selected, answers, request, flights, posting, posts, errors>>

VARIABLES
  board,     \* the server's winners files: 0 for none, then their versions
  network,   \* the selected network
  cache,     \* the page's copy of each board, Unread before it has one
  shown,     \* the data on the page: of which network, which version
  fetching,  \* what the request for the board under way has read
  polling,   \* what the request for the version under way has read
  seen,      \* the version last polled, Unread for none
  visible    \* the page is visible

winnersViewVars == <<board, network, cache, shown, fetching, polling, seen, visible>>

-----------------------------------------------------------------------------
(* The vote view. *)

Kinds == {"entry", "personal", "pool"}
OwnKinds == {"entry", "personal"}

effectiveWallet == IF session # Nobody THEN session ELSE selected
For(kind, w) == IF kind = "pool" THEN Nobody ELSE w

(* The effects of the page: each kind's request is started for w. *)
Start(kinds, w) ==
  /\ request' = [k \in Kinds |->
       IF k \in kinds THEN [of |-> For(k, w), status |-> "loading"] ELSE request[k]]
  /\ flights' = [k \in Kinds |->
       IF k \notin kinds THEN flights[k]
       ELSE {[f EXCEPT !.live = FALSE] : f \in flights[k]} \cup {[of |-> For(k, w), live |-> TRUE]}]

VoteViewInit ==
  /\ session = Nobody
  /\ selected \in Voters
  /\ answers = 0
  /\ request = [k \in Kinds |-> [of |-> For(k, selected), status |-> "loading"]]
  /\ flights = [k \in Kinds |-> {[of |-> For(k, selected), live |-> TRUE]}]
  /\ posting = Nobody
  /\ posts = 0
  /\ errors = 0

Shows(w) ==
  IF w = effectiveWallet THEN UNCHANGED <<request, flights>> ELSE Start(OwnKinds, w)

(* refreshAuthSession: a session, or none.  A login elsewhere in the same  *)
(* browser replaces it.                                                    *)
SessionAnswered(w) ==
  /\ answers < MaxSessions /\ answers' = answers + 1
  /\ session' = w
  /\ IF w = Nobody THEN selected' = selected /\ Shows(selected)
     ELSE selected' = w /\ Shows(w)
  /\ UNCHANGED <<posting, posts, errors>>

(* Mutant of DataAnswered: the answer is taken whether or not its request *)
(* was given up.                                                           *)
AnyDataAnswered(kind, f) ==
  /\ f \in flights[kind]
  /\ flights' = [flights EXCEPT ![kind] = @ \ {f}]
  /\ request' = [request EXCEPT ![kind] = [of |-> f.of, status |-> "ready"]]
  /\ UNCHANGED <<session, selected, answers, posting, posts, errors>>

DataAnswered(kind, f) ==
  /\ f \in flights[kind]
  /\ flights' = [flights EXCEPT ![kind] = @ \ {f}]
  /\ request' = IF f.live THEN [request EXCEPT ![kind] = [of |-> f.of, status |-> "ready"]]
                ELSE request
  /\ UNCHANGED <<session, selected, answers, posting, posts, errors>>

DataFails(kind, f) ==
  /\ f \in flights[kind]
  /\ errors < MaxErrors /\ errors' = errors + 1
  /\ flights' = [flights EXCEPT ![kind] = @ \ {f}]
  /\ request' = IF f.live THEN [request EXCEPT ![kind].status = "error"] ELSE request
  /\ UNCHANGED <<session, selected, answers, posting, posts>>

(* The timer a failed request sets. *)
RetryData(kind) ==
  /\ request[kind].status = "error"
  /\ Start({kind}, effectiveWallet)
  /\ UNCHANGED <<session, selected, answers, posting, posts, errors>>

DataReady(kind) ==
  request[kind] = [of |-> For(kind, effectiveWallet), status |-> "ready"]

voteDataReady == \A k \in Kinds : DataReady(k)

(* handleConfirmPreviewVote, by a visitor who is logged in. *)
PostVote ==
  /\ posting = Nobody /\ posts < MaxPosts
  /\ session # Nobody /\ voteDataReady
  /\ posting' = session
  /\ posts' = posts + 1
  /\ UNCHANGED <<session, selected, answers, request, flights, errors>>

(* Its answer holds the votes of the wallet that was shown at the click;   *)
(* the request for the wallet's votes is not touched, the pool is asked    *)
(* for again.                                                              *)
VoteAnswered ==
  /\ posting # Nobody /\ posting' = Nobody
  /\ request' = [request EXCEPT !["personal"] = [of |-> posting, status |-> "ready"],
                                !["pool"] = [of |-> Nobody, status |-> "loading"]]
  /\ flights' = [flights EXCEPT !["pool"] =
       {[f EXCEPT !.live = FALSE] : f \in @} \cup {[of |-> Nobody, live |-> TRUE]}]
  /\ UNCHANGED <<session, selected, answers, posts, errors>>

VoteFails ==
  /\ posting # Nobody /\ posting' = Nobody
  /\ UNCHANGED <<session, selected, answers, request, flights, posts, errors>>

VoteViewSteps ==
  \/ \E w \in Voters \cup {Nobody} : SessionAnswered(w)
  \/ \E kind \in Kinds :
       \/ \E f \in flights[kind] : DataAnswered(kind, f) \/ DataFails(kind, f)
       \/ RetryData(kind)
  \/ PostVote \/ VoteAnswered \/ VoteFails

(* Requests are answered or fail, and a failed one is tried again.         *)
VoteViewFairness ==
  \A kind \in Kinds :
    /\ WF_voteViewVars(\E f \in flights[kind] : f.live /\ DataAnswered(kind, f))
    /\ WF_voteViewVars(RetryData(kind))

-----------------------------------------------------------------------------
(* The winners view, open.  A request for the board and one for its        *)
(* version, each given up for the next one: Idle, Unread until the server  *)
(* has read the file, then the version it read.                            *)

Networks == {"mainnet", "sandbox"}
Unread == MaxWrites + 1
Idle == MaxWrites + 2

WinnersViewInit ==
  /\ board \in [Networks -> 0..MaxWrites]
  /\ network = "mainnet"
  /\ cache = [n \in Networks |-> Unread]
  /\ shown = [network |-> "mainnet", version |-> Unread]
  /\ fetching = Unread
  /\ polling = Idle
  /\ seen = [n \in Networks |-> Unread]
  /\ visible = TRUE

(* A draw is published; the server is not the page's. *)
BoardWritten(n) ==
  /\ board[n] < MaxWrites
  /\ board' = [board EXCEPT ![n] = @ + 1]
  /\ UNCHANGED <<network, cache, shown, fetching, polling, seen, visible>>

(* handleSelectWinnerRevealNetwork and the effects it sets off. *)
SelectNetwork(n) ==
  /\ n # network /\ network' = n
  /\ shown' = IF cache[n] # Unread THEN [network |-> n, version |-> cache[n]] ELSE shown
  /\ fetching' = Unread
  /\ polling' = Idle
  /\ UNCHANGED <<board, cache, seen, visible>>

(* A run of the draw room on the same page says so. *)
WinnersUpdated ==
  /\ fetching' = Unread
  /\ UNCHANGED <<board, network, cache, shown, polling, seen, visible>>

FetchServed ==
  /\ fetching = Unread /\ fetching' = board[network]
  /\ UNCHANGED <<board, network, cache, shown, polling, seen, visible>>

(* New data starts the poll over. *)
FetchAnswered ==
  /\ fetching < Unread /\ fetching' = Idle
  /\ cache' = [cache EXCEPT ![network] = fetching]
  /\ shown' = [network |-> network, version |-> fetching]
  /\ polling' = IF shown' = shown THEN polling ELSE Idle
  /\ UNCHANGED <<board, network, seen, visible>>

(* Data the page has stay; without any the board is shown empty.  Whether  *)
(* the server had read the file by then makes no difference.               *)
FetchFails ==
  /\ fetching < Unread /\ fetching' = Idle
  /\ shown' = IF cache[network] = Unread THEN [network |-> network, version |-> 0] ELSE shown
  /\ UNCHANGED <<board, network, cache, polling, seen, visible>>

winnerRevealLoading == shown.network # network \/ shown.version = Unread

(* Every few seconds, and when the page becomes visible.  A poll given up  *)
(* while its answer is read counts as one that says nothing.               *)
Poll ==
  /\ visible /\ ~ winnerRevealLoading
  /\ polling' = Unread
  /\ \/ seen' = seen
     \/ polling < Unread /\ seen' = [seen EXCEPT ![network] = Unread]
  /\ UNCHANGED <<board, network, cache, shown, fetching, visible>>

PollServed ==
  /\ polling = Unread /\ polling' = board[network]
  /\ UNCHANGED <<board, network, cache, shown, fetching, seen, visible>>

(* Mutant of IsNews: only the version polled before is compared. *)
IsOtherVersion(version) == seen[network] # Unread /\ seen[network] # version

(* A write changes both the file's version and the date in it. *)
IsNews(version) ==
  \/ seen[network] # Unread /\ seen[network] # version
  \/ version # 0 /\ version # shown.version

PollAnswered ==
  /\ polling < Unread /\ polling' = Idle
  /\ seen' = [seen EXCEPT ![network] = polling]
  /\ fetching' = IF IsNews(polling) THEN Unread ELSE fetching
  /\ UNCHANGED <<board, network, cache, shown, visible>>

PollFails ==
  /\ polling < Unread /\ polling' = Idle
  /\ seen' = [seen EXCEPT ![network] = Unread]
  /\ UNCHANGED <<board, network, cache, shown, fetching, visible>>

TurnAway ==
  /\ visible' = ~ visible
  /\ UNCHANGED <<board, network, cache, shown, fetching, polling, seen>>

WinnersViewSteps ==
  \/ \E n \in Networks : BoardWritten(n) \/ SelectNetwork(n)
  \/ WinnersUpdated \/ FetchServed \/ FetchAnswered \/ FetchFails
  \/ Poll \/ PollServed \/ PollAnswered \/ PollFails \/ TurnAway

(* A request made again and again is answered in the end, in time: before  *)
(* the next poll gives it up.                                              *)
WinnersViewFairness ==
  /\ WF_winnersViewVars(Poll)
  /\ WF_winnersViewVars(FetchServed) /\ SF_winnersViewVars(FetchAnswered)
  /\ WF_winnersViewVars(PollServed) /\ SF_winnersViewVars(PollAnswered)

-----------------------------------------------------------------------------

(* The wallet's tickets and the pool come up in the end and stay, whatever *)
(* sessions, failures and late answers there were; so do the wallet's      *)
(* votes, unless the answer to a vote came after its wallet had left the   *)
(* page and its votes are what the request now stands for.                 *)
TicketsComeUp ==
  <>[](/\ DataReady("entry") /\ DataReady("pool")
       /\ \/ DataReady("personal")
          \/ request["personal"].status = "ready" /\ request["personal"].of # effectiveWallet)

(* A visitor who keeps looking at a network's board sees the last one in   *)
(* the end, although a poll that finds news may be followed by a request   *)
(* that fails, and the poll gives that request up.                         *)
ViewerCatchesUp ==
  \A n \in Networks :
    <>[](visible /\ network = n) => <>[](shown = [network |-> n, version |-> board[n]])

=============================================================================
