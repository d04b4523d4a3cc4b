------------------------------ MODULE Accounts ------------------------------
(***************************************************************************)
(* Logins and connections.  A visitor logs in with the Renaiss provider,   *)
(* which names a wallet and the X account linked to it, or, in the legacy  *)
(* logins, by signing with a wallet or with a code sent by e-mail, and may *)
(* then connect the X account to the session.  All go through a challenge  *)
(* that is made when the visitor is sent away and used up when he comes    *)
(* back; between the two, and while the server talks to the provider,      *)
(* anything else may happen.  Sessions, tokens and profiles are files and  *)
(* a database: they outlive the server.                                    *)
(***************************************************************************)
EXTENDS Naturals, Sequences

CONSTANTS
  Wallets, XIds,
  Browsers,        \* each holds at most one session cookie
  Calls,           \* requests the server works on at the same time
  MaxChallenges,   \* bound: challenges made
  QueueLimit,      \* profile writes kept (the code keeps 250)
  None

ASSUME AccountsAssumption ==
  MaxChallenges \in Nat /\ QueueLimit \in Nat \ {0} /\ None \notin Wallets \cup XIds

VARIABLES
  challenges,  \* auth-state.json, oldest first
  sessions,    \* sessions.json, oldest first
  tokens,      \* oauth-tokens.json: the X token of each session
  profile,     \* the X account on file for each wallet
  queue,       \* profile writes not yet done
  cookie,      \* each browser's session, 0 for none
  state,       \* each browser's challenge per provider: its state cookie, its nonce or the
               \* code mailed last, 0 for none
  call         \* what each request is doing

accountVars == <<challenges, sessions, tokens, profile, queue, cookie, state, call>>

Providers == {"renaiss", "x", "wallet", "email"}

NoCall == [pc |-> "free"]
NoToken == [x |-> None, fresh |-> FALSE, by |-> 0]
TokenOf(s) == IF s \in DOMAIN tokens THEN tokens[s] ELSE NoToken
Live(s) == s \in DOMAIN sessions /\ sessions[s].live
Free(c) == call[c].pc = "free"
At(c, pc) == call[c].pc = pc
End(c) == call' = [call EXCEPT ![c] = NoCall]

AccountsInit ==
  /\ challenges = <<>>
  /\ sessions = <<>>
  /\ tokens = <<>>
  /\ profile = [w \in Wallets |-> None]
  /\ queue = <<>>
  /\ cookie = [b \in Browsers |-> 0]
  /\ state = [b \in Browsers |-> [provider \in Providers |-> 0]]
  /\ call = [c \in Calls |-> NoCall]

-----------------------------------------------------------------------------
(* Going away and coming back. *)

(* GET /api/auth/<provider>/start, /wallet/nonce and /email/start.  X can  *)
(* only be connected to a session; a new code replaces that of the same    *)
(* address.                                                                *)
OAuthStart(b, provider) ==
  /\ Len(challenges) < MaxChallenges
  /\ provider = "x" => Live(cookie[b])
  /\ challenges' = Append(
       [n \in DOMAIN challenges |->
          IF provider = "email" /\ n = state[b]["email"]
          THEN [challenges[n] EXCEPT !.open = FALSE] ELSE challenges[n]],
       [provider |-> provider, open |-> TRUE,
        connect |-> IF provider = "x" THEN cookie[b] ELSE 0])
  /\ state' = [state EXCEPT ![b][provider] = Len(challenges) + 1]
  /\ UNCHANGED <<sessions, tokens, profile, queue, cookie, call>>

(* Its time is over, or too many wrong codes were tried. *)
ChallengeExpires(n) ==
  /\ challenges[n].open
  /\ challenges' = [challenges EXCEPT ![n].open = FALSE]
  /\ UNCHANGED <<sessions, tokens, profile, queue, cookie, state, call>>

(* Mutant of ConsumeOauthChallenge: it is removed only when the login is   *)
(* done.                                                                   *)
ConsumeLater(n) == challenges[n].open /\ challenges' = challenges

ConsumeOauthChallenge(n) ==
  challenges[n].open /\ challenges' = [challenges EXCEPT ![n].open = FALSE]

(* The callback, up to where it talks to the provider, /wallet/verify, up  *)
(* to where it checks the signature, and /email/verify with the right      *)
(* code, up to where it asks for the wallet.  The cookies are those the    *)
(* request came with.                                                      *)
OAuthCallback(c, b, provider) ==
  LET n == state[b][provider]
  IN  /\ Free(c) /\ n # 0
      /\ ConsumeOauthChallenge(n)
      /\ call' = [call EXCEPT ![c] =
           [pc |-> "exchange", browser |-> b, challenge |-> n, session |-> cookie[b]]]
      /\ UNCHANGED <<sessions, tokens, profile, queue, cookie, state>>

(* enqueueLoginProfile: a full queue drops its oldest write. *)
Enqueue(w, x) ==
  queue' = Append(IF Len(queue) >= QueueLimit THEN Tail(queue) ELSE queue, <<w, x>>)

SaveToken(s, token) ==
  tokens' = [t \in DOMAIN sessions' |-> IF t = s THEN token ELSE TokenOf(t)]

Returned(c) ==
  /\ End(c)
  /\ state' = [state EXCEPT ![call[c].browser][challenges[call[c].challenge].provider] = 0]

(* A login: Renaiss names the wallet and perhaps an X account. *)
LoggedIn(c, w, x) ==
  /\ At(c, "exchange") /\ challenges[call[c].challenge].provider # "x"
  /\ challenges[call[c].challenge].provider \in {"wallet", "email"} => x = None
  /\ sessions' = Append(sessions, [wallet |-> w, live |-> TRUE, by |-> call[c].challenge])
  /\ SaveToken(0, NoToken)
  /\ cookie' = [cookie EXCEPT ![call[c].browser] = Len(sessions) + 1]
  /\ Enqueue(w, x)
  /\ Returned(c)
  /\ UNCHANGED <<challenges, profile>>

(* An X connection: the session that asked for it must still be there, and *)
(* the account must be the one on file for its wallet.                     *)
Connected(c, x) ==
  LET s == call[c].session
      n == call[c].challenge
  IN  /\ At(c, "exchange") /\ challenges[n].provider = "x"
      /\ Live(s) /\ challenges[n].connect = s
      /\ profile[sessions[s].wallet] = x
      /\ sessions' = sessions
      /\ SaveToken(s, [x |-> x, fresh |-> TRUE, by |-> n])
      /\ Enqueue(sessions[s].wallet, None)
      /\ Returned(c)
      /\ UNCHANGED <<challenges, profile, cookie>>

(* The provider refuses or fails, or a check above does not hold. *)
ExchangeFails(c) ==
  /\ At(c, "exchange")
  /\ Returned(c)
  /\ UNCHANGED <<challenges, sessions, tokens, profile, queue, cookie>>

-----------------------------------------------------------------------------
(* The rest of a session's life. *)

(* All that is queued is written; a write keeps what is on file where its  *)
(* login says nothing.                                                     *)
FlushQueue ==
  LET said(w) == {i \in DOMAIN queue : queue[i][1] = w /\ queue[i][2] # None}
  IN  /\ queue # <<>>
      /\ profile' = [w \in Wallets |->
           IF said(w) = {} THEN profile[w]
           ELSE queue[CHOOSE i \in said(w) : \A j \in said(w) : j =< i][2]]
      /\ queue' = <<>>
      /\ UNCHANGED <<challenges, sessions, tokens, cookie, state, call>>

Logout(b) ==
  /\ cookie[b] # 0
  /\ sessions' = [sessions EXCEPT ![cookie[b]].live = FALSE]
  /\ tokens' = IF Live(cookie[b]) THEN [tokens EXCEPT ![cookie[b]] = NoToken] ELSE tokens
  /\ cookie' = [cookie EXCEPT ![b] = 0]
  /\ UNCHANGED <<challenges, profile, queue, state, call>>

SessionExpires(s) ==
  /\ Live(s)
  /\ sessions' = [sessions EXCEPT ![s].live = FALSE]
  /\ tokens' = [tokens EXCEPT ![s] = NoToken]
  /\ UNCHANGED <<challenges, profile, queue, cookie, state, call>>

TokenAges(s) ==
  /\ tokens[s].fresh
  /\ tokens' = [tokens EXCEPT ![s].fresh = FALSE]
  /\ UNCHANGED <<challenges, sessions, profile, queue, cookie, state, call>>

(* The server restarts: the requests and the queue were in memory. *)
ServerRestarts ==
  /\ call' = [c \in Calls |-> NoCall]
  /\ queue' = <<>>
  /\ UNCHANGED <<challenges, sessions, tokens, profile, cookie, state>>

AccountSteps ==
  \/ \E b \in Browsers, provider \in Providers :
       OAuthStart(b, provider) \/ \E c \in Calls : OAuthCallback(c, b, provider)
  \/ \E n \in DOMAIN challenges : ChallengeExpires(n)
  \/ \E c \in Calls :
       \/ \E w \in Wallets, x \in XIds \cup {None} : LoggedIn(c, w, x)
       \/ \E x \in XIds : Connected(c, x)
       \/ ExchangeFails(c)
  \/ FlushQueue
  \/ \E b \in Browsers : Logout(b)
  \/ \E s \in DOMAIN sessions : SessionExpires(s) \/ TokenAges(s)
  \/ ServerRestarts

-----------------------------------------------------------------------------

(* Every session and every connection answers a challenge of its own, and  *)
(* a connection one that this very session asked for: no reload, second    *)
(* tab or slow provider turns one round trip into two, or brings an X      *)
(* account to somebody else's session.                                     *)
OneAnswerPerChallenge ==
  /\ \A s, t \in DOMAIN sessions :
       /\ sessions[s].by = sessions[t].by => s = t
       /\ tokens[s] # NoToken =>
            /\ challenges[tokens[s].by].connect = s
            /\ tokens[t].by = tokens[s].by => t = s

=============================================================================
