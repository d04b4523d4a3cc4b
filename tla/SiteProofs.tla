----------------------------- MODULE SiteProofs -----------------------------
(***************************************************************************)
(* What stands before the vote path and beside it, each by itself: logins  *)
(* and the vote gate, the follower sync and its cache, the result sync and *)
(* its file, the server's data files with their backup and restore, the    *)
(* vote store and the scan for tickets.  For any number of browsers,       *)
(* requests, wallets, X accounts, users, runners, syncs, matches, votes,   *)
(* builds and blocks.                                                      *)
(***************************************************************************)
EXTENDS VoteGate, FollowerSync, MatchResults, ServerData, VoteStore, TicketScan, SumProofs

-----------------------------------------------------------------------------
(* Logins and the vote gate. *)

gateSpecVars == <<accountVars, gateVars>>

-----------------------------------------------------------------------------
(* A challenge is answered once.  What is answered is closed, and closed   *)
(* it stays; sessions, connections and the requests under way each hold a  *)
(* closed one, and no request one that a session or another request has.   *)

Challenge == [provider : Providers, open : BOOLEAN, connect : Nat]
Session == [wallet : Wallets, live : BOOLEAN, by : Nat]
Token == [x : XIds \cup {None}, fresh : BOOLEAN, by : Nat]

Used(n) == n \in DOMAIN challenges /\ ~ challenges[n].open

TokenFor(s, token) ==
  token \in Token /\ Used(token.by) /\ challenges[token.by].connect = s

Carries(r) ==
  /\ {"pc", "session", "token", "asked"} \subseteq DOMAIN r
  /\ TokenFor(r.session, r.token)

AnswersTyped ==
  /\ challenges \in Seq(Challenge)
  /\ sessions \in Seq(Session)
  /\ tokens \in [DOMAIN sessions -> Token]
  /\ state \in [Browsers -> [Providers -> Nat]]
  /\ \A b \in Browsers, p \in Providers : state[b][p] =< Len(challenges)
  /\ call = [c \in Calls |-> call[c]]

SessionsAnswer ==
  \A s \in DOMAIN sessions :
    /\ Used(sessions[s].by)
    /\ \A t \in DOMAIN sessions : sessions[s].by = sessions[t].by => s = t

TokensAnswer ==
  \A s \in DOMAIN sessions : tokens[s] # NoToken => TokenFor(s, tokens[s])

CallsAnswer ==
  \A c \in Calls :
    /\ At(c, "exchange") =>
         /\ Used(call[c].challenge)
         /\ call[c].browser \in Browsers
         /\ \A s \in DOMAIN sessions : sessions[s].by # call[c].challenge
         /\ \A d \in Calls :
              At(d, "exchange") /\ call[d].challenge = call[c].challenge => c = d
    /\ At(c, "follow") \/ At(c, "refresh") => Carries(call[c])

AnswerInv == AnswersTyped /\ SessionsAnswer /\ TokensAnswer /\ CallsAnswer

(* Challenges are only added and closed. *)
ChallengesStay ==
  /\ challenges' \in Seq(Challenge)
  /\ Len(challenges) =< Len(challenges')
  /\ \A n \in DOMAIN challenges :
       /\ n \in DOMAIN challenges'
       /\ challenges'[n].connect = challenges[n].connect
       /\ ~ challenges[n].open => ~ challenges'[n].open

LEMMA AnswerInit == AccountsInit /\ GateInit => AnswerInv
<1> SUFFICES ASSUME AccountsInit PROVE AnswerInv
  OBVIOUS
<1>1. AnswersTyped
  <2>1. challenges \in Seq(Challenge) /\ sessions \in Seq(Session) /\ DOMAIN sessions = {}
    BY DEF AccountsInit
  <2>2. tokens \in [DOMAIN sessions -> Token]
    BY DEF AccountsInit
  <2>3. state \in [Browsers -> [Providers -> Nat]] /\ call = [c \in Calls |-> call[c]]
    BY DEF AccountsInit
  <2>4. \A b \in Browsers, p \in Providers : state[b][p] =< Len(challenges)
    BY DEF AccountsInit
  <2> QED
    BY <2>1, <2>2, <2>3, <2>4 DEF AnswersTyped
<1>2. SessionsAnswer /\ TokensAnswer /\ CallsAnswer
  BY DEF AccountsInit, SessionsAnswer, TokensAnswer, CallsAnswer, NoCall, At
<1> QED
  BY <1>1, <1>2 DEF AnswerInv

(* Steps that change neither sessions nor tokens. *)
LEMMA RequestsStep ==
  ASSUME AnswerInv, ChallengesStay, sessions' = sessions, tokens' = tokens,
         AnswersTyped', CallsAnswer'
  PROVE  AnswerInv'
<1>1. SessionsAnswer'
  BY DEF AnswerInv, AnswersTyped, SessionsAnswer, ChallengesStay, Used
<1>2. TokensAnswer'
  BY DEF AnswerInv, AnswersTyped, TokensAnswer, ChallengesStay, TokenFor, Used
<1> QED
  BY <1>1, <1>2 DEF AnswerInv

(* A request that ends, and requests that are left alone. *)
LEMMA OtherCalls ==
  ASSUME AnswerInv, ChallengesStay, NEW D \in SUBSET Calls,
         DOMAIN sessions' = DOMAIN sessions,
         \A s \in DOMAIN sessions : sessions'[s].by = sessions[s].by,
         \A c \in D : call'[c] = call[c],
         \A c \in Calls \ D : call'[c].pc \notin {"exchange", "follow", "refresh"}
  PROVE  CallsAnswer'
<1> SUFFICES ASSUME NEW c \in Calls
             PROVE  /\ At(c, "exchange")' =>
                         /\ Used(call[c].challenge)'
                         /\ call'[c].browser \in Browsers
                         /\ \A s \in DOMAIN sessions' : sessions'[s].by # call'[c].challenge
                         /\ \A d \in Calls :
                              At(d, "exchange")' /\ call'[d].challenge = call'[c].challenge => c = d
                    /\ At(c, "follow")' \/ At(c, "refresh")' =>
                         Carries(call[c])'
  BY DEF CallsAnswer
<1>1. CASE c \notin D
  BY <1>1 DEF At
<1>2. CASE c \in D
  <2>1. call'[c] = call[c]
    BY <1>2
  <2>2. ASSUME At(c, "exchange")'
        PROVE  /\ Used(call[c].challenge)'
               /\ call'[c].browser \in Browsers
               /\ \A s \in DOMAIN sessions' : sessions'[s].by # call'[c].challenge
    BY <2>1, <2>2 DEF AnswerInv, CallsAnswer, ChallengesStay, Used, At
  <2>3. ASSUME At(c, "exchange")', NEW d \in Calls, At(d, "exchange")',
               call'[d].challenge = call'[c].challenge
        PROVE  c = d
    <3>1. d \in D /\ call'[d] = call[d]
      BY <2>3 DEF At
    <3> QED
      BY <2>1, <2>3, <3>1 DEF AnswerInv, CallsAnswer, At
  <2>4. ASSUME At(c, "follow")' \/ At(c, "refresh")'
        PROVE  Carries(call[c])'
    BY <2>1, <2>4 DEF AnswerInv, CallsAnswer, ChallengesStay, Carries, TokenFor, Used, At
  <2> QED
    BY <2>2, <2>3, <2>4
<1> QED
  BY <1>1, <1>2

-----------------------------------------------------------------------------
(* Challenges are made, expire and are consumed. *)

LEMMA OAuthStartHolds ==
  ASSUME AnswerInv, NEW b \in Browsers, NEW provider \in Providers, OAuthStart(b, provider)
  PROVE  AnswerInv'
<1> DEFINE old == [n \in DOMAIN challenges |->
                     IF provider = "email" /\ n = state[b]["email"]
                     THEN [challenges[n] EXCEPT !.open = FALSE] ELSE challenges[n]]
           new == [provider |-> provider, open |-> TRUE,
                   connect |-> IF provider = "x" THEN cookie[b] ELSE 0]
<1>1. challenges' = Append(old, new)
  BY DEF OAuthStart
<1>2. challenges \in Seq(Challenge) /\ sessions \in Seq(Session)
  BY DEF AnswerInv, AnswersTyped
<1>3. ASSUME NEW n \in DOMAIN challenges
      PROVE  /\ old[n] \in Challenge
             /\ old[n].connect = challenges[n].connect
             /\ ~ challenges[n].open => ~ old[n].open
  <2>1. challenges[n] \in Challenge
    BY <1>2
  <2>2. old[n] = challenges[n] \/ old[n] = [challenges[n] EXCEPT !.open = FALSE]
    OBVIOUS
  <2> QED
    BY <2>1, <2>2 DEF Challenge
<1>4. old \in Seq(Challenge) /\ Len(old) = Len(challenges)
  BY <1>2, <1>3
<1>5. new \in Challenge
  BY <1>2 DEF OAuthStart, Live, Challenge
<1>6. ChallengesStay
  <2>1. challenges' \in Seq(Challenge) /\ Len(challenges') = Len(challenges) + 1
    BY <1>1, <1>4, <1>5
  <2>2. ASSUME NEW n \in DOMAIN challenges
        PROVE  n \in DOMAIN challenges' /\ challenges'[n] = old[n]
    BY <1>1, <1>2, <1>4, <2>1, <2>2
  <2>3. \A n \in DOMAIN challenges :
          /\ n \in DOMAIN challenges'
          /\ challenges'[n].connect = challenges[n].connect
          /\ ~ challenges[n].open => ~ challenges'[n].open
    BY <1>3, <2>2
  <2> QED
    BY <1>2, <2>1, <2>3 DEF ChallengesStay
<1>7. AnswersTyped'
  <2>1. Len(challenges) \in Nat /\ Len(challenges') = Len(challenges) + 1
    BY <1>1, <1>2, <1>4, <1>5
  <2>2. state' = [state EXCEPT ![b][provider] = Len(challenges) + 1]
    BY DEF OAuthStart
  <2>3. state' \in [Browsers -> [Providers -> Nat]]
    BY <2>1, <2>2 DEF AnswerInv, AnswersTyped
  <2>4. \A d \in Browsers, p \in Providers : state'[d][p] =< Len(challenges')
    BY <2>1, <2>2 DEF AnswerInv, AnswersTyped
  <2> QED
    BY <1>6, <2>3, <2>4 DEF AnswerInv, AnswersTyped, OAuthStart, ChallengesStay
<1>8. CallsAnswer'
  BY <1>6, OtherCalls DEF OAuthStart
<1> QED
  BY <1>6, <1>7, <1>8, RequestsStep DEF OAuthStart

LEMMA ConsumeKeeps ==
  ASSUME AnswerInv, NEW n \in Nat, ConsumeOauthChallenge(n)
  PROVE  /\ ChallengesStay /\ Len(challenges') = Len(challenges)
         /\ n \in DOMAIN challenges => n \in DOMAIN challenges' /\ ~ challenges'[n].open
<1>1. challenges \in Seq(Challenge)
  BY DEF AnswerInv, AnswersTyped
<1>2. challenges' = [challenges EXCEPT ![n].open = FALSE]
  BY DEF ConsumeOauthChallenge
<1>3. DOMAIN challenges' = DOMAIN challenges /\ challenges' \in [1 .. Len(challenges) -> Challenge]
  <2>1. challenges \in [1 .. Len(challenges) -> Challenge]
    BY <1>1
  <2>2. ASSUME NEW r \in Challenge
        PROVE  [r EXCEPT !.open = FALSE] \in Challenge
    BY DEF Challenge
  <2> QED
    BY <1>2, <2>1, <2>2
<1>4. challenges' \in Seq(Challenge) /\ Len(challenges') = Len(challenges)
  BY <1>1, <1>3
<1>5. ASSUME NEW m \in DOMAIN challenges
      PROVE  /\ challenges'[m].connect = challenges[m].connect
             /\ ~ challenges[m].open => ~ challenges'[m].open
             /\ m = n => ~ challenges'[m].open
  <2>1. challenges[m] \in Challenge
    BY <1>1
  <2>2. challenges'[m] = IF m = n THEN [challenges[m] EXCEPT !.open = FALSE] ELSE challenges[m]
    BY <1>2
  <2> QED
    BY <2>1, <2>2 DEF Challenge
<1> QED
  BY <1>1, <1>3, <1>4, <1>5 DEF ChallengesStay

LEMMA ExpiresHolds ==
  ASSUME AnswerInv, NEW n \in DOMAIN challenges, ChallengeExpires(n)
  PROVE  AnswerInv'
<1>1. n \in Nat
  BY DEF AnswerInv, AnswersTyped
<1>2. ChallengesStay /\ Len(challenges') = Len(challenges)
  BY <1>1, ConsumeKeeps DEF ChallengeExpires, ConsumeOauthChallenge
<1>3. AnswersTyped'
  BY <1>2 DEF AnswerInv, AnswersTyped, ChallengeExpires, ChallengesStay
<1>4. CallsAnswer'
  BY <1>2, OtherCalls DEF ChallengeExpires
<1> QED
  BY <1>2, <1>3, <1>4, RequestsStep DEF ChallengeExpires

(* What is open has no session and no request, so consuming it makes the   *)
(* request its only holder.                                                *)
LEMMA CallbackHolds ==
  ASSUME AnswerInv, NEW c \in Calls, NEW b \in Browsers, NEW provider \in Providers,
         OAuthCallback(c, b, provider)
  PROVE  AnswerInv'
<1> DEFINE n == state[b][provider]
<1>1. n \in DOMAIN challenges /\ n \in Nat
  BY DEF AnswerInv, AnswersTyped, OAuthCallback
<1>2. challenges[n].open
  BY DEF OAuthCallback, ConsumeOauthChallenge
<1>3. /\ ChallengesStay /\ Len(challenges') = Len(challenges)
      /\ n \in DOMAIN challenges' /\ ~ challenges'[n].open
  BY <1>1, ConsumeKeeps DEF OAuthCallback
<1>4. /\ call' = [call EXCEPT ![c] = [pc |-> "exchange", browser |-> b, challenge |-> n,
                                      session |-> cookie[b]]]
      /\ UNCHANGED <<sessions, tokens, state>>
  BY DEF OAuthCallback
<1>5. AnswersTyped'
  BY <1>3, <1>4 DEF AnswerInv, AnswersTyped, ChallengesStay
<1>6. \A d \in Calls \ {c} : call'[d] = call[d]
  BY <1>4 DEF AnswerInv, AnswersTyped
<1>7. /\ call'[c].pc = "exchange" /\ call'[c].browser = b
      /\ call'[c].challenge = n
  BY <1>4 DEF AnswerInv, AnswersTyped
<1>8. \A s \in DOMAIN sessions : sessions[s].by # n
  BY <1>2 DEF AnswerInv, SessionsAnswer, Used
<1>9. \A d \in Calls : At(d, "exchange") => call[d].challenge # n
  BY <1>2 DEF AnswerInv, CallsAnswer, Used
<1>10. CallsAnswer'
  <2> SUFFICES ASSUME NEW d \in Calls
               PROVE  /\ At(d, "exchange")' =>
                           /\ Used(call[d].challenge)'
                           /\ call'[d].browser \in Browsers
                           /\ \A s \in DOMAIN sessions' : sessions'[s].by # call'[d].challenge
                           /\ \A e \in Calls :
                                At(e, "exchange")' /\ call'[e].challenge = call'[d].challenge => d = e
                      /\ At(d, "follow")' \/ At(d, "refresh")' =>
                           Carries(call[d])'
    BY DEF CallsAnswer
  <2>1. CASE d = c
    <3>1. \A e \in Calls : At(e, "exchange")' /\ call'[e].challenge = n => e = c
      BY <1>6, <1>9 DEF At
    <3>2. Used(call[d].challenge)'
      BY <1>3, <1>7, <2>1 DEF Used
    <3> QED
      BY <1>4, <1>7, <1>8, <2>1, <3>1, <3>2 DEF At
  <2>2. CASE d # c
    <3>1. call'[d] = call[d]
      BY <1>6, <2>2
    <3>2. ASSUME At(d, "exchange")'
          PROVE  /\ Used(call[d].challenge)' /\ call'[d].browser \in Browsers
                 /\ \A s \in DOMAIN sessions' : sessions'[s].by # call'[d].challenge
      BY <1>3, <1>4, <3>1, <3>2 DEF AnswerInv, CallsAnswer, ChallengesStay, Used, At
    <3>3. ASSUME At(d, "exchange")', NEW e \in Calls, At(e, "exchange")',
                 call'[e].challenge = call'[d].challenge
          PROVE  d = e
      <4>1. At(d, "exchange") /\ call[d].challenge # n
        BY <1>9, <3>1, <3>3 DEF At
      <4>2. e # c
        BY <1>7, <3>1, <3>3, <4>1
      <4>3. call'[e] = call[e]
        BY <1>6, <4>2
      <4> QED
        BY <3>1, <3>3, <4>1, <4>3 DEF AnswerInv, CallsAnswer, At
    <3>4. ASSUME At(d, "follow")' \/ At(d, "refresh")'
          PROVE  Carries(call[d])'
      BY <1>3, <3>1, <3>4 DEF AnswerInv, CallsAnswer, ChallengesStay, Carries, TokenFor, Used, At
    <3> QED
      BY <3>2, <3>3, <3>4
  <2> QED
    BY <2>1, <2>2
<1> QED
  BY <1>3, <1>4, <1>5, <1>10, RequestsStep

-----------------------------------------------------------------------------
(* Requests come back. *)

LEMMA SameChallenges == ASSUME AnswerInv, UNCHANGED challenges PROVE ChallengesStay
BY DEF AnswerInv, AnswersTyped, ChallengesStay

LEMMA StateCleared ==
  ASSUME AnswerInv, NEW b, NEW p, state' = [state EXCEPT ![b][p] = 0],
         UNCHANGED challenges
  PROVE  /\ state' \in [Browsers -> [Providers -> Nat]]
         /\ \A d \in Browsers, q \in Providers : state'[d][q] =< Len(challenges')
<1>1. /\ state \in [Browsers -> [Providers -> Nat]] /\ Len(challenges) \in Nat
      /\ \A d \in Browsers, q \in Providers : state[d][q] =< Len(challenges)
  BY DEF AnswerInv, AnswersTyped
<1>2. \A d \in Browsers :
        state'[d] = IF d = b THEN [state[d] EXCEPT ![p] = 0] ELSE state[d]
  BY <1>1
<1>3. \A d \in Browsers :
        /\ state'[d] \in [Providers -> Nat]
        /\ \A q \in Providers : state'[d][q] = 0 \/ state'[d][q] = state[d][q]
  BY <1>1, <1>2
<1>4. state' \in [Browsers -> [Providers -> Nat]]
  BY <1>1, <1>3
<1> QED
  BY <1>1, <1>3, <1>4

(* A new session takes the challenge its request held alone. *)
LEMMA LoginHolds ==
  ASSUME AnswerInv, NEW c \in Calls, NEW w \in Wallets, NEW x \in XIds \cup {None},
         LoggedIn(c, w, x)
  PROVE  AnswerInv'
<1> DEFINE n == call[c].challenge
           new == [wallet |-> w, live |-> TRUE, by |-> n]
           fresh == Len(sessions) + 1
<1>1. /\ challenges' = challenges
      /\ sessions' = Append(sessions, new)
      /\ tokens' = [t \in DOMAIN sessions' |-> IF t = 0 THEN NoToken ELSE TokenOf(t)]
      /\ call' = [call EXCEPT ![c] = NoCall]
      /\ state' = [state EXCEPT ![call[c].browser][challenges[n].provider] = 0]
  BY DEF LoggedIn, SaveToken, Returned, End
<1>2. /\ Used(n) /\ n \in Nat
      /\ \A s \in DOMAIN sessions : sessions[s].by # n
      /\ \A d \in Calls \ {c} : At(d, "exchange") => call[d].challenge # n
  BY DEF AnswerInv, AnswersTyped, CallsAnswer, LoggedIn, Used
<1>3. ChallengesStay
  BY <1>1, SameChallenges
<1>4. new \in Session /\ sessions \in Seq(Session)
  BY <1>2 DEF AnswerInv, AnswersTyped, Session
<1>5. /\ sessions' \in Seq(Session) /\ DOMAIN sessions' = DOMAIN sessions \cup {fresh}
      /\ fresh \notin DOMAIN sessions
      /\ sessions'[fresh] = new
      /\ \A s \in DOMAIN sessions : sessions'[s] = sessions[s]
  BY <1>1, <1>4
<1>6. /\ \A s \in DOMAIN sessions : tokens'[s] = tokens[s]
      /\ tokens'[fresh] = NoToken
      /\ tokens' \in [DOMAIN sessions' -> Token]
  <2>1. tokens \in [DOMAIN sessions -> Token] /\ NoToken \in Token
    BY DEF AnswerInv, AnswersTyped, NoToken, Token
  <2>2. 0 \notin DOMAIN sessions'
    BY <1>5
  <2> QED
    BY <1>1, <1>5, <2>1, <2>2 DEF TokenOf
<1>7. AnswersTyped'
  BY <1>1, <1>5, <1>6, StateCleared DEF AnswerInv, AnswersTyped
<1>8. SessionsAnswer'
  <2>1. ASSUME NEW s \in DOMAIN sessions'
        PROVE  Used(sessions[s].by)'
    BY <1>1, <1>2, <1>5, <2>1 DEF AnswerInv, SessionsAnswer, Used
  <2>2. ASSUME NEW s \in DOMAIN sessions', NEW t \in DOMAIN sessions',
               sessions'[s].by = sessions'[t].by
        PROVE  s = t
    BY <1>2, <1>5, <2>2 DEF AnswerInv, SessionsAnswer
  <2> QED
    BY <2>1, <2>2 DEF SessionsAnswer
<1>9. TokensAnswer'
  BY <1>1, <1>5, <1>6 DEF AnswerInv, TokensAnswer, TokenFor, Used
<1>10. CallsAnswer'
  <2>1. call'[c].pc = "free" /\ \A d \in Calls \ {c} : call'[d] = call[d]
    BY <1>1 DEF AnswerInv, AnswersTyped, NoCall
  <2> SUFFICES ASSUME NEW d \in Calls \ {c}
               PROVE  /\ At(d, "exchange") =>
                           /\ Used(n) /\ Used(call[d].challenge)'
                           /\ call[d].browser \in Browsers
                           /\ \A s \in DOMAIN sessions' : sessions'[s].by # call[d].challenge
                           /\ \A e \in Calls \ {c} :
                                At(e, "exchange") /\ call[e].challenge = call[d].challenge => d = e
                      /\ At(d, "follow") \/ At(d, "refresh") =>
                           Carries(call[d])'
    BY <2>1, <1>2 DEF CallsAnswer, At
  <2>2. call'[d] = call[d]
    BY <2>1
  <2>3. ASSUME At(d, "exchange")
        PROVE  \A s \in DOMAIN sessions' : sessions'[s].by # call[d].challenge
    BY <1>2, <1>5, <2>3 DEF AnswerInv, CallsAnswer
  <2>4. Used(call[d].challenge)' <=> Used(call[d].challenge)
    BY <1>1, <2>2 DEF Used
  <2>5. Carries(call[d])' <=> Carries(call[d])
    BY <1>1, <2>2 DEF Carries, TokenFor, Used
  <2> QED
    BY <1>2, <2>3, <2>4, <2>5 DEF AnswerInv, CallsAnswer
<1> QED
  BY <1>7, <1>8, <1>9, <1>10 DEF AnswerInv

-----------------------------------------------------------------------------
(* Everything else: the challenges stay, sessions keep theirs, a token is  *)
(* one that was there or one that a request had, and requests end or go on *)
(* with their token.                                                       *)

LEMMA TokensStep ==
  ASSUME AnswerInv, UNCHANGED challenges,
         sessions' \in Seq(Session), DOMAIN sessions' = DOMAIN sessions,
         \A s \in DOMAIN sessions : sessions'[s].by = sessions[s].by,
         tokens' \in [DOMAIN sessions' -> Token],
         \A s \in DOMAIN sessions : tokens'[s] # NoToken => TokenFor(s, tokens'[s]),
         state' \in [Browsers -> [Providers -> Nat]],
         \A b \in Browsers, p \in Providers : state'[b][p] =< Len(challenges'),
         call' = [c \in Calls |-> call'[c]], CallsAnswer'
  PROVE  AnswerInv'
<1>1. AnswersTyped'
  BY DEF AnswerInv, AnswersTyped
<1>2. SessionsAnswer'
  BY DEF AnswerInv, SessionsAnswer, Used
<1>3. TokensAnswer'
  BY DEF TokensAnswer, TokenFor, Used
<1> QED
  BY <1>1, <1>2, <1>3 DEF AnswerInv

LEMMA ConnectHolds ==
  ASSUME AnswerInv, NEW c \in Calls, NEW x \in XIds, Connected(c, x)
  PROVE  AnswerInv'
<1> DEFINE s == call[c].session
           n == call[c].challenge
           token == [x |-> x, fresh |-> TRUE, by |-> n]
<1>1. /\ challenges' = challenges /\ sessions' = sessions
      /\ tokens' = [t \in DOMAIN sessions |-> IF t = s THEN token ELSE TokenOf(t)]
      /\ call' = [call EXCEPT ![c] = NoCall]
      /\ state' = [state EXCEPT ![call[c].browser][challenges[n].provider] = 0]
  BY DEF Connected, SaveToken, Returned, End
<1>2. Used(n) /\ challenges[n].connect = s /\ n \in Nat
  BY DEF AnswerInv, AnswersTyped, CallsAnswer, Connected, Used
<1>3. TokenFor(s, token)
  BY <1>2 DEF TokenFor, Token
<1>4. \A t \in DOMAIN sessions : tokens'[t] = IF t = s THEN token ELSE tokens[t]
  BY <1>1 DEF TokenOf, AnswerInv, AnswersTyped
<1>5. tokens' \in [DOMAIN sessions' -> Token]
  BY <1>1, <1>3, <1>4 DEF AnswerInv, AnswersTyped, TokenFor
<1>6. \A t \in DOMAIN sessions : tokens'[t] # NoToken => TokenFor(t, tokens'[t])
  BY <1>3, <1>4 DEF AnswerInv, TokensAnswer
<1>7. CallsAnswer'
  <2>1. /\ \A d \in Calls \ {c} : call'[d] = call[d]
        /\ call'[c].pc = "free"
    BY <1>1 DEF AnswerInv, AnswersTyped, NoCall
  <2> QED
    BY <1>1, <2>1, SameChallenges, OtherCalls
<1> QED
  BY <1>1, <1>5, <1>6, <1>7, StateCleared, TokensStep DEF AnswerInv, AnswersTyped

LEMMA FailsHolds ==
  ASSUME AnswerInv, NEW c \in Calls, ExchangeFails(c)
  PROVE  AnswerInv'
<1>1. /\ UNCHANGED <<challenges, sessions, tokens>>
      /\ call' = [call EXCEPT ![c] = NoCall]
      /\ state' = [state EXCEPT ![call[c].browser][challenges[call[c].challenge].provider] = 0]
  BY DEF ExchangeFails, Returned, End
<1>2. /\ \A d \in Calls \ {c} : call'[d] = call[d]
      /\ call'[c].pc = "free"
  BY <1>1 DEF AnswerInv, AnswersTyped, NoCall
<1>3. CallsAnswer'
  BY <1>1, <1>2, SameChallenges, OtherCalls
<1>4. AnswersTyped'
  BY <1>1, StateCleared DEF AnswerInv, AnswersTyped
<1> QED
  BY <1>1, <1>3, <1>4, SameChallenges, RequestsStep

(* Sessions end, tokens age or are dropped, the server restarts. *)
LEMMA SessionsHold ==
  ASSUME AnswerInv,
         \/ FlushQueue \/ ServerRestarts
         \/ \E b \in Browsers : Logout(b)
         \/ \E s \in DOMAIN sessions : SessionExpires(s) \/ TokenAges(s)
  PROVE  AnswerInv'
<1>1. CASE FlushQueue
  <2>1. UNCHANGED <<challenges, sessions, tokens, state, call>>
    BY <1>1 DEF FlushQueue
  <2>2. CallsAnswer'
    BY <2>1, SameChallenges, OtherCalls
  <2>3. AnswersTyped'
    BY <2>1 DEF AnswerInv, AnswersTyped
  <2> QED
    BY <2>1, <2>2, <2>3, SameChallenges, RequestsStep
<1>2. CASE ServerRestarts
  <2>1. /\ UNCHANGED <<challenges, sessions, tokens, state>>
        /\ call' = [c \in Calls |-> NoCall]
    BY <1>2 DEF ServerRestarts
  <2>2. \A c \in Calls : call'[c].pc = "free"
    BY <2>1 DEF NoCall
  <2>3. CallsAnswer'
    BY <2>2 DEF CallsAnswer, At
  <2>4. AnswersTyped'
    BY <2>1 DEF AnswerInv, AnswersTyped
  <2> QED
    BY <2>1, <2>3, <2>4, SameChallenges, RequestsStep
<1>3. ASSUME NEW s, sessions' = sessions \/ sessions' = [sessions EXCEPT ![s].live = FALSE],
             \/ tokens' = tokens
             \/ tokens' = [tokens EXCEPT ![s] = NoToken]
             \/ tokens[s].fresh /\ s \in DOMAIN sessions /\ tokens' = [tokens EXCEPT ![s].fresh = FALSE],
             UNCHANGED <<challenges, state, call>>
      PROVE  AnswerInv'
  <2>1. /\ sessions \in [1 .. Len(sessions) -> Session] /\ sessions \in Seq(Session)
        /\ tokens \in [DOMAIN sessions -> Token]
    BY DEF AnswerInv, AnswersTyped
  <2>2. \A r \in Session : [r EXCEPT !.live = FALSE] \in Session /\ [r EXCEPT !.live = FALSE].by = r.by
    BY DEF Session
  <2>3. /\ sessions' \in [1 .. Len(sessions) -> Session]
        /\ \A t \in DOMAIN sessions : sessions'[t].by = sessions[t].by
    <3>1. CASE sessions' = sessions
      BY <2>1, <3>1
    <3>2. CASE sessions' = [sessions EXCEPT ![s].live = FALSE]
      <4>1. \A t \in 1 .. Len(sessions) :
              sessions'[t] = IF t = s THEN [sessions[t] EXCEPT !.live = FALSE] ELSE sessions[t]
        BY <2>1, <3>2
      <4>2. \A t \in 1 .. Len(sessions) :
              sessions'[t] \in Session /\ sessions'[t].by = sessions[t].by
        BY <2>1, <2>2, <4>1
      <4>3. sessions' = [t \in 1 .. Len(sessions) |-> sessions'[t]]
        BY <2>1, <3>2
      <4> QED
        BY <2>1, <4>2, <4>3
    <3> QED
      BY <1>3, <3>1, <3>2
  <2>4. sessions' \in Seq(Session) /\ DOMAIN sessions' = DOMAIN sessions
    BY <2>1, <2>3
  <2>5. /\ NoToken \in Token
        /\ \A r \in Token : [r EXCEPT !.fresh = FALSE] \in Token /\ [r EXCEPT !.fresh = FALSE].by = r.by
    BY DEF NoToken, Token
  <2>6. ASSUME NEW t \in DOMAIN sessions
        PROVE  /\ tokens'[t] \in Token
               /\ tokens'[t] # NoToken => TokenFor(t, tokens'[t])
    <3>1. CASE tokens'[t] = tokens[t]
      BY <2>1, <3>1 DEF AnswerInv, TokensAnswer
    <3>2. CASE tokens'[t] = NoToken
      BY <2>5, <3>2
    <3>3. CASE tokens[t].fresh /\ tokens'[t] = [tokens[t] EXCEPT !.fresh = FALSE]
      <4>1. tokens[t] # NoToken
        BY <3>3 DEF NoToken
      <4>2. TokenFor(t, tokens[t])
        BY <4>1 DEF AnswerInv, TokensAnswer
      <4> QED
        BY <2>5, <3>3, <4>2 DEF TokenFor
    <3> QED
      BY <1>3, <2>1, <3>1, <3>2, <3>3
  <2>7. DOMAIN tokens' = DOMAIN tokens /\ tokens' = [t \in DOMAIN tokens' |-> tokens'[t]]
    BY <1>3, <2>1
  <2>8. tokens' \in [DOMAIN sessions' -> Token]
    BY <2>1, <2>4, <2>6, <2>7
  <2>9. CallsAnswer'
    BY <1>3, <2>3, <2>4, SameChallenges, OtherCalls
  <2> QED
    BY <1>3, <2>3, <2>4, <2>6, <2>8, <2>9, TokensStep DEF AnswerInv, AnswersTyped
<1>4. CASE \E b \in Browsers : Logout(b)
  BY <1>3, <1>4 DEF Logout
<1>5. CASE \E s \in DOMAIN sessions : SessionExpires(s) \/ TokenAges(s)
  BY <1>3, <1>5 DEF SessionExpires, TokenAges
<1> QED
  BY <1>1, <1>2, <1>4, <1>5

-----------------------------------------------------------------------------
(* The gate: requests that carry a token on, save it, or only end. *)

LEMMA CarriesOn ==
  ASSUME NEW r, Carries(r), NEW pc \in {"follow", "refresh"}
  PROVE  /\ Carries([r EXCEPT !.pc = pc])
         /\ [r EXCEPT !.pc = pc].pc = pc
BY DEF Carries

(* One request changes; the tokens are those there were, or one of them is *)
(* that of the request.                                                    *)
LEMMA RequestHolds ==
  ASSUME AnswerInv, NEW c \in Calls, NEW r,
         call' = [call EXCEPT ![c] = r], UNCHANGED <<challenges, sessions, state>>,
         \/ r.pc \notin {"exchange", "follow", "refresh"}
         \/ r.pc \in {"follow", "refresh"} /\ Carries(r),
         tokens' \in [DOMAIN sessions -> Token],
         \A s \in DOMAIN sessions : tokens'[s] # NoToken => TokenFor(s, tokens'[s])
  PROVE  AnswerInv'
<1>1. /\ \A d \in Calls \ {c} : call'[d] = call[d]
      /\ call'[c] = r
      /\ call' = [d \in Calls |-> call'[d]]
  BY DEF AnswerInv, AnswersTyped
<1>2. \A d \in Calls : At(d, "exchange")' => d # c /\ At(d, "exchange") /\ call'[d] = call[d]
  BY <1>1 DEF At
<1>3. ASSUME NEW d \in Calls, At(d, "exchange")'
      PROVE  /\ Used(call[d].challenge)'
             /\ call'[d].browser \in Browsers
             /\ \A s \in DOMAIN sessions' : sessions'[s].by # call'[d].challenge
             /\ \A e \in Calls :
                  At(e, "exchange")' /\ call'[e].challenge = call'[d].challenge => d = e
  BY <1>2, <1>3 DEF AnswerInv, CallsAnswer, Used
<1>4. ASSUME NEW d \in Calls, At(d, "follow")' \/ At(d, "refresh")'
      PROVE  Carries(call[d])'
  <2>1. CASE d = c
    BY <1>1, <1>4, <2>1 DEF Carries, TokenFor, Used, At
  <2>2. CASE d # c
    BY <1>1, <1>4, <2>2 DEF AnswerInv, CallsAnswer, Carries, TokenFor, Used, At
  <2> QED
    BY <2>1, <2>2
<1>5. CallsAnswer'
  BY <1>3, <1>4 DEF CallsAnswer
<1> QED
  BY <1>1, <1>5, TokensStep DEF AnswerInv, AnswersTyped

LEMMA GateHolds ==
  ASSUME AnswerInv, GateSteps
  PROVE  AnswerInv'
<1>1. PICK c \in Calls :
        \/ \E b \in Browsers : VerifyXFollow(c, b)
        \/ RefreshXToken(c)
        \/ TokenRejected(c)
        \/ FollowAnswered(c) \/ RefreshXTokenFails(c) \/ EligibilityFails(c)
        \/ \E eligible \in BOOLEAN, uid \in Uids \cup {None} : EligibilityAnswered(c, eligible, uid)
        \/ \E b \in Browsers : VerifyEligibility(c, b)
  BY DEF GateSteps
<1>2. /\ tokens \in [DOMAIN sessions -> Token]
      /\ \A s \in DOMAIN sessions : tokens[s] # NoToken => TokenFor(s, tokens[s])
      /\ At(c, "follow") \/ At(c, "refresh") => Carries(call[c])
  BY DEF AnswerInv, AnswersTyped, TokensAnswer, CallsAnswer
<1>3. CASE \E b \in Browsers : VerifyXFollow(c, b)
  <2>1. PICK b \in Browsers : VerifyXFollow(c, b)
    BY <1>3
  <2> DEFINE s == cookie[b]
             r == [pc |-> IF tokens[s].fresh THEN "follow" ELSE "refresh",
                   session |-> s, token |-> tokens[s], asked |-> FALSE]
  <2>2. call' = [call EXCEPT ![c] = r] /\ UNCHANGED <<challenges, sessions, tokens, state>>
    BY <2>1 DEF VerifyXFollow
  <2>3. s \in DOMAIN sessions /\ tokens[s] # NoToken
    BY <2>1 DEF VerifyXFollow, TokenOf, Live
  <2>4. r.pc \in {"follow", "refresh"} /\ Carries(r)
    BY <1>2, <2>3 DEF Carries
  <2> HIDE DEF r
  <2> QED
    BY <1>2, <2>2, <2>4, RequestHolds
<1>4. CASE RefreshXToken(c)
  <2> DEFINE s == call[c].session
             token == [call[c].token EXCEPT !.fresh = TRUE]
             r == [call[c] EXCEPT !.pc = "follow"]
  <2>1. /\ UNCHANGED <<challenges, sessions, state>>
        /\ tokens' = [t \in DOMAIN sessions |-> IF t = s THEN token ELSE TokenOf(t)]
        /\ call' = [call EXCEPT ![c] = r]
        /\ At(c, "refresh")
    BY <1>4 DEF RefreshXToken, SaveToken
  <2>2. Carries(call[c])
    BY <1>2, <2>1
  <2>3. r.pc = "follow" /\ Carries(r)
    BY <2>2, CarriesOn
  <2>4. TokenFor(s, token)
    BY <2>2 DEF Carries, TokenFor, Token
  <2>5. \A t \in DOMAIN sessions : tokens'[t] = IF t = s THEN token ELSE tokens[t]
    BY <2>1 DEF TokenOf, AnswerInv, AnswersTyped
  <2>6. tokens' \in [DOMAIN sessions -> Token]
    BY <1>2, <2>1, <2>4, <2>5 DEF TokenFor
  <2>7. \A t \in DOMAIN sessions : tokens'[t] # NoToken => TokenFor(t, tokens'[t])
    BY <1>2, <2>4, <2>5
  <2> HIDE DEF r
  <2> QED
    BY <2>1, <2>3, <2>6, <2>7, RequestHolds
<1>5. CASE TokenRejected(c)
  <2> DEFINE s == call[c].session
             r == [[[call[c] EXCEPT !.pc = "refresh"] EXCEPT !.asked = TRUE] EXCEPT !.token = tokens[s]]
  <2>1. /\ UNCHANGED <<challenges, sessions, tokens, state>>
        /\ call' = [[[call EXCEPT ![c].pc = "refresh"] EXCEPT ![c].asked = TRUE]
                      EXCEPT ![c].token = tokens[s]]
        /\ At(c, "follow")
        /\ s \in DOMAIN sessions /\ tokens[s] # NoToken
    BY <1>2, <1>5 DEF TokenRejected, TokenOf
  <2>2. Carries(call[c]) /\ TokenFor(s, tokens[s])
    BY <1>2, <2>1
  <2>3. r.pc = "refresh" /\ Carries(r)
    <3>1. /\ {"pc", "session", "token", "asked"} \subseteq DOMAIN call[c]
          /\ DOMAIN r = DOMAIN call[c]
      BY <2>2 DEF Carries
    <3>2. r.pc = "refresh" /\ r.session = s /\ r.token = tokens[s]
      BY <3>1
    <3> HIDE DEF r
    <3> QED
      BY <2>2, <3>1, <3>2 DEF Carries
  <2>4. call' = [call EXCEPT ![c] = r]
    BY <2>1 DEF AnswerInv, AnswersTyped
  <2> HIDE DEF r
  <2> QED
    BY <1>2, <2>1, <2>3, <2>4, RequestHolds
<1>6. CASE \/ FollowAnswered(c) \/ RefreshXTokenFails(c) \/ EligibilityFails(c)
           \/ \E eligible \in BOOLEAN, uid \in Uids \cup {None} : EligibilityAnswered(c, eligible, uid)
  <2>1. call' = [call EXCEPT ![c] = NoCall] /\ UNCHANGED <<challenges, sessions, tokens, state>>
    BY <1>6 DEF FollowAnswered, RefreshXTokenFails, SaveFollow, EligibilityFails, EligibilityAnswered, End
  <2>2. NoCall.pc \notin {"exchange", "follow", "refresh"}
    BY DEF NoCall
  <2> QED
    BY <1>2, <2>1, <2>2, RequestHolds
<1>7. CASE \E b \in Browsers : VerifyEligibility(c, b)
  <2>1. PICK b \in Browsers : VerifyEligibility(c, b)
    BY <1>7
  <2> DEFINE key == <<sessions[cookie[b]].wallet, XOf(cookie[b])>>
             r == [pc |-> "eligible", key |-> key, claimed |-> {uid \in Uids : Claimed(key, uid)}]
  <2>2. call' = [call EXCEPT ![c] = r] /\ UNCHANGED <<challenges, sessions, tokens, state>>
    BY <2>1 DEF VerifyEligibility
  <2>3. r.pc \notin {"exchange", "follow", "refresh"}
    OBVIOUS
  <2> HIDE DEF r
  <2> QED
    BY <1>2, <2>2, <2>3, RequestHolds
<1> QED
  BY <1>1, <1>3, <1>4, <1>5, <1>6, <1>7

LEMMA AnswerStep == AnswerInv /\ [GateNext]_gateSpecVars => AnswerInv'
<1> SUFFICES ASSUME AnswerInv, [GateNext]_gateSpecVars
             PROVE  AnswerInv'
  OBVIOUS
<1>1. CASE UNCHANGED gateSpecVars
  BY <1>1 DEF gateSpecVars, accountVars, AnswerInv, AnswersTyped, SessionsAnswer, TokensAnswer,
              CallsAnswer, Carries, TokenFor, Used, At
<1>2. CASE AccountSteps
  BY <1>2, OAuthStartHolds, CallbackHolds, ExpiresHolds, LoginHolds, ConnectHolds, FailsHolds, SessionsHold
     DEF AccountSteps
<1>3. CASE GateSteps
  BY <1>3, GateHolds
<1> QED
  BY <1>1, <1>2, <1>3 DEF GateNext

(* No reload, second tab, slow provider or restart turns one round trip to *)
(* a provider into two sessions, or connects an X account to a session     *)
(* that did not ask for it.                                                *)
THEOREM AnswersCorrect == GateSpec => []OneAnswerPerChallenge
<1>1. AnswerInv => OneAnswerPerChallenge
  <2> SUFFICES ASSUME AnswerInv PROVE OneAnswerPerChallenge
    OBVIOUS
  <2>1. \A s \in DOMAIN sessions : tokens[s] # NoToken =>
          tokens[s].by # 0 /\ challenges[tokens[s].by].connect = s
    BY DEF AnswerInv, AnswersTyped, TokensAnswer, TokenFor, Used
  <2>2. \A s \in DOMAIN sessions : tokens[s] = NoToken => tokens[s].by = 0
    BY DEF NoToken
  <2> QED
    BY <2>1, <2>2 DEF AnswerInv, SessionsAnswer, OneAnswerPerChallenge
<1> QED
  BY AnswerInit, AnswerStep, <1>1, PTL DEF GateSpec, gateSpecVars

-----------------------------------------------------------------------------
(* A UID stands for one voter: inductive with the type of the records. *)

Check == [eligible : BOOLEAN, uid : Uids \cup {None}]

UidInv ==
  /\ checks \in [Wallets \X XIds -> Check]
  /\ OneUidPerVoter

LEMMA UidInit == GateInit => UidInv
  BY DEF GateInit, UidInv, Check, OneUidPerVoter

LEMMA AnswerHolds ==
  ASSUME UidInv, NEW c \in Calls, NEW eligible \in BOOLEAN, NEW uid \in Uids \cup {None},
         EligibilityAnswered(c, eligible, uid)
  PROVE  UidInv'
<1>1. CASE UidConflict(c, uid)
  BY <1>1 DEF EligibilityAnswered, UidInv, OneUidPerVoter
<1>2. CASE ~ UidConflict(c, uid)
  <2> DEFINE key == call[c].key
             new == [eligible |-> eligible, uid |-> uid]
  <2>1. checks' = [checks EXCEPT ![key] = new] /\ new \in Check
    BY <1>2 DEF EligibilityAnswered, Check
  <2>2. checks' \in [Wallets \X XIds -> Check]
    BY <2>1 DEF UidInv
  <2>3. \A k \in DOMAIN checks \ {key} :
          uid # None /\ checks[k].uid # None => ~ (checks[k].uid = uid \/ k[1] = key[1])
    BY <1>2 DEF UidConflict, Claimed
  <2>4. ASSUME NEW k \in DOMAIN checks', NEW l \in DOMAIN checks', k # l,
               checks'[k].uid # None, checks'[l].uid # None
        PROVE  checks'[k].uid # checks'[l].uid /\ k[1] # l[1]
    <3>1. CASE k # key /\ l # key
      BY <2>1, <2>4, <3>1 DEF UidInv, OneUidPerVoter
    <3>2. CASE k = key
      <4>1. checks'[l] = checks[l] /\ checks'[k].uid = uid
        BY <2>1, <2>4, <3>2 DEF UidInv
      <4>2. l \in DOMAIN checks \ {key} /\ uid # None /\ checks[l].uid # None
        BY <2>1, <2>4, <3>2, <4>1
      <4>3. ~ (checks[l].uid = uid \/ l[1] = key[1])
        BY <2>3, <4>2
      <4> QED
        BY <3>2, <4>1, <4>3
    <3>3. CASE l = key
      <4>1. checks'[k] = checks[k] /\ checks'[l].uid = uid
        BY <2>1, <2>4, <3>3 DEF UidInv
      <4>2. k \in DOMAIN checks \ {key} /\ uid # None /\ checks[k].uid # None
        BY <2>1, <2>4, <3>3, <4>1
      <4>3. ~ (checks[k].uid = uid \/ k[1] = key[1])
        BY <2>3, <4>2
      <4> QED
        BY <3>3, <4>1, <4>3
    <3> QED
      BY <3>1, <3>2, <3>3
  <2> QED
    BY <2>2, <2>4 DEF UidInv, OneUidPerVoter
<1> QED
  BY <1>1, <1>2

LEMMA UidStep == UidInv /\ [GateNext]_gateSpecVars => UidInv'
<1> SUFFICES ASSUME UidInv, [GateNext]_gateSpecVars
             PROVE  UidInv'
  OBVIOUS
<1>1. CASE UNCHANGED checks
  BY <1>1 DEF UidInv, OneUidPerVoter
<1>2. CASE UNCHANGED gateSpecVars
  BY <1>1, <1>2 DEF gateSpecVars, gateVars
<1>3. CASE AccountSteps /\ UNCHANGED gateVars
  BY <1>1, <1>3 DEF gateVars
<1>4. CASE GateSteps
  <2>1. PICK c \in Calls :
          \/ \E b \in Browsers : VerifyXFollow(c, b) \/ VerifyEligibility(c, b)
          \/ RefreshXToken(c) \/ TokenRejected(c) \/ FollowAnswered(c) \/ RefreshXTokenFails(c)
          \/ \E eligible \in BOOLEAN, uid \in Uids \cup {None} : EligibilityAnswered(c, eligible, uid)
          \/ EligibilityFails(c)
    BY <1>4 DEF GateSteps
  <2>2. CASE \E eligible \in BOOLEAN, uid \in Uids \cup {None} : EligibilityAnswered(c, eligible, uid)
    BY <2>2, AnswerHolds
  <2>3. CASE \E b \in Browsers : VerifyXFollow(c, b) \/ VerifyEligibility(c, b)
    BY <1>1, <2>3 DEF VerifyXFollow, VerifyEligibility, gateVars
  <2>4. CASE RefreshXToken(c) \/ TokenRejected(c) \/ EligibilityFails(c)
    BY <1>1, <2>4 DEF RefreshXToken, TokenRejected, EligibilityFails, gateVars
  <2>5. CASE FollowAnswered(c) \/ RefreshXTokenFails(c)
    BY <1>1, <2>5 DEF FollowAnswered, RefreshXTokenFails, SaveFollow, gateVars
  <2> QED
    BY <2>1, <2>2, <2>3, <2>4, <2>5
<1> QED
  BY <1>2, <1>3, <1>4 DEF GateNext

(* However many requests are answered in whatever order, no Firefly UID    *)
(* lets two voters in, and no wallet has two.                              *)
THEOREM UidsCorrect == GateSpec => []OneUidPerVoter
<1>1. UidInv => OneUidPerVoter
  BY DEF UidInv
<1> QED
  BY UidInit, UidStep, <1>1, PTL DEF GateSpec, gateSpecVars

-----------------------------------------------------------------------------
(* The follower sync. *)

(* What a run keeps. *)
Fields == DOMAIN NoRun

(* A delta run that nobody overtook carries the promise of the cache. *)
CopyIsRight(r) ==
  run[r].mode # "full" /\ ~run[r].stale /\ "overlap" \notin doubts
    => run[r].cache \subseteq Followers \cup left

(* A full run has seen only followers, or who left since it began. *)
SeenIsRight(r) ==
  run[r].mode = "full" => run[r].seen \subseteq Followers \cup run[r].left

RunOK(r) ==
  /\ DOMAIN run[r] = Fields
  /\ run[r].pc # "idle" => CopyIsRight(r) /\ SeenIsRight(r)

(* The promise of the cache, and of every copy of it that may be saved. *)
FInv ==
  /\ since \in [Users -> Int] /\ DOMAIN run = Runners /\ changes \in Nat
  /\ \A r \in Runners : RunOK(r)
  /\ CachedFollowersFollow

(* A runner that has no run is idle. *)
LEMMA NoRunIsIdle ==
  /\ DOMAIN NoRun = {"pc", "mode", "cache", "seen", "token", "pages", "cut", "stale", "left", "moved"}
  /\ NoRun.pc = "idle"
  BY DEF NoRun

(* At first nothing is cached and nobody runs. *)
LEMMA FollowerInitHolds == FollowerInit => FInv
  BY NoRunIsIdle DEF FollowerInit, FInv, RunOK, CachedFollowersFollow, Fields

(* What a change at X leaves of a run: its mode, its cache and its age. *)
LEMMA MovedKeeps ==
  ASSUME FInv, NEW u, NEW leaves \in BOOLEAN, Moved(u, leaves), NEW r \in Runners
  PROVE  /\ DOMAIN run' = Runners /\ DOMAIN run'[r] = Fields
         /\ run'[r].pc = run[r].pc /\ run'[r].mode = run[r].mode
         /\ run'[r].cache = run[r].cache /\ run'[r].seen = run[r].seen
         /\ run'[r].stale = run[r].stale
         /\ run[r].left \subseteq run'[r].left
         /\ leaves /\ run[r].pc # "idle" /\ run[r].mode = "full" => u \in run'[r].left
  BY NoRunIsIdle DEF Moved, FInv, RunOK, Fields

(* Who follows now is no reason to doubt a cache. *)
LEMMA FollowHolds ==
  ASSUME FInv, NEW u \in Users, Follow(u)
  PROVE  FInv'
<1>1. since' \in [Users -> Int] /\ changes' \in Nat
  BY DEF FInv, Follow
<1>2. Followers \subseteq Followers'
  BY DEF FInv, Follow, Followers
<1>3. ASSUME NEW r \in Runners
      PROVE  RunOK(r)'
  <2>1. PICK leaves \in BOOLEAN : Moved(u, leaves) /\ leaves = FALSE
    BY DEF Follow
  <2>2. RunOK(r)
    BY DEF FInv
  <2>3. CASE run[r].pc = "idle"
    BY <2>1, <2>3, MovedKeeps DEF RunOK
  <2>4. CASE run[r].pc # "idle"
    <3>1. CopyIsRight(r)'
      BY <1>2, <2>1, <2>2, <2>4, MovedKeeps DEF RunOK, CopyIsRight, Follow
    <3>2. SeenIsRight(r)'
      BY <1>2, <2>1, <2>2, <2>4, MovedKeeps DEF RunOK, SeenIsRight
    <3> QED
      BY <2>1, <3>1, <3>2, MovedKeeps DEF RunOK
  <2> QED
    BY <2>3, <2>4
<1>4. DOMAIN run' = Runners
  BY DEF Follow, Moved
<1>5. CachedFollowersFollow'
  BY <1>2 DEF Follow, FInv, CachedFollowersFollow
<1> QED
  BY <1>1, <1>3, <1>4, <1>5 DEF FInv

(* Who leaves is remembered by every run that has started. *)
LEMMA UnfollowHolds ==
  ASSUME FInv, NEW u \in Users, Unfollow(u)
  PROVE  FInv'
<1>1. since' \in [Users -> Int] /\ changes' \in Nat
  BY DEF FInv, Unfollow
<1>2. Followers \ {u} \subseteq Followers' /\ left' = left \cup {u}
  BY DEF FInv, Unfollow, Followers
<1>3. ASSUME NEW r \in Runners
      PROVE  RunOK(r)'
  <2>1. PICK leaves \in BOOLEAN : Moved(u, leaves) /\ leaves = TRUE
    BY DEF Unfollow
  <2>2. RunOK(r)
    BY DEF FInv
  <2>3. CASE run[r].pc = "idle"
    BY <2>1, <2>3, MovedKeeps DEF RunOK
  <2>4. CASE run[r].pc # "idle"
    <3>1. /\ run'[r].mode = run[r].mode /\ run'[r].stale = run[r].stale
          /\ run'[r].cache = run[r].cache
      BY <2>1, MovedKeeps
    <3>2. CopyIsRight(r)'
      BY <1>2, <2>2, <2>4, <3>1 DEF RunOK, CopyIsRight, Unfollow
    <3>3. SeenIsRight(r)'
      BY <1>2, <2>1, <2>2, <2>4, MovedKeeps DEF RunOK, SeenIsRight
    <3> QED
      BY <2>1, <3>2, <3>3, MovedKeeps DEF RunOK
  <2> QED
    BY <2>3, <2>4
<1>4. DOMAIN run' = Runners
  BY DEF Unfollow, Moved
<1>5. CachedFollowersFollow'
  BY <1>2 DEF Unfollow, FInv, CachedFollowersFollow
<1> QED
  BY <1>1, <1>3, <1>4, <1>5 DEF FInv

(* A run starts from the cache as it is. *)
LEMMA StartHolds ==
  ASSUME FInv, NEW r \in Runners, NEW kind \in {"full", "delta"}, Start(r, kind)
  PROVE  FInv'
<1>1. Followers' = Followers
  BY DEF Start, Followers
<1>2. \A q \in Runners \ {r} : run'[q] = run[q]
  BY DEF Start, FInv
<1>3. /\ DOMAIN run'[r] = Fields
      /\ run'[r].mode = kind /\ run'[r].cache = cached /\ run'[r].seen = {}
  BY NoRunIsIdle DEF Start, FInv, Fields, NoRun
<1>4. \A q \in Runners : RunOK(q)'
  BY <1>1, <1>2, <1>3 DEF Start, FInv, RunOK, CopyIsRight, SeenIsRight, CachedFollowersFollow
<1> QED
  BY <1>1, <1>4 DEF Start, FInv, CachedFollowersFollow

(* A page of followers names followers. *)
LEMMA PageHolds ==
  ASSUME FInv, NEW r \in Runners, GetFollowersPage(r)
  PROVE  FInv'
<1>1. Followers' = Followers
  BY DEF GetFollowersPage, Followers
<1>2. \A q \in Runners \ {r} : run'[q] = run[q]
  BY DEF GetFollowersPage, FInv
<1> DEFINE page == FollowersPage(run[r].token)
<1>3. page \subseteq Followers
  BY DEF FollowersPage, Before
<1>4. /\ DOMAIN run'[r] = Fields
      /\ run'[r].mode = run[r].mode /\ run'[r].stale = run[r].stale /\ run'[r].left = run[r].left
      /\ run'[r].cache = run[r].cache \cup page /\ run'[r].seen = run[r].seen \cup page
  BY NoRunIsIdle DEF GetFollowersPage, FInv, RunOK, Fields
<1>5. RunOK(r)'
  <2>1. run[r].pc # "idle"
    BY DEF GetFollowersPage
  <2>2. CopyIsRight(r)' /\ SeenIsRight(r)'
    BY <1>1, <1>3, <1>4, <2>1 DEF GetFollowersPage, FInv, RunOK, CopyIsRight, SeenIsRight
  <2> QED
    BY <1>4, <2>2 DEF RunOK
<1>6. \A q \in Runners : RunOK(q)'
  BY <1>1, <1>2, <1>5 DEF GetFollowersPage, FInv, RunOK, CopyIsRight, SeenIsRight
<1> QED
  BY <1>1, <1>6 DEF GetFollowersPage, FInv, CachedFollowersFollow

(* The end of a run leaves the others as they are, overtaken if it saved. *)
LEMMA EndedKeeps ==
  ASSUME FInv, NEW r \in Runners, NEW saved \in BOOLEAN, Ended(r, saved), NEW q \in Runners
  PROVE  /\ DOMAIN run' = Runners /\ DOMAIN run'[q] = Fields
         /\ q = r => run'[q].pc = "idle"
         /\ q # r => /\ run'[q].pc = run[q].pc /\ run'[q].mode = run[q].mode
                     /\ run'[q].cache = run[q].cache /\ run'[q].seen = run[q].seen
                     /\ run'[q].left = run[q].left
                     /\ run'[q].stale = (run[q].stale \/ (saved /\ run[q].pc # "idle"))
  BY NoRunIsIdle DEF Ended, FInv, RunOK, Fields

(* What a run saves is as right as what it has collected. *)
LEMMA SaveHolds ==
  ASSUME FInv, NEW r \in Runners, SaveFollowerCache(r)
  PROVE  FInv'
<1>1. Followers' = Followers
  BY DEF SaveFollowerCache, Followers
<1>2. ASSUME NEW q \in Runners
      PROVE  RunOK(q)'
  <2>1. Ended(r, TRUE)
    BY DEF SaveFollowerCache
  <2>2. RunOK(q)
    BY DEF FInv
  <2>3. CASE q = r \/ run[q].pc = "idle"
    BY <2>1, <2>3, EndedKeeps DEF RunOK
  <2>4. CASE q # r /\ run[q].pc # "idle"
    <3>1. CopyIsRight(q)'
      BY <1>1, <2>1, <2>2, <2>4, EndedKeeps DEF RunOK, CopyIsRight, SaveFollowerCache
    <3>2. SeenIsRight(q)'
      BY <1>1, <2>1, <2>2, <2>4, EndedKeeps DEF RunOK, SeenIsRight
    <3> QED
      BY <2>1, <2>4, <3>1, <3>2, EndedKeeps DEF RunOK
  <2> QED
    BY <2>3, <2>4
<1>3. CachedFollowersFollow'
  <2>1. CASE run[r].mode = "full"
    <3>1. cached' \subseteq run[r].seen
      BY <2>1 DEF SaveFollowerCache, Missing
    <3>2. run[r].seen \subseteq Followers \cup run[r].left
      BY <2>1 DEF SaveFollowerCache, FInv, RunOK, SeenIsRight
    <3> QED
      BY <1>1, <2>1, <3>1, <3>2 DEF SaveFollowerCache, CachedFollowersFollow
  <2>2. CASE run[r].mode # "full"
    <3>1. SUFFICES ASSUME "overlap" \notin doubts'
                   PROVE  cached' \subseteq (Followers \cup left)'
      BY DEF CachedFollowersFollow
    <3>2. left' = left /\ "overlap" \notin doubts /\ ~run[r].stale
      BY <2>2, <3>1 DEF SaveFollowerCache
    <3>3. run[r].cache \subseteq Followers \cup left
      BY <2>2, <3>2 DEF SaveFollowerCache, FInv, RunOK, CopyIsRight
    <3> QED
      BY <1>1, <3>2, <3>3 DEF SaveFollowerCache
  <2> QED
    BY <2>1, <2>2
<1> QED
  BY <1>2, <1>3, EndedKeeps DEF SaveFollowerCache, FInv

(* A run that fails saves nothing. *)
LEMMA FailHolds ==
  ASSUME FInv, NEW r \in Runners, RunFails(r)
  PROVE  FInv'
<1>1. Followers' = Followers
  BY DEF RunFails, Followers
<1>2. ASSUME NEW q \in Runners
      PROVE  RunOK(q)'
  <2>1. Ended(r, FALSE)
    BY DEF RunFails
  <2>2. RunOK(q)
    BY DEF FInv
  <2>3. CASE q = r \/ run[q].pc = "idle"
    BY <2>1, <2>3, EndedKeeps DEF RunOK
  <2>4. CASE q # r /\ run[q].pc # "idle"
    <3>1. CopyIsRight(q)'
      BY <1>1, <2>1, <2>2, <2>4, EndedKeeps DEF RunOK, CopyIsRight, RunFails
    <3>2. SeenIsRight(q)'
      BY <1>1, <2>1, <2>2, <2>4, EndedKeeps DEF RunOK, SeenIsRight
    <3> QED
      BY <2>1, <2>4, <3>1, <3>2, EndedKeeps DEF RunOK
  <2> QED
    BY <2>3, <2>4
<1> QED
  BY <1>1, <1>2, EndedKeeps DEF RunFails, FInv, CachedFollowersFollow

(* Every step keeps it. *)
LEMMA FollowerStepHolds == FInv /\ [FollowerSteps]_followerVars => FInv'
<1> SUFFICES ASSUME FInv, [FollowerSteps]_followerVars
             PROVE  FInv'
  OBVIOUS
<1>1. CASE UNCHANGED followerVars
  BY <1>1 DEF followerVars, FInv, RunOK, CopyIsRight, SeenIsRight, CachedFollowersFollow, Followers
<1>2. CASE FollowerSteps
  BY <1>2, FollowHolds, UnfollowHolds, StartHolds, PageHolds, SaveHolds, FailHolds
     DEF FollowerSteps
<1> QED
  BY <1>1, <1>2

(* However many users follow and leave, however many runners start runs    *)
(* and however these end: while no delta run has saved a cache that was    *)
(* replaced meanwhile, nobody is called a follower who had left before the *)
(* last full run began.                                                    *)
THEOREM FollowersCorrect == FollowerSpec => []CachedFollowersFollow
<1>1. FInv => CachedFollowersFollow
  BY DEF FInv
<1> QED
  BY FollowerInitHolds, FollowerStepHolds, <1>1, PTL DEF FollowerSpec

(* What a save leaves out is older than something it has, if it leaves out *)
(* anybody: so the cache has no gap.                                       *)

(* Somebody in S is a newer follower than u; whoever is older than one in  *)
(* S is in S.                                                              *)
HasOlder(S, u) == \E v \in S \cap Followers : since[u] < since[v]
Gapless(S) == \A u \in Followers : HasOlder(S, u) => u \in S

(* The followers on the pages a run has read, and above them.              *)
Passed(r) == {u \in Followers : run[r].pc = "paging" => since[u] >= run[r].token}

(* A full run has met, of whom it has passed, whoever has not moved, and,  *)
(* if nobody has left since it began, whoever is older than one it met.    *)
FullMeets(r) ==
  run[r].mode = "full" =>
    /\ run[r].seen \subseteq run[r].cache
    /\ Passed(r) \ run[r].moved \subseteq run[r].seen
    /\ run[r].left = {} => \A u \in Passed(r) : HasOlder(run[r].seen, u) => u \in run[r].seen

(* A delta run knows, of whom it has passed, whoever has not moved, until  *)
(* it stops: then there may be others, who are older than one it knows.    *)
DeltaMeets(r) ==
  run[r].mode = "delta" =>
    \A u \in Passed(r) \ run[r].moved :
      \/ u \in run[r].cache
      \/ run[r].pc = "saving"
         /\ \E v \in run[r].cache \cap Users : v \in Followers => since[u] < since[v]

(* A delta run whose cache is still the one on file: what it knows has no  *)
(* gap down to where it is, and below it is what was cached.               *)
Settled == doubts = {} /\ left = {}
DeltaFits(r) ==
  run[r].mode = "delta" /\ ~ run[r].stale /\ Settled =>
    /\ cached \subseteq run[r].cache
    /\ run[r].pc = "paging" => run[r].cache \cap Followers \subseteq cached \cup Passed(r)
    /\ run[r].pc = "paging" \/ ~ run[r].cut =>
         \A u \in Passed(r) : HasOlder(run[r].cache, u) => u \in run[r].cache

NoGap(r) ==
  /\ run[r].pc \in {"idle", "paging", "saving"}
  /\ run[r].pc # "idle" => /\ run[r].mode \in {"full", "delta"}
                           /\ FullMeets(r) /\ DeltaMeets(r) /\ DeltaFits(r)

GapInv ==
  /\ FInv
  /\ since \in [Users -> 0..changes] /\ changes \in 0..MaxChanges
  /\ \A r \in Runners : NoGap(r) /\ (run[r].pc = "paging" => run[r].token \in Int)
  /\ Settled => Gapless(cached)

(* At first nobody follows. *)
LEMMA GapInit == FollowerInit => GapInv
BY FollowerInitHolds, NoRunIsIdle, FollowerSyncAssumption
DEF FollowerInit, GapInv, NoGap, Settled, Gapless, HasOlder

(* A run that nothing happened to. *)
LEMMA GapKept ==
  ASSUME GapInv, NEW r \in Runners, run'[r] = run[r], UNCHANGED <<since, cached, left, doubts>>
  PROVE  NoGap(r)' /\ (run'[r].pc = "paging" => run'[r].token \in Int)
BY DEF GapInv, NoGap, FullMeets, DeltaMeets, DeltaFits, Passed, HasOlder, Followers, Settled

(* The page below a token has the newest of those below it, and somebody   *)
(* if there is anybody.                                                    *)
LEMMA PageIsNewest ==
  ASSUME GapInv, NEW token \in Int
  PROVE  /\ FollowersPage(token) \subseteq Before(token) /\ Before(token) \subseteq Followers
         /\ \A u \in Before(token), w \in FollowersPage(token) :
              since[u] >= since[w] => u \in FollowersPage(token)
         /\ Before(token) # {} => FollowersPage(token) # {}
<1>1. since \in [Users -> 0..changes] /\ changes \in Nat
  BY FollowerSyncAssumption DEF GapInv
<1>2. Before(token) \subseteq Followers /\ Before(token) \subseteq Users
  BY DEF Before, Followers
<1> DEFINE B == Before(token)
           Newer(u) == {v \in B : since[v] > since[u]}
<1>3. IsFiniteSet(B)
  BY <1>2, FS_Subset, FollowerSyncAssumption
<1>4. FollowersPage(token) = {u \in B : Cardinality(Newer(u)) < PageSize}
  BY DEF FollowersPage
<1>5. \A u \in B : IsFiniteSet(Newer(u)) /\ Cardinality(Newer(u)) \in Nat
  <2> SUFFICES ASSUME NEW u \in B PROVE IsFiniteSet(Newer(u)) /\ Cardinality(Newer(u)) \in Nat
    OBVIOUS
  <2>1. Newer(u) \subseteq B
    OBVIOUS
  <2> QED
    BY <1>3, <2>1, FS_Subset, FS_CardinalityType
<1>6. ASSUME NEW u \in B, NEW w \in FollowersPage(token), since[u] >= since[w]
      PROVE  u \in FollowersPage(token)
  <2>1. w \in B /\ Cardinality(Newer(w)) < PageSize
    BY <1>4
  <2>2. Newer(u) \subseteq Newer(w)
    <3>1. \A v \in B : since[v] \in Nat
      BY <1>1, <1>2
    <3> QED
      BY <1>6, <2>1, <3>1
  <2>3. Cardinality(Newer(u)) =< Cardinality(Newer(w))
    BY <1>5, <2>1, <2>2, FS_Subset
  <2>4. Cardinality(Newer(u)) < PageSize
    <3> HIDE DEF Newer, B
    <3> QED
      BY <1>5, <1>6, <2>1, <2>3, FollowerSyncAssumption
  <2> QED
    BY <1>4, <2>4
<1>7. ASSUME B # {} PROVE FollowersPage(token) # {}
  <2> DEFINE A == {changes - since[u] : u \in B}
  <2>1. A \subseteq Nat /\ A # {}
    <3>1. \A u \in B : since[u] \in 0..changes
      BY <1>1, <1>2
    <3> QED
      BY <1>1, <1>7, <3>1
  <2>2. PICK n \in A : \A k \in A : n =< k
    BY <2>1, NatLeast
  <2>3. PICK u \in B : n = changes - since[u]
    BY <2>2
  <2>4. \A v \in B : since[v] =< since[u]
    <3> TAKE v \in B
    <3>1. changes - since[u] =< changes - since[v]
      BY <2>2, <2>3
    <3>2. since[u] \in Nat /\ since[v] \in Nat
      BY <1>1, <1>2
    <3> QED
      BY <1>1, <3>1, <3>2
  <2>5. Newer(u) = {}
    <3>1. \A v \in B : since[v] \in Nat
      BY <1>1, <1>2
    <3> QED
      BY <2>4, <3>1
  <2>6. Cardinality(Newer(u)) = 0
    BY <2>5, FS_EmptySet
  <2>7. Cardinality(Newer(u)) < PageSize
    BY <2>6, FollowerSyncAssumption
  <2> QED
    BY <1>4, <2>7
<1> QED
  BY <1>2, <1>4, <1>6, <1>7

(* What a run makes of a page: how far it has come, and what it knows.     *)
LEMMA PagePassed ==
  ASSUME GapInv, NEW r \in Runners, GetFollowersPage(r), NEW page, page = FollowersPage(run[r].token)
  PROVE  /\ page \subseteq Followers /\ run[r].token \in Int
         /\ run'[r].pc \in {"paging", "saving"} /\ run'[r].mode = run[r].mode
         /\ run'[r].stale = run[r].stale /\ run'[r].left = run[r].left
         /\ run'[r].moved = run[r].moved
         /\ run'[r].cache = run[r].cache \cup page /\ run'[r].seen = run[r].seen \cup page
         /\ run'[r].pc = "paging" => run'[r].token \in Int
         /\ Passed(r) \cup page \subseteq Passed(r)'
         /\ \A u \in Passed(r), w \in page : since[w] < since[u]
         /\ \/ Passed(r)' = Passed(r) \cup page
            \/ /\ run'[r].pc = "saving" /\ run[r].mode = "delta"
               /\ run'[r].cut \/ page \subseteq run[r].cache
               /\ page # {}
               /\ \A u \in Followers : u \in Passed(r) \cup page \/ \A w \in page : since[u] < since[w]
<1> DEFINE old == run[r]
           known == old.mode = "delta" /\ page \subseteq old.cache
           end == page = Before(old.token)
           cut == old.mode = "delta" /\ old.pages + 1 = MaxPages /\ ~ known /\ ~ end
           next == IF end THEN old.token ELSE Min({since[u] : u \in page})
<1>1. since \in [Users -> 0..changes] /\ changes \in Nat /\ old.token \in Int /\ old.pc = "paging"
      /\ DOMAIN old = Fields /\ old.mode \in {"full", "delta"} /\ r \in DOMAIN run
  BY FollowerSyncAssumption DEF GapInv, NoGap, GetFollowersPage, FInv, RunOK
<1>2. /\ page \subseteq Before(old.token) /\ Before(old.token) \subseteq Followers
      /\ \A u \in Before(old.token), w \in page : since[u] >= since[w] => u \in page
      /\ Before(old.token) # {} => page # {}
  BY <1>1, PageIsNewest
<1>3. /\ run'[r].pc = (IF known \/ end \/ cut THEN "saving" ELSE "paging")
      /\ run'[r].token = next /\ run'[r].cut = cut
      /\ run'[r].mode = old.mode /\ run'[r].stale = old.stale /\ run'[r].left = old.left
      /\ run'[r].moved = old.moved
      /\ run'[r].cache = old.cache \cup page /\ run'[r].seen = old.seen \cup page
  BY <1>1, NoRunIsIdle DEF GetFollowersPage, Fields
<1>4. \A u \in Followers : since[u] \in Nat /\ (u \in Passed(r) <=> since[u] >= old.token)
                           /\ (u \in Before(old.token) <=> since[u] < old.token)
  BY <1>1 DEF Followers, Passed, Before
<1>5. since' = since /\ Followers' = Followers
  BY DEF GetFollowersPage, Followers
<1>6. ASSUME ~ end
      PROVE  \E w \in page : next = since[w] /\ \A u \in page : next =< since[u]
  <2>1. page # {}
    BY <1>2, <1>6
  <2> DEFINE S == {since[u] : u \in page}
  <2>2. S \in SUBSET Nat /\ \E n : n \in S
    BY <1>2, <1>4, <2>1
  <2>3. Min(S) \in S /\ \A k \in S : Min(S) =< k
    BY <2>2, MinIsLeast
  <2>4. next = Min(S)
    BY <1>6
  <2> HIDE DEF next
  <2> QED
    BY <2>3, <2>4
<1> HIDE DEF next
<1>7. \A u \in Passed(r), w \in page : since[w] < since[u]
  <2>1. \A u \in Passed(r) : u \in Followers
    BY DEF Passed
  <2>2. \A w \in page : w \in Followers /\ since[w] < old.token
    BY <1>2, <1>4
  <2> QED
    BY <1>1, <1>4, <2>1, <2>2
<1>8. \A u \in Followers : u \in Passed(r) \cup page \/ \A w \in page : since[u] < since[w]
  <2> SUFFICES ASSUME NEW u \in Followers, u \notin Passed(r), u \notin page, NEW w \in page
               PROVE  since[u] < since[w]
    OBVIOUS
  <2>1. u \in Before(old.token)
    BY <1>1, <1>4
  <2>2. since[u] \in Nat /\ since[w] \in Nat
    BY <1>2, <1>4
  <2> QED
    BY <1>2, <2>1, <2>2
<1>9. run'[r].pc = "paging" => Passed(r)' = Passed(r) \cup page /\ next \in Int
  <2> SUFFICES ASSUME run'[r].pc = "paging" PROVE Passed(r)' = Passed(r) \cup page /\ next \in Int
    OBVIOUS
  <2>1. PICK w \in page : next = since[w] /\ \A u \in page : next =< since[u]
    BY <1>3, <1>6
  <2>2. Passed(r)' = {u \in Followers : since[u] >= next}
    BY <1>3, <1>5 DEF Passed
  <2>3. ASSUME NEW u \in Followers, since[u] >= next PROVE u \in Passed(r) \cup page
    BY <1>2, <1>4, <1>8, <2>1, <2>3
  <2>4. ASSUME NEW u \in Passed(r) PROVE u \in Followers /\ since[u] >= next
    <3>1. u \in Followers
      BY DEF Passed
    <3> QED
      BY <1>2, <1>4, <1>7, <2>1, <2>4, <3>1
  <2>5. page \subseteq Followers /\ \A u \in page : since[u] >= next
    BY <1>2, <1>4, <2>1
  <2> QED
    BY <1>2, <1>4, <2>1, <2>2, <2>3, <2>4, <2>5
<1>10. run'[r].pc = "saving" => Passed(r)' = Followers
  BY <1>5 DEF Passed
<1>11. end => \A u \in Followers : u \in Passed(r) \cup page
  BY <1>1, <1>4
<1>12. Passed(r) \subseteq Followers
  BY DEF Passed
<1>13. run'[r].pc \in {"paging", "saving"}
  BY <1>3
<1>14. \/ Passed(r)' = Passed(r) \cup page
       \/ /\ run'[r].pc = "saving" /\ run[r].mode = "delta"
          /\ run'[r].cut \/ page \subseteq run[r].cache
          /\ page # {}
          /\ \A u \in Followers : u \in Passed(r) \cup page \/ \A w \in page : since[u] < since[w]
  <2>1. CASE run'[r].pc = "paging"
    BY <1>9, <2>1
  <2>2. CASE run'[r].pc = "saving" /\ end
    BY <1>2, <1>10, <1>11, <1>12, <2>2
  <2>3. CASE run'[r].pc = "saving" /\ ~ end
    <3>1. page # {}
      BY <1>2, <2>3
    <3>2. old.mode = "delta" /\ (run'[r].cut \/ page \subseteq old.cache)
      BY <1>3, <2>3
    <3> QED
      BY <1>8, <2>3, <3>1, <3>2
  <2> QED
    BY <1>13, <2>1, <2>2, <2>3
<1>15. Passed(r) \cup page \subseteq Passed(r)'
  BY <1>2, <1>9, <1>10, <1>12, <1>13
<1> QED
  BY <1>1, <1>2, <1>3, <1>7, <1>9, <1>13, <1>14, <1>15

(* A page leaves no gap. *)
LEMMA GapPage ==
  ASSUME GapInv, NEW r \in Runners, GetFollowersPage(r)
  PROVE  GapInv'
<1>1. UNCHANGED <<since, changes, cached, left, doubts>> /\ Followers' = Followers
  BY DEF GetFollowersPage, Followers
<1>2. FInv'
  BY PageHolds DEF GapInv
<1>3. \A q \in Runners \ {r} : NoGap(q)' /\ (run'[q].pc = "paging" => run'[q].token \in Int)
  <2>1. \A q \in Runners \ {r} : run'[q] = run[q]
    BY DEF GetFollowersPage, GapInv, FInv
  <2> QED
    BY <1>1, <2>1, GapKept
<1>4. PICK page : page = FollowersPage(run[r].token)
  OBVIOUS
<1> DEFINE old == run[r]
           new == run'[r]
           P == Passed(r)
<1>5. /\ page \subseteq Followers /\ old.token \in Int
      /\ new.pc \in {"paging", "saving"} /\ new.mode = old.mode
      /\ new.stale = old.stale /\ new.left = old.left /\ new.moved = old.moved
      /\ new.cache = old.cache \cup page /\ new.seen = old.seen \cup page
      /\ new.pc = "paging" => new.token \in Int
      /\ P \cup page \subseteq P'
      /\ \A u \in P, w \in page : since[w] < since[u]
      /\ \/ P' = P \cup page
         \/ /\ new.pc = "saving" /\ old.mode = "delta"
            /\ new.cut \/ page \subseteq old.cache
            /\ page # {}
            /\ \A u \in Followers : u \in P \cup page \/ \A w \in page : since[u] < since[w]
  BY <1>4, PagePassed
<1>6. /\ old.pc = "paging" /\ old.mode \in {"full", "delta"}
      /\ FullMeets(r) /\ DeltaMeets(r) /\ DeltaFits(r) /\ (Settled => Gapless(cached))
  BY DEF GapInv, NoGap, GetFollowersPage
<1>7. P \subseteq Followers /\ P' \subseteq Followers /\ Followers \subseteq Users
  BY <1>1 DEF Passed, Followers
<1>8. \A u \in Followers : since[u] \in Nat /\ (u \in P <=> since[u] >= old.token)
  BY <1>6, FollowerSyncAssumption DEF GapInv, Followers, Passed
<1>9. \A S, u : HasOlder(S, u)' <=> HasOlder(S', u)
  BY <1>1 DEF HasOlder
<1> HIDE DEF P, old, new
<1>10. ASSUME NEW S, NEW u \in P \cup page, HasOlder(S \cup page, u), u \notin page
       PROVE  HasOlder(S, u)
  <2>1. PICK v \in (S \cup page) \cap Followers : since[u] < since[v]
    BY <1>10 DEF HasOlder
  <2>2. v \notin page
    BY <1>5, <1>7, <1>8, <1>10, <2>1
  <2> QED
    BY <2>1, <2>2 DEF HasOlder
<1>11. FullMeets(r)'
  <2> SUFFICES ASSUME new.mode = "full"
               PROVE  /\ new.seen \subseteq new.cache
                      /\ P' \ new.moved \subseteq new.seen
                      /\ new.left = {} => \A u \in P' : HasOlder(new.seen, u) => u \in new.seen
    BY <1>1 DEF FullMeets, HasOlder, P, new
  <2>1. old.mode = "full" /\ P' = P \cup page
    BY <1>5
  <2>2. /\ old.seen \subseteq old.cache /\ P \ old.moved \subseteq old.seen
        /\ old.left = {} => \A u \in P : HasOlder(old.seen, u) => u \in old.seen
    BY <1>6, <2>1 DEF FullMeets, P, old
  <2> QED
    BY <1>5, <1>10, <2>1, <2>2
<1>12. DeltaMeets(r)'
  <2> SUFFICES ASSUME new.mode = "delta", NEW u \in P' \ new.moved
               PROVE  \/ u \in new.cache
                      \/ new.pc = "saving"
                         /\ \E v \in new.cache \cap Users : v \in Followers => since[u] < since[v]
    BY <1>1 DEF DeltaMeets, P, new
  <2>1. \A x \in P \ old.moved : x \in old.cache
    BY <1>5, <1>6 DEF DeltaMeets, P, old
  <2>2. CASE u \in P \cup page
    BY <1>5, <2>1, <2>2
  <2>3. CASE u \notin P \cup page
    BY <1>5, <1>7, <2>3
  <2> QED
    BY <2>2, <2>3
<1>13. DeltaFits(r)'
  <2> SUFFICES ASSUME new.mode = "delta", ~ new.stale, Settled
               PROVE  /\ cached \subseteq new.cache
                      /\ new.pc = "paging" => new.cache \cap Followers \subseteq cached \cup P'
                      /\ new.pc = "paging" \/ ~ new.cut =>
                           \A u \in P' : HasOlder(new.cache, u) => u \in new.cache
    BY <1>1 DEF DeltaFits, HasOlder, Settled, P, new
  <2>1. /\ cached \subseteq old.cache
        /\ old.cache \cap Followers \subseteq cached \cup P
        /\ \A u \in P : HasOlder(old.cache, u) => u \in old.cache
        /\ Gapless(cached)
    BY <1>5, <1>6 DEF DeltaFits, P, old
  <2>2. new.pc = "paging" => new.cache \cap Followers \subseteq cached \cup P'
    BY <1>5, <2>1
  <2>3. ASSUME new.pc = "paging" \/ ~ new.cut, NEW u \in P', HasOlder(new.cache, u)
        PROVE  u \in new.cache
    <3>1. CASE u \in P \cup page
      BY <1>5, <1>10, <2>1, <2>3, <3>1
    <3>2. CASE u \notin P \cup page
      <4>1. page \subseteq old.cache /\ page # {} /\ \A w \in page : since[u] < since[w]
        BY <1>5, <1>7, <2>3, <3>2
      <4>2. PICK w \in page : w \in Followers /\ since[u] < since[w] /\ w \in old.cache
        BY <1>5, <4>1
      <4>3. w \notin P
        BY <1>5, <1>8, <4>2
      <4>4. w \in cached
        BY <2>1, <4>2, <4>3
      <4>5. u \in cached
        BY <1>7, <2>1, <4>2, <4>4 DEF Gapless, HasOlder
      <4> QED
        BY <1>5, <2>1, <4>5
    <3> QED
      BY <3>1, <3>2
  <2> QED
    BY <1>5, <2>1, <2>2, <2>3
<1>14. NoGap(r)' /\ (run'[r].pc = "paging" => run'[r].token \in Int)
  BY <1>5, <1>6, <1>11, <1>12, <1>13 DEF NoGap, new
<1>15. (Settled => Gapless(cached))'
  BY <1>1, <1>6 DEF Settled, Gapless, HasOlder
<1> QED
  BY <1>1, <1>2, <1>3, <1>14, <1>15 DEF GapInv

(* What a change at X leaves of a run, and notes in it.                    *)
LEMMA MovedNotes ==
  ASSUME FInv, NEW u, NEW leaves \in BOOLEAN, Moved(u, leaves), NEW r \in Runners
  PROVE  /\ run'[r].token = run[r].token /\ run'[r].cut = run[r].cut
         /\ run[r].pc # "idle" => run'[r].moved = run[r].moved \cup {u}
         /\ ~ leaves => run'[r].left = run[r].left
  BY NoRunIsIdle DEF Moved, FInv, RunOK, Fields

(* A new follower is newer than everybody, and nobody has met him.         *)
LEMMA GapFollow ==
  ASSUME GapInv, NEW u \in Users, Follow(u)
  PROVE  GapInv'
<1>1. /\ u \notin Followers /\ changes' = changes + 1 /\ changes < MaxChanges
      /\ since' = [since EXCEPT ![u] = changes + 1]
      /\ Moved(u, FALSE) /\ UNCHANGED <<cached, left, doubts>>
  BY DEF Follow
<1>2. since \in [Users -> 0..changes] /\ changes \in Nat /\ FInv
  BY FollowerSyncAssumption DEF GapInv
<1>3. FInv'
  BY <1>2, FollowHolds
<1>4. /\ Followers' = Followers \cup {u} /\ since'[u] = changes + 1
      /\ \A v \in Users : since[v] \in Nat /\ since[v] =< changes
      /\ \A v \in Users \ {u} : since'[v] = since[v]
      /\ Followers \subseteq Users
  BY <1>1, <1>2 DEF Followers
<1>5. since' \in [Users -> 0..changes'] /\ changes' \in 0..MaxChanges
  BY <1>1, <1>2, FollowerSyncAssumption
<1>6. ASSUME NEW S, u \notin S, NEW v \in Followers', \E x \in S \cap Followers' : since'[v] < since'[x]
      PROVE  v \in Followers /\ HasOlder(S, v)
  <2>1. PICK x \in S \cap Followers' : since'[v] < since'[x]
    BY <1>6
  <2>2. x # u /\ x \in Followers /\ since'[x] = since[x] /\ since[x] =< changes /\ since[x] \in Nat
    BY <1>4, <1>6, <2>1
  <2>3. v # u
    BY <1>2, <1>4, <2>1, <2>2
  <2> QED
    BY <1>4, <2>1, <2>2, <2>3 DEF HasOlder
<1>7. ASSUME NEW r \in Runners
      PROVE  NoGap(r)' /\ (run'[r].pc = "paging" => run'[r].token \in Int)
  <2> DEFINE old == run[r]
             new == run'[r]
             P == Passed(r)
  <2>1. /\ new.pc = old.pc /\ new.mode = old.mode /\ new.cache = old.cache /\ new.seen = old.seen
        /\ new.stale = old.stale /\ new.token = old.token /\ new.cut = old.cut /\ new.left = old.left
        /\ old.pc # "idle" => new.moved = old.moved \cup {u}
    BY <1>1, <1>2, MovedKeeps, MovedNotes
  <2>2. /\ old.pc \in {"idle", "paging", "saving"} /\ (old.pc = "paging" => old.token \in Int)
        /\ old.pc # "idle" => /\ old.mode \in {"full", "delta"} /\ FullMeets(r) /\ DeltaMeets(r)
                              /\ DeltaFits(r) /\ CopyIsRight(r) /\ SeenIsRight(r)
    BY DEF GapInv, NoGap, FInv, RunOK
  <2>3. P' \cap Followers = P /\ P' \subseteq Followers' /\ P \subseteq Followers
    BY <1>1, <1>4, <2>1 DEF Passed
  <2> HIDE DEF old, new, P
  <2> SUFFICES ASSUME old.pc # "idle" PROVE FullMeets(r)' /\ DeltaMeets(r)' /\ DeltaFits(r)'
    BY <2>1, <2>2 DEF NoGap, old, new
  <2>4. FullMeets(r)'
    <3> SUFFICES ASSUME new.mode = "full"
                 PROVE  /\ new.seen \subseteq new.cache
                        /\ P' \ new.moved \subseteq new.seen
                        /\ new.left = {} =>
                             \A v \in P' : (\E x \in new.seen \cap Followers' : since'[v] < since'[x])
                                             => v \in new.seen
      BY DEF FullMeets, HasOlder, P, new
    <3>1. /\ old.seen \subseteq old.cache /\ P \ old.moved \subseteq old.seen
          /\ old.left = {} => \A v \in P : HasOlder(old.seen, v) => v \in old.seen
          /\ old.seen \subseteq Followers \cup old.left
      BY <2>1, <2>2 DEF FullMeets, SeenIsRight, P, old
    <3>2. ASSUME new.left = {}, NEW v \in P', \E x \in new.seen \cap Followers' : since'[v] < since'[x]
          PROVE  v \in new.seen
      <4>1. u \notin old.seen /\ v \in Followers'
        BY <1>1, <2>1, <2>3, <3>1, <3>2
      <4>2. v \in Followers /\ HasOlder(old.seen, v)
        BY <1>6, <2>1, <3>2, <4>1
      <4> QED
        BY <2>1, <2>3, <3>1, <3>2, <4>2
    <3> QED
      BY <1>4, <2>1, <2>3, <3>1, <3>2
  <2>5. DeltaMeets(r)'
    <3> SUFFICES ASSUME new.mode = "delta", NEW v \in P' \ new.moved
                 PROVE  \/ v \in new.cache
                        \/ new.pc = "saving"
                           /\ \E x \in new.cache \cap Users : x \in Followers' => since'[v] < since'[x]
      BY DEF DeltaMeets, P, new
    <3>1. v \in P \ old.moved /\ v # u /\ v \in Users
      BY <1>4, <2>1, <2>3
    <3>2. \/ v \in old.cache
          \/ old.pc = "saving"
             /\ \E x \in old.cache \cap Users : x \in Followers => since[v] < since[x]
      BY <2>1, <2>2, <3>1 DEF DeltaMeets, P, old
    <3>3. CASE v \in old.cache
      BY <2>1, <3>3
    <3>4. CASE old.pc = "saving"
               /\ \E x \in old.cache \cap Users : x \in Followers => since[v] < since[x]
      <4>1. PICK x \in old.cache \cap Users : x \in Followers => since[v] < since[x]
        BY <3>4
      <4>2. x \in Followers' => since'[v] < since'[x]
        BY <1>2, <1>4, <3>1, <4>1
      <4> QED
        BY <2>1, <3>4, <4>1, <4>2
    <3> QED
      BY <3>2, <3>3, <3>4
  <2>6. DeltaFits(r)'
    <3> SUFFICES ASSUME new.mode = "delta", ~ new.stale, Settled
                 PROVE  /\ cached \subseteq new.cache
                        /\ new.pc = "paging" => new.cache \cap Followers' \subseteq cached \cup P'
                        /\ new.pc = "paging" \/ ~ new.cut =>
                             \A v \in P' : (\E x \in new.cache \cap Followers' : since'[v] < since'[x])
                                             => v \in new.cache
      BY <1>1 DEF DeltaFits, HasOlder, Settled, P, new
    <3>1. /\ cached \subseteq old.cache
          /\ old.pc = "paging" => old.cache \cap Followers \subseteq cached \cup P
          /\ old.pc = "paging" \/ ~ old.cut =>
               \A v \in P : HasOlder(old.cache, v) => v \in old.cache
          /\ old.cache \subseteq Followers
      BY <2>1, <2>2 DEF DeltaFits, CopyIsRight, Settled, P, old
    <3>2. ASSUME new.pc = "paging" \/ ~ new.cut, NEW v \in P',
                 \E x \in new.cache \cap Followers' : since'[v] < since'[x]
          PROVE  v \in new.cache
      <4>1. u \notin old.cache /\ v \in Followers'
        BY <1>1, <2>3, <3>1
      <4>2. v \in Followers /\ HasOlder(old.cache, v)
        BY <1>6, <2>1, <3>2, <4>1
      <4> QED
        BY <2>1, <2>3, <3>1, <3>2, <4>2
    <3> QED
      BY <1>1, <1>4, <2>1, <2>3, <3>1, <3>2
  <2> QED
    BY <2>4, <2>5, <2>6
<1>8. (Settled => Gapless(cached))'
  <2> SUFFICES ASSUME Settled, NEW v \in Followers', \E x \in cached \cap Followers' : since'[v] < since'[x]
               PROVE  v \in cached
    BY <1>1 DEF Settled, Gapless, HasOlder
  <2>1. u \notin cached /\ Gapless(cached)
    BY <1>1, <1>2 DEF GapInv, Settled, FInv, CachedFollowersFollow
  <2> QED
    BY <1>6, <2>1 DEF Gapless
<1> QED
  BY <1>3, <1>5, <1>7, <1>8 DEF GapInv

(* Who leaves is noted by whom it concerns.                                *)
LEMMA GapUnfollow ==
  ASSUME GapInv, NEW u \in Users, Unfollow(u)
  PROVE  GapInv'
<1>1. /\ u \in Followers /\ changes' = changes + 1 /\ changes < MaxChanges
      /\ since' = [since EXCEPT ![u] = 0] /\ left' = left \cup {u}
      /\ Moved(u, TRUE) /\ UNCHANGED <<cached, doubts>>
  BY DEF Unfollow
<1>2. since \in [Users -> 0..changes] /\ changes \in Nat /\ FInv
  BY FollowerSyncAssumption DEF GapInv
<1>3. FInv'
  BY <1>2, UnfollowHolds
<1>4. /\ Followers' = Followers \ {u} /\ \A v \in Users \ {u} : since'[v] = since[v]
      /\ Followers \subseteq Users
  BY <1>1, <1>2 DEF Followers
<1>5. since' \in [Users -> 0..changes'] /\ changes' \in 0..MaxChanges
  BY <1>1, <1>2, FollowerSyncAssumption
<1>6. ~ Settled'
  BY <1>1 DEF Settled
<1>7. ASSUME NEW r \in Runners
      PROVE  NoGap(r)' /\ (run'[r].pc = "paging" => run'[r].token \in Int)
  <2> DEFINE old == run[r]
             new == run'[r]
             P == Passed(r)
  <2>1. /\ new.pc = old.pc /\ new.mode = old.mode /\ new.cache = old.cache /\ new.seen = old.seen
        /\ new.token = old.token
        /\ old.pc # "idle" => new.moved = old.moved \cup {u}
        /\ old.pc # "idle" /\ old.mode = "full" => u \in new.left
    BY <1>1, <1>2, MovedKeeps, MovedNotes
  <2>2. /\ old.pc \in {"idle", "paging", "saving"} /\ (old.pc = "paging" => old.token \in Int)
        /\ old.pc # "idle" => old.mode \in {"full", "delta"} /\ FullMeets(r) /\ DeltaMeets(r)
    BY DEF GapInv, NoGap
  <2>3. P' \subseteq P \ {u} /\ P \subseteq Followers
    BY <1>4, <2>1 DEF Passed
  <2> HIDE DEF old, new, P
  <2> SUFFICES ASSUME old.pc # "idle" PROVE FullMeets(r)' /\ DeltaMeets(r)' /\ DeltaFits(r)'
    BY <2>1, <2>2 DEF NoGap, old, new
  <2>4. FullMeets(r)'
    <3> SUFFICES ASSUME new.mode = "full"
                 PROVE  /\ new.seen \subseteq new.cache
                        /\ P' \ new.moved \subseteq new.seen
                        /\ new.left # {}
      BY DEF FullMeets, P, new
    <3>1. old.seen \subseteq old.cache /\ P \ old.moved \subseteq old.seen
      BY <2>1, <2>2 DEF FullMeets, P, old
    <3> QED
      BY <2>1, <2>3, <3>1
  <2>5. DeltaMeets(r)'
    <3> SUFFICES ASSUME new.mode = "delta", NEW v \in P' \ new.moved
                 PROVE  \/ v \in new.cache
                        \/ new.pc = "saving"
                           /\ \E x \in new.cache \cap Users : x \in Followers' => since'[v] < since'[x]
      BY DEF DeltaMeets, P, new
    <3>1. v \in P \ old.moved /\ v # u /\ v \in Users
      BY <1>4, <2>1, <2>3
    <3>2. \/ v \in old.cache
          \/ old.pc = "saving"
             /\ \E x \in old.cache \cap Users : x \in Followers => since[v] < since[x]
      BY <2>1, <2>2, <3>1 DEF DeltaMeets, P, old
    <3> QED
      BY <1>4, <2>1, <3>1, <3>2
  <2>6. DeltaFits(r)'
    BY <1>6 DEF DeltaFits
  <2> QED
    BY <2>4, <2>5, <2>6
<1> QED
  BY <1>3, <1>5, <1>6, <1>7 DEF GapInv

(* A run that starts has passed nobody.                                    *)
LEMMA GapStart ==
  ASSUME GapInv, NEW r \in Runners, NEW kind \in {"full", "delta"}, Start(r, kind)
  PROVE  GapInv'
<1>1. UNCHANGED <<since, changes, cached, left, doubts>> /\ Followers' = Followers
  BY DEF Start, Followers
<1>2. FInv'
  BY StartHolds DEF GapInv
<1>3. \A q \in Runners \ {r} : NoGap(q)' /\ (run'[q].pc = "paging" => run'[q].token \in Int)
  <2>1. \A q \in Runners \ {r} : run'[q] = run[q]
    BY DEF Start, GapInv, FInv
  <2> QED
    BY <1>1, <2>1, GapKept
<1>4. /\ run'[r].pc = "paging" /\ run'[r].mode = kind /\ run'[r].cache = cached
      /\ run'[r].seen = {} /\ run'[r].token = MaxChanges + 1
  BY NoRunIsIdle DEF Start, GapInv, FInv, NoRun
<1>5. since \in [Users -> 0..changes] /\ changes \in 0..MaxChanges
  BY DEF GapInv
<1>6. Passed(r)' = {}
  <2>1. \A u \in Followers : ~ (since[u] >= MaxChanges + 1)
    BY <1>5, FollowerSyncAssumption DEF Followers
  <2> QED
    BY <1>1, <1>4, <2>1 DEF Passed
<1>7. NoGap(r)' /\ run'[r].token \in Int
  BY <1>1, <1>4, <1>6, FollowerSyncAssumption DEF NoGap, FullMeets, DeltaMeets, DeltaFits
<1>8. (Settled => Gapless(cached))'
  BY <1>1 DEF GapInv, Settled, Gapless, HasOlder
<1> QED
  BY <1>1, <1>2, <1>3, <1>5, <1>7, <1>8 DEF GapInv

(* What the end of one run leaves of the others.                           *)
LEMMA EndedNotes ==
  ASSUME FInv, NEW r \in Runners, NEW saved \in BOOLEAN, Ended(r, saved), NEW q \in Runners, q # r
  PROVE  run'[q].token = run[q].token /\ run'[q].cut = run[q].cut /\ run'[q].moved = run[q].moved
  BY NoRunIsIdle DEF Ended, FInv, RunOK, Fields

(* Whoever saves has no gap, and the others do not build on what they      *)
(* loaded any more.                                                        *)
LEMMA GapSave ==
  ASSUME GapInv, NEW r \in Runners, SaveFollowerCache(r)
  PROVE  GapInv'
<1>1. UNCHANGED <<since, changes>> /\ Followers' = Followers /\ Ended(r, TRUE) /\ FInv
  BY DEF SaveFollowerCache, Followers, GapInv
<1>2. FInv'
  BY <1>1, SaveHolds
<1>3. ASSUME NEW q \in Runners
      PROVE  NoGap(q)' /\ (run'[q].pc = "paging" => run'[q].token \in Int)
  <2>1. CASE q = r
    BY <1>1, <2>1, EndedKeeps DEF NoGap
  <2>2. CASE q # r
    <3>1. /\ run'[q].pc = run[q].pc /\ run'[q].mode = run[q].mode
          /\ run'[q].cache = run[q].cache /\ run'[q].seen = run[q].seen
          /\ run'[q].left = run[q].left /\ run'[q].token = run[q].token
          /\ run'[q].moved = run[q].moved
          /\ run[q].pc # "idle" => run'[q].stale = TRUE
      BY <1>1, <2>2, EndedKeeps, EndedNotes
    <3>2. NoGap(q) /\ (run[q].pc = "paging" => run[q].token \in Int)
      BY DEF GapInv
    <3>3. Passed(q)' = Passed(q) /\ \A S, u : HasOlder(S, u)' <=> HasOlder(S', u)
      BY <1>1, <3>1 DEF Passed, HasOlder
    <3>4. run[q].pc # "idle" => FullMeets(q)' /\ DeltaMeets(q)'
      BY <1>1, <3>1, <3>2, <3>3 DEF NoGap, FullMeets, DeltaMeets
    <3>5. run[q].pc # "idle" => DeltaFits(q)'
      BY <3>1 DEF DeltaFits
    <3> QED
      BY <3>1, <3>2, <3>4, <3>5 DEF NoGap
  <2> QED
    BY <2>1, <2>2
<1>4. (Settled => Gapless(cached))'
  <2> SUFFICES ASSUME doubts' = {}, left' = {} PROVE Gapless(cached')
    BY <1>1 DEF Settled, Gapless, HasOlder
  <2>1. /\ run[r].pc = "saving" /\ run[r].mode \in {"full", "delta"}
        /\ FullMeets(r) /\ DeltaFits(r) /\ Passed(r) = Followers
    BY DEF GapInv, NoGap, SaveFollowerCache, Passed
  <2>2. CASE run[r].mode = "full"
    <3>1. cached' = run[r].seen
      BY <2>1, <2>2 DEF SaveFollowerCache, Missing, FullMeets
    <3>2. run[r].left = {}
      BY <2>2 DEF SaveFollowerCache
    <3> QED
      BY <2>1, <2>2, <3>1, <3>2 DEF FullMeets, Gapless
  <2>3. CASE run[r].mode = "delta"
    <3>1. cached' = run[r].cache
      BY <2>3 DEF SaveFollowerCache, Missing
    <3>2. Settled /\ ~ run[r].cut /\ ~ run[r].stale
      BY <2>3 DEF SaveFollowerCache, Settled
    <3> QED
      BY <2>1, <2>3, <3>1, <3>2 DEF DeltaFits, Gapless
  <2> QED
    BY <2>1, <2>2, <2>3
<1> QED
  BY <1>1, <1>2, <1>3, <1>4 DEF GapInv

(* A run that fails changes nothing.                                       *)
LEMMA GapFail ==
  ASSUME GapInv, NEW r \in Runners, RunFails(r)
  PROVE  GapInv'
<1>1. UNCHANGED <<since, changes, cached, left, doubts>> /\ Followers' = Followers
      /\ Ended(r, FALSE) /\ FInv
  BY DEF RunFails, Followers, GapInv
<1>2. FInv'
  BY <1>1, FailHolds
<1>3. ASSUME NEW q \in Runners
      PROVE  NoGap(q)' /\ (run'[q].pc = "paging" => run'[q].token \in Int)
  <2>1. CASE q = r
    BY <1>1, <2>1, EndedKeeps DEF NoGap
  <2>2. CASE q # r
    <3>1. /\ run'[q].pc = run[q].pc /\ run'[q].mode = run[q].mode
          /\ run'[q].cache = run[q].cache /\ run'[q].seen = run[q].seen
          /\ run'[q].left = run[q].left /\ run'[q].token = run[q].token
          /\ run'[q].moved = run[q].moved /\ run'[q].cut = run[q].cut
          /\ run'[q].stale <=> run[q].stale
      BY <1>1, <2>2, EndedKeeps, EndedNotes
    <3>2. NoGap(q) /\ (run[q].pc = "paging" => run[q].token \in Int)
      BY DEF GapInv
    <3>3. Passed(q)' = Passed(q) /\ (\A S, u : HasOlder(S, u)' <=> HasOlder(S', u))
          /\ (Settled' <=> Settled)
      BY <1>1, <3>1 DEF Passed, HasOlder, Settled
    <3>4. run[q].pc # "idle" => FullMeets(q)' /\ DeltaMeets(q)'
      BY <1>1, <3>1, <3>2, <3>3 DEF NoGap, FullMeets, DeltaMeets
    <3>5. run[q].pc # "idle" => DeltaFits(q)'
      BY <1>1, <3>1, <3>2, <3>3 DEF NoGap, DeltaFits
    <3> QED
      BY <3>1, <3>2, <3>4, <3>5 DEF NoGap
  <2> QED
    BY <2>1, <2>2
<1>4. (Settled => Gapless(cached))'
  BY <1>1 DEF GapInv, Settled, Gapless, HasOlder
<1> QED
  BY <1>1, <1>2, <1>3, <1>4 DEF GapInv

(* Every step keeps it, and a run that ends leaves out nobody it should    *)
(* have.                                                                   *)
LEMMA GapStep == GapInv /\ [FollowerSteps]_followerVars => GapInv'
<1> SUFFICES ASSUME GapInv, [FollowerSteps]_followerVars PROVE GapInv'
  OBVIOUS
<1>1. CASE UNCHANGED followerVars
  <2>1. FInv'
    BY <1>1, FollowerStepHolds DEF GapInv
  <2>2. \A r \in Runners : NoGap(r)' /\ (run'[r].pc = "paging" => run'[r].token \in Int)
    BY <1>1, GapKept DEF followerVars
  <2> QED
    BY <1>1, <2>1, <2>2 DEF followerVars, GapInv, Settled, Gapless, HasOlder, Followers
<1>2. CASE FollowerSteps
  BY <1>2, GapFollow, GapUnfollow, GapStart, GapPage, GapSave, GapFail DEF FollowerSteps
<1> QED
  BY <1>1, <1>2

(* A run that ends, with a cache like its own on file and nothing to doubt *)
(* it: whom it does not have moved while it ran.                           *)
LEMMA NobodyIsMissing ==
  ASSUME GapInv, GapInv', UNCHANGED since, NEW r \in Runners, run[r].pc = "saving",
         cached' = run[r].cache \ Missing(run[r]), doubts' = {}, left' = {}
  PROVE  Followers \ run[r].moved \subseteq cached'
<1>1. /\ run[r].mode \in {"full", "delta"} /\ FullMeets(r) /\ DeltaMeets(r)
      /\ Passed(r) = Followers /\ Followers' = Followers
  BY DEF GapInv, NoGap, Passed, Followers
<1>2. CASE run[r].mode = "full"
  BY <1>1, <1>2 DEF FullMeets, Missing
<1>3. CASE run[r].mode = "delta"
  <2>1. cached' = run[r].cache
    BY <1>3 DEF Missing
  <2>2. cached' \subseteq Followers
    BY <1>1 DEF GapInv, FInv, CachedFollowersFollow
  <2>3. \A v \in Followers : (\E x \in cached' \cap Followers : since[v] < since[x]) => v \in cached'
    BY <1>1 DEF GapInv, Settled, Gapless, HasOlder
  <2> SUFFICES ASSUME NEW v \in Followers \ run[r].moved PROVE v \in cached'
    OBVIOUS
  <2>4. \/ v \in run[r].cache
        \/ \E x \in run[r].cache \cap Users : x \in Followers => since[v] < since[x]
    BY <1>1, <1>3 DEF DeltaMeets
  <2> QED
    BY <2>1, <2>2, <2>3, <2>4
<1> QED
  BY <1>1, <1>2, <1>3

(* However many users follow and leave, however many runners start runs,   *)
(* of whatever sizes: a run that ends with nothing to doubt it has every   *)
(* follower who did not move while it ran, also if it read one page only.  *)
THEOREM NobodyLeftOut == FollowerSpec => NobodyIsLeftOut
<1>1. GapInv /\ [FollowerSteps]_followerVars =>
        [\A r \in Runners :
           run[r].pc = "saving" /\ run'[r].pc = "idle"
           /\ cached' = run[r].cache \ Missing(run[r]) /\ doubts' = {} /\ left' = {}
           => Followers \ run[r].moved \subseteq cached']_followerVars
  <2> SUFFICES ASSUME GapInv, FollowerSteps, NEW r \in Runners,
                      run[r].pc = "saving", run'[r].pc = "idle",
                      cached' = run[r].cache \ Missing(run[r]), doubts' = {}, left' = {}
               PROVE  Followers \ run[r].moved \subseteq cached'
    OBVIOUS
  <2>1. GapInv'
    BY GapStep
  <2>2. UNCHANGED since
    <3>1. ASSUME NEW u \in Users, Follow(u) \/ Unfollow(u) PROVE FALSE
      <4>1. PICK leaves \in BOOLEAN : Moved(u, leaves)
        BY <3>1 DEF Follow, Unfollow
      <4>2. run'[r].pc = run[r].pc
        BY <4>1, MovedKeeps DEF GapInv
      <4> QED
        BY <4>2
    <3> QED
      BY <3>1 DEF FollowerSteps, Start, GetFollowersPage, SaveFollowerCache, RunFails
  <2> QED
    BY <2>1, <2>2, NobodyIsMissing
<1> QED
  BY GapInit, GapStep, <1>1, PTL DEF FollowerSpec, NobodyIsLeftOut

-----------------------------------------------------------------------------
(* The result sync. *)

(* Names a page can show, and what a sync and a file keep of a match. *)
Shown == {p.home : p \in Pages} \cup {p.away : p \in Pages} \cup {Unnamed}
ResultRow ==
  [status : {"missing", "mismatch", "confirmed", "pending", "source_error"}, winner : Shown, of : Nat]
Sync ==
  [pc : {"idle", "calendar", "matches", "exiting"}, calendar : [Mapped -> Nat], next : Nat,
   rows : [Mapped -> ResultRow]]

(* The types of the result sync: FIFA has said something of every match. *)
ResultsTyped ==
  /\ told \in [Mapped -> Seq(Pages)]
  /\ \A m \in Mapped : Len(told[m]) > 0
  /\ syncRunning \in BOOLEAN
  /\ child \in [Children -> Sync]
  /\ file \in [Mapped -> ResultRow]

(* One sync at a time, and the flag tells. *)
OneSync ==
  /\ \A c \in Children : child[c].pc # "idle" => syncRunning
  /\ \A c, d \in Children : child[c].pc # "idle" /\ child[d].pc # "idle" => c = d

(* Nothing older than the file, nothing FIFA has not said. *)
Recent(m, n) == n \in file[m].of..Len(told[m])
Genuine(m, row) ==
  IF row.of = 0 THEN row.status # "confirmed" ELSE Recent(m, row.of) /\ row = RowOf(m, row.of)

(* The file is not ahead of FIFA, and a sync at work is not behind the file. *)
SyncReadsRecent ==
  /\ \A m \in Mapped : file[m].of =< Len(told[m])
  /\ \A c \in Children : child[c].pc \in {"calendar", "matches"} =>
       \A m \in Mapped :
         /\ child[c].calendar[m] # 0 => Recent(m, child[c].calendar[m])
         /\ Genuine(m, child[c].rows[m])

(* The inductive invariant of the result sync. *)
ResultsInv == ResultsTyped /\ OneSync /\ SyncReadsRecent

(* An idle sync and an empty file have their types. *)
LEMMA NoSyncTyped == NoSync \in Sync /\ NoRows \in [Mapped -> ResultRow]
BY DEF NoSync, NoRows, NoRow, Sync, ResultRow, Shown

(* A row made of an edition says which. *)
LEMMA RowOfTyped ==
  ASSUME ResultsTyped, NEW m \in Mapped, NEW n \in 1..Len(told[m])
  PROVE  /\ RowOf(m, n) \in ResultRow
         /\ RowOf(m, n).of = n
<1>1. told[m][n] \in Pages
  BY DEF ResultsTyped
<1>2. told[m][n].winner \in {"none", "home", "away"}
  BY <1>1, MatchResultsAssumption
<1>3. WinnerTeam(told[m][n]) \in Shown
  BY <1>1, <1>2 DEF WinnerTeam, Shown
<1>4. Status(m, told[m][n]) \in {"mismatch", "confirmed", "pending"}
  BY DEF Status
<1> QED
  BY <1>3, <1>4 DEF RowOf, ResultRow, Shown

(* At first nobody syncs and the file is empty. *)
LEMMA ResultsInitHolds == ResultsInit => ResultsInv
<1> SUFFICES ASSUME ResultsInit PROVE ResultsInv
  OBVIOUS
<1>1. told \in [Mapped -> Seq(Pages)] /\ \A m \in Mapped : Len(told[m]) = 1 /\ Len(told[m]) > 0
  <2>1. \A p \in Pages : <<p>> \in Seq(Pages) /\ Len(<<p>>) = 1 /\ Len(<<p>>) > 0
    OBVIOUS
  <2>2. \A m \in Mapped : \E p \in Pages : told[m] = <<p>>
    BY DEF ResultsInit
  <2>3. told = [m \in Mapped |-> told[m]]
    BY DEF ResultsInit
  <2>4. \A m \in Mapped : told[m] \in Seq(Pages) /\ Len(told[m]) = 1 /\ Len(told[m]) > 0
    BY <2>1, <2>2
  <2> QED
    BY <2>3, <2>4
<1>2. ResultsTyped
  <2>1. child \in [Children -> Sync] /\ file \in [Mapped -> ResultRow] /\ syncRunning \in BOOLEAN
    BY NoSyncTyped DEF ResultsInit
  <2>2. \A m \in Mapped : Len(told[m]) > 0
    BY <1>1
  <2> QED
    BY <1>1, <2>1, <2>2 DEF ResultsTyped
<1>3. OneSync
  BY DEF ResultsInit, OneSync, NoSync
<1>4. SyncReadsRecent
  BY <1>1 DEF ResultsInit, SyncReadsRecent, NoSync, NoRows, NoRow
<1> QED
  BY <1>2, <1>3, <1>4 DEF ResultsInv

(* What is genuine stays so while FIFA and the file stand still. *)
LEMMA StillGenuine ==
  ASSUME UNCHANGED <<told, file>>, NEW m, NEW row
  PROVE  Genuine(m, row)' <=> Genuine(m, row)
BY DEF Genuine, Recent, RowOf, Status, TeamsMatchExpected, HasOfficialWinner, WinnerTeam

(* A step of one sync that leaves FIFA and the file alone. *)
LEMMA SyncMoves ==
  ASSUME ResultsInv, NEW c \in Children, NEW s \in Sync, Alter(c, s), UNCHANGED <<told, file>>,
         \/ child[c].pc # "idle" /\ s.pc # "idle" /\ syncRunning' = syncRunning
         \/ ~ syncRunning /\ syncRunning' = TRUE
         \/ child[c].pc # "idle" /\ s.pc = "idle" /\ syncRunning' = FALSE,
         s.pc \in {"calendar", "matches"} => \A m \in Mapped : 
             /\ s.calendar[m] # 0 => Recent(m, s.calendar[m])
             /\ Genuine(m, s.rows[m])
  PROVE  ResultsInv'
<1> USE DEF Alter, ResultsInv
<1>1. ResultsTyped'
  BY DEF ResultsTyped
<1>2. OneSync'
  BY DEF OneSync, ResultsTyped
<1>3. SyncReadsRecent'
  <2>1. \A m, row : Genuine(m, row)' <=> Genuine(m, row)
    BY StillGenuine
  <2>2. \A m, n : Recent(m, n)' <=> Recent(m, n)
    BY DEF Recent
  <2>3. \A d \in Children : child'[d] = IF d = c THEN s ELSE child[d]
    BY DEF ResultsTyped
  <2> QED
    BY <2>1, <2>2, <2>3 DEF SyncReadsRecent
<1> QED
  BY <1>1, <1>2, <1>3

(* The last edition is recent. *)
LEMMA NowIsRecent ==
  ASSUME ResultsInv, NEW m \in Mapped
  PROVE  Now[m] = Len(told[m]) /\ Now[m] \in Nat \ {0} /\ Recent(m, Now[m])
BY DEF Now, Recent, ResultsInv, ResultsTyped, SyncReadsRecent, ResultRow

(* The sync that writes leaves the others without anything to compare. *)
LEMMA FileWritten ==
  ASSUME ResultsInv, NEW c \in Children, WriteResults(c)
  PROVE  ResultsInv'
<1>1. child[c] \in Sync /\ child[c].pc = "matches"
  BY DEF WriteResults, ResultsInv, ResultsTyped
<1>2. /\ file' = child[c].rows /\ told' = told /\ syncRunning' = syncRunning
      /\ child' = [child EXCEPT ![c] = [child[c] EXCEPT !.pc = "exiting"]]
  BY DEF WriteResults, Alter
<1>3. [child[c] EXCEPT !.pc = "exiting"] \in Sync /\ [child[c] EXCEPT !.pc = "exiting"].pc = "exiting"
  BY <1>1 DEF Sync
<1>4. ResultsTyped'
  BY <1>1, <1>2, <1>3 DEF ResultsInv, ResultsTyped, Sync
<1>5. OneSync'
  BY <1>1, <1>2, <1>3 DEF ResultsInv, ResultsTyped, OneSync
<1>6. \A d \in Children : child'[d].pc \notin {"calendar", "matches"}
  BY <1>1, <1>2, <1>3 DEF ResultsInv, ResultsTyped, OneSync
<1>7. \A m \in Mapped : file'[m].of =< Len(told[m])
  <2> SUFFICES ASSUME NEW m \in Mapped PROVE file'[m].of =< Len(told[m])
    OBVIOUS
  <2>1. Genuine(m, file'[m]) /\ file'[m].of \in Nat
    BY <1>1, <1>2 DEF ResultsInv, SyncReadsRecent, Sync, ResultRow
  <2> QED
    BY <2>1 DEF Genuine, Recent, ResultsInv, ResultsTyped
<1> QED
  BY <1>2, <1>4, <1>5, <1>6, <1>7 DEF ResultsInv, SyncReadsRecent

(* Every step keeps it: an edit of FIFA only adds an edition. *)
LEMMA ResultsStepHolds == ResultsInv /\ [ResultsSteps]_resultsVars => ResultsInv'
<1> SUFFICES ASSUME ResultsInv, [ResultsSteps]_resultsVars PROVE ResultsInv'
  OBVIOUS
<1> USE NoSyncTyped
<1>1. CASE UNCHANGED resultsVars
  BY <1>1, StillGenuine DEF resultsVars, ResultsInv, ResultsTyped, OneSync, SyncReadsRecent, Recent
<1>2. ASSUME NEW c \in Children, RunSync(c) PROVE ResultsInv'
  <2> DEFINE s == [NoSync EXCEPT !.pc = IF ByNumber = {} THEN "matches" ELSE "calendar"]
  <2>1. s \in Sync /\ s.pc # "idle" /\ s.calendar = NoSync.calendar /\ s.rows = NoSync.rows
    BY DEF Sync, NoSync
  <2>2. \A m \in Mapped : s.calendar[m] = 0 /\ s.rows[m].status = "missing" /\ s.rows[m].of = 0
    BY <2>1 DEF NoSync, NoRows, NoRow
  <2> QED
    BY <1>2, <2>1, <2>2, SyncMoves DEF RunSync, Genuine
<1>3. ASSUME NEW c \in Children, CalendarComes(c) PROVE ResultsInv'
  <2>1. PICK listed \in SUBSET ByNumber :
          Alter(c, [child[c] EXCEPT !.pc = "matches",
                       !.calendar = [m \in Mapped |-> IF m \in listed THEN Now[m] ELSE 0]])
    BY <1>3 DEF CalendarComes
  <2> DEFINE s == [child[c] EXCEPT !.pc = "matches",
                       !.calendar = [m \in Mapped |-> IF m \in listed THEN Now[m] ELSE 0]]
  <2>2. s \in Sync /\ s.pc = "matches" /\ s.rows = child[c].rows
        /\ s.calendar = [m \in Mapped |-> IF m \in listed THEN Now[m] ELSE 0]
    <3>1. child[c] \in Sync /\ \A m \in Mapped : Now[m] \in Nat
      BY NowIsRecent DEF ResultsInv, ResultsTyped
    <3> QED
      BY <3>1 DEF Sync
  <2> QED
    <3>1. \A m \in Mapped : s.calendar[m] # 0 => Recent(m, s.calendar[m])
      BY <2>2, NowIsRecent
    <3>2. \A m \in Mapped : Genuine(m, s.rows[m])
      BY <1>3, <2>2 DEF CalendarComes, ResultsInv, SyncReadsRecent
    <3> QED
      BY <1>3, <2>1, <2>2, <3>1, <3>2, SyncMoves DEF CalendarComes
<1>4. ASSUME NEW c \in Children, AskForMatch(c) PROVE ResultsInv'
  <2>1. PICK m, row : /\ row \in Answers(c, m)
                      /\ Alter(c, [child[c] EXCEPT !.next = @ + 1, !.rows[m] = row])
    BY <1>4 DEF AskForMatch
  <2> DEFINE s == [child[c] EXCEPT !.next = @ + 1, !.rows[m] = row]
  <2>2. child[c] \in Sync /\ child[c].pc = "matches"
    BY <1>4 DEF AskForMatch, ResultsInv, ResultsTyped
  <2>3. m \in Mapped => row \in ResultRow /\ Genuine(m, row)
    <3> SUFFICES ASSUME m \in Mapped PROVE row \in ResultRow /\ Genuine(m, row)
      OBVIOUS
    <3>1. SourceError \in ResultRow /\ SourceError.status # "confirmed" /\ SourceError.of = 0
      BY DEF SourceError, ResultRow, Shown
    <3>2. ASSUME NEW n, Recent(m, n), n # 0
          PROVE  RowOf(m, n) \in ResultRow /\ Genuine(m, RowOf(m, n))
      <4>1. n \in 1..Len(told[m])
        BY <3>2 DEF Recent, ResultsInv, ResultsTyped, ResultRow
      <4> QED
        BY <3>2, <4>1, RowOfTyped DEF Genuine, ResultsInv
    <3>3. row = SourceError \/ \E n : Recent(m, n) /\ n # 0 /\ row = RowOf(m, n)
      BY <2>1, <2>2, NowIsRecent DEF Answers, ResultsInv, SyncReadsRecent
    <3> QED
      BY <3>1, <3>2, <3>3 DEF Genuine
  <2>4. s.rows = [child[c].rows EXCEPT ![m] = row] /\ s.pc = "matches" /\ s.calendar = child[c].calendar
        /\ s.next = child[c].next + 1
    BY <2>2 DEF Sync
  <2>5. s.rows \in [Mapped -> ResultRow]
        /\ \A x \in Mapped : s.rows[x] = IF x = m THEN row ELSE child[c].rows[x]
    BY <2>2, <2>3, <2>4 DEF Sync
  <2>6. s \in Sync
    <3>1. s = [child[c] EXCEPT !.next = child[c].next + 1, !.rows = [child[c].rows EXCEPT ![m] = row]]
      OBVIOUS
    <3>2. [child[c].rows EXCEPT ![m] = row] \in [Mapped -> ResultRow]
      BY <2>4, <2>5
    <3>3. child[c].next + 1 \in Nat
      BY <2>2 DEF Sync
    <3>4. \A n \in Nat, r \in [Mapped -> ResultRow] : [child[c] EXCEPT !.next = n, !.rows = r] \in Sync
      BY <2>2 DEF Sync
    <3> HIDE DEF s
    <3> QED
      BY <3>1, <3>2, <3>3, <3>4
  <2>7. ASSUME NEW t \in Sync, Alter(c, t), t.pc = "matches", t.calendar = child[c].calendar,
               \A x \in Mapped : t.rows[x] = IF x = m THEN row ELSE child[c].rows[x]
        PROVE  ResultsInv'
    <3>1. \A x \in Mapped : t.calendar[x] # 0 => Recent(x, t.calendar[x])
      BY <2>2, <2>7 DEF ResultsInv, SyncReadsRecent
    <3>2. \A x \in Mapped : Genuine(x, t.rows[x])
      BY <2>2, <2>3, <2>7 DEF ResultsInv, SyncReadsRecent
    <3>3. UNCHANGED <<told, syncRunning, file>>
      BY <1>4 DEF AskForMatch
    <3> QED
      BY <2>2, <2>7, <3>1, <3>2, <3>3, SyncMoves
  <2>8. Alter(c, s)
    BY <2>1
  <2> HIDE DEF s
  <2> QED
    BY <2>4, <2>5, <2>6, <2>7, <2>8
<1>5. ASSUME NEW c \in Children, WriteResults(c) PROVE ResultsInv'
  BY <1>5, FileWritten
<1>6. ASSUME NEW c \in Children, SyncCloses(c) \/ SyncFails(c) PROVE ResultsInv'
  BY <1>6, SyncMoves DEF SyncCloses, SyncFails, NoSync
<1>7. ASSUME NEW m \in Mapped, NEW p \in Pages, Edit(m, p) PROVE ResultsInv'
  <2>1. told' = [told EXCEPT ![m] = Append(@, p)] /\ UNCHANGED <<syncRunning, child, file>>
    BY <1>7 DEF Edit
  <2>2. told' \in [Mapped -> Seq(Pages)]
        /\ \A x \in Mapped : /\ Len(told[x]) =< Len(told'[x]) /\ Len(told'[x]) \in Nat
                              /\ \A n \in 1..Len(told[x]) : told'[x][n] = told[x][n]
    BY <2>1 DEF ResultsInv, ResultsTyped
  <2>3. ResultsTyped' /\ OneSync'
    BY <2>1, <2>2 DEF ResultsInv, ResultsTyped, OneSync
  <2>4. \A x \in Mapped : \A n : Recent(x, n) => Recent(x, n)'
    BY <2>1, <2>2 DEF Recent, ResultsInv, ResultsTyped, ResultRow
  <2>5. \A x \in Mapped : \A row : Genuine(x, row) => Genuine(x, row)'
    <3> SUFFICES ASSUME NEW x \in Mapped, NEW row, Genuine(x, row) PROVE Genuine(x, row)'
      OBVIOUS
    <3>1. CASE row.of # 0
      <4>1. row.of \in 1..Len(told[x])
        BY <3>1 DEF Genuine, Recent, ResultsInv, ResultsTyped, ResultRow
      <4>2. told'[x][row.of] = told[x][row.of]
        BY <2>2, <4>1
      <4>3. RowOf(x, row.of)' = RowOf(x, row.of)
        BY <4>2 DEF RowOf, Status, TeamsMatchExpected, HasOfficialWinner, WinnerTeam
      <4> QED
        BY <2>4, <4>3 DEF Genuine
    <3> QED
      BY <3>1 DEF Genuine
  <2>6. SyncReadsRecent'
    <3>1. \A x \in Mapped : file'[x].of =< Len(told'[x])
      BY <2>1, <2>2 DEF ResultsInv, ResultsTyped, SyncReadsRecent, ResultRow
    <3>2. \A c \in Children : child[c].pc \in {"calendar", "matches"} =>
            \A x \in Mapped : /\ child[c].calendar[x] # 0 => Recent(x, child[c].calendar[x])
                              /\ Genuine(x, child[c].rows[x])
      BY DEF ResultsInv, SyncReadsRecent
    <3>3. \A c \in Children : child[c].pc \in {"calendar", "matches"} =>
            \A x \in Mapped : /\ child[c].calendar[x] # 0 => Recent(x, child[c].calendar[x])'
                              /\ Genuine(x, child[c].rows[x])'
      BY <2>1, <2>4, <2>5, <3>2, Zenon
    <3> QED
      BY <2>1, <3>1, <3>3, Zenon DEF SyncReadsRecent
  <2> QED
    BY <2>3, <2>6 DEF ResultsInv
<1> QED
  BY <1>1, <1>2, <1>3, <1>4, <1>5, <1>6, <1>7 DEF ResultsSteps

(* What a file says of a match moves forward, if anything does. *)
LEMMA ResultsStepForward ==
  ResultsInv /\ [ResultsSteps]_resultsVars =>
    [\A m \in Mapped : file'[m].status = "confirmed" =>
       LET p == told[m][file'[m].of]
       IN  /\ p.final /\ p.official
           /\ file'[m].winner = [home |-> p.home, away |-> p.away][p.winner]
           /\ file'[m].of >= file[m].of]_file
<1> SUFFICES ASSUME ResultsInv, ResultsSteps, file' # file, NEW m \in Mapped, file'[m].status = "confirmed"
             PROVE  LET p == told[m][file'[m].of]
                    IN  /\ p.final /\ p.official
                        /\ file'[m].winner = [home |-> p.home, away |-> p.away][p.winner]
                        /\ file'[m].of >= file[m].of
  BY DEF resultsVars
<1>1. PICK c \in Children : WriteResults(c)
  BY DEF ResultsSteps, RunSync, CalendarComes, AskForMatch, SyncCloses, SyncFails, Edit
<1> DEFINE row == child[c].rows[m]
           p == told[m][row.of]
<1>2. file'[m] = row /\ Genuine(m, row) /\ row.status = "confirmed"
  BY <1>1 DEF WriteResults, ResultsInv, SyncReadsRecent
<1>3. row.of \in 1..Len(told[m]) /\ row.of >= file[m].of /\ row = RowOf(m, row.of)
  BY <1>2 DEF Genuine, Recent, ResultsInv, ResultsTyped, ResultRow
<1>4. p \in Pages
  BY <1>3 DEF ResultsInv, ResultsTyped
<1>5. Status(m, p) = "confirmed" /\ row.winner = WinnerTeam(p)
  BY <1>2, <1>3 DEF RowOf
<1> HIDE DEF row, p
<1>6. p.final /\ p.official /\ WinnerTeam(p) # Unnamed
  BY <1>5 DEF Status, HasOfficialWinner
<1>7. p.winner \in {"none", "home", "away"}
  BY <1>4, MatchResultsAssumption
<1>8. WinnerTeam(p) = [home |-> p.home, away |-> p.away][p.winner]
  <2>1. CASE p.winner = "none"
    BY <1>6, <2>1 DEF WinnerTeam
  <2>2. CASE p.winner = "home"
    BY <2>2 DEF WinnerTeam
  <2>3. CASE p.winner = "away"
    BY <2>3 DEF WinnerTeam
  <2> QED
    BY <1>7, <2>1, <2>2, <2>3
<1> QED
  BY <1>2, <1>3, <1>5, <1>6, <1>8 DEF row, p

(* However often FIFA corrects a match and whatever a sync misses or fails *)
(* on: a file that says a match is confirmed says what a final, official   *)
(* edition of FIFA said, and no older one than the file before it.         *)
THEOREM ResultsCorrect == ResultsSpec => ResultsMoveForward
<1>1. ResultsSpec => []ResultsInv
  BY ResultsInitHolds, ResultsStepHolds, PTL DEF ResultsSpec
<1> QED
  BY <1>1, ResultsStepForward, PTL DEF ResultsSpec, ResultsMoveForward

-----------------------------------------------------------------------------
(* The data files. *)

(* The files as the server writes them: votes among those that may be cast.*)
DataFile == [there : BOOLEAN, votes : SUBSET Votes, version : Nat]

(* The types of the data files and of the clones they are copied through. *)
DataTyped ==
  /\ up \in BOOLEAN
  /\ disk \in [Files -> DataFile] /\ repo \in [Files -> DataFile]
  /\ worktree \in [{"restore", "backup"} -> [Files -> DataFile]]
  /\ accepted \in SUBSET Votes

(* The SQLite store has made its file before the first vote can come, and  *)
(* the restore leaves a file that is there alone.                          *)
StoreBeforeVotes == mode = "sqlite" /\ (up \/ accepted # {}) => disk["votes"].there

(* The inductive invariant of the data files. *)
DataInv == DataTyped /\ StoreBeforeVotes /\ RestoreKeepsVotes

(* A volume that was lost holds files that are missing. *)
LEMMA MissingTyped == MissingFile \in DataFile /\ Nothing \in [Files -> DataFile]
BY DEF MissingFile, Nothing, DataFile

(* A vote file holds the votes it was written with. *)
LEMMA VoteFileTyped ==
  \A votes \in SUBSET Votes :
    VoteFile(votes) \in DataFile /\ VoteFile(votes).there /\ VoteFile(votes).votes = votes
BY DEF VoteFile, DataFile

(* A restore leaves a file that is there alone. *)
LEMMA RestoredTyped ==
  ASSUME DataInv, NEW f \in Files
  PROVE  Restored(f) \in DataFile /\ (disk[f].there => Restored(f) = disk[f])
BY DEF DataInv, DataTyped, Restored

(* At first no vote has been accepted. *)
LEMMA DataInitHolds == DataInit => DataInv
BY MissingTyped DEF DataInit, DataInv, DataTyped, StoreBeforeVotes, RestoreKeepsVotes

(* The steps of the jobs leave the votes file alone, but for a restore     *)
(* that finds none.                                                        *)
LEMMA JobsKeepVotes ==
  ASSUME DataInv, UNCHANGED <<mode, up, accepted>>,
         disk' \in [Files -> DataFile], repo' \in [Files -> DataFile],
         worktree' \in [{"restore", "backup"} -> [Files -> DataFile]],
         \/ disk'["votes"] = disk["votes"]
         \/ ~ disk["votes"].there
  PROVE  DataInv'
BY DEF DataInv, DataTyped, StoreBeforeVotes, RestoreKeepsVotes

(* The jobs that rewrite a file rewrite another one than the votes. *)
LEMMA RewrittenTyped ==
  ASSUME DataInv, NEW f \in {"ledger", "results"}, Rewritten(f)
  PROVE  disk' \in [Files -> DataFile] /\ disk'["votes"] = disk["votes"]
<1>1. \A n \in Nat : Versioned(n) \in DataFile
  BY DEF Versioned, DataFile
<1>2. disk \in [Files -> DataFile] /\ f \in Files /\ f # "votes" /\ "votes" \in Files /\ disk[f].version \in Nat
  BY DEF DataInv, DataTyped, Files, DataFile
<1> DEFINE n == IF disk[f].version < MaxVersion THEN disk[f].version + 1 ELSE disk[f].version
<1>3. n \in Nat
  BY <1>2
<1>4. disk' = [disk EXCEPT ![f] = Versioned(n)]
  BY DEF Rewritten
<1> HIDE DEF n
<1> QED
  BY <1>1, <1>2, <1>3, <1>4

(* Every step keeps it: only a lost volume takes votes, and the promise ends there. *)
LEMMA DataStepHolds == DataInv /\ [DataSteps]_dataVars => DataInv'
<1> SUFFICES ASSUME DataInv, [DataSteps]_dataVars PROVE DataInv'
  OBVIOUS
<1>0. /\ disk \in [Files -> DataFile] /\ repo \in [Files -> DataFile] /\ "votes" \in Files
      /\ worktree \in [{"restore", "backup"} -> [Files -> DataFile]]
      /\ accepted \subseteq Votes /\ up \in BOOLEAN
      /\ Nothing \in [Files -> DataFile]
  BY MissingTyped DEF DataInv, DataTyped, Files
<1>1. CASE UNCHANGED dataVars
  BY <1>1 DEF dataVars, DataInv, DataTyped, StoreBeforeVotes, RestoreKeepsVotes
<1>2. CASE Boot
  BY <1>0, <1>2, VoteFileTyped DEF Boot, DataInv, DataTyped, StoreBeforeVotes, RestoreKeepsVotes
<1>3. CASE Stop
  BY <1>0, <1>3 DEF Stop, DataInv, DataTyped, StoreBeforeVotes, RestoreKeepsVotes
<1>4. CASE LoseVolume
  BY <1>0, <1>4, MissingTyped DEF LoseVolume, DataInv, DataTyped, StoreBeforeVotes, RestoreKeepsVotes
<1>5. CASE RestoreFetches \/ RestoreFails
  BY <1>0, <1>5, JobsKeepVotes DEF RestoreFetches, RestoreFails
<1>6. ASSUME NEW f \in Files, NEW next, RestoreCopies(f, next) PROVE DataInv'
  BY <1>0, <1>6, JobsKeepVotes, RestoredTyped DEF RestoreCopies
<1>7. ASSUME NEW v \in Votes, SubmitVote(v) PROVE DataInv'
  <2> DEFINE votes == disk["votes"].votes \cup {v}
  <2>1. votes \in SUBSET Votes
    BY <1>0 DEF DataFile
  <2>2. disk' = [disk EXCEPT !["votes"] = VoteFile(votes)] /\ accepted' = accepted \cup {v}
        /\ UNCHANGED <<mode, up, repo, worktree>>
    BY <1>7 DEF SubmitVote
  <2> QED
    BY <1>0, <2>1, <2>2, VoteFileTyped DEF DataInv, DataTyped, StoreBeforeVotes, RestoreKeepsVotes
<1>8. CASE RefreshEnds \/ SyncEnds
  BY <1>0, <1>8, JobsKeepVotes, RewrittenTyped DEF RefreshEnds, SyncEnds
<1>9. CASE RunLedgerRefresh \/ RunFifaResultSync \/ RunDataBackup \/ \E j \in {"refresh", "sync"} : JobFails(j)
  BY <1>0, <1>9, JobsKeepVotes DEF RunLedgerRefresh, RunFifaResultSync, RunDataBackup, JobFails
<1>10. ASSUME NEW f \in Files, NEW next, BackupCopies(f, next) PROVE DataInv'
  BY <1>0, <1>10, JobsKeepVotes DEF BackupCopies
<1>11. CASE BackupPushes \/ BackupFails
  BY <1>0, <1>11, JobsKeepVotes DEF BackupPushes, BackupFails
<1> QED
  BY <1>1, <1>2, <1>3, <1>4, <1>5, <1>6, <1>7, <1>8, <1>9, <1>10, <1>11
  DEF DataSteps, RestoreSteps, BackupSteps, Files

(* While the server, its jobs and its volume come and go, no accepted vote *)
(* is lost from the database as long as the volume lasts.                  *)
THEOREM DataCorrect == DataSpec => []RestoreKeepsVotes
<1>1. DataInv => RestoreKeepsVotes
  BY DEF DataInv
<1> QED
  BY <1>1, DataInitHolds, DataStepHolds, PTL DEF DataSpec

-----------------------------------------------------------------------------
(* The vote store.  Whatever a crash leaves, placed is the count of the
   events, since every transaction writes both; an event's payload names its
   match; and a process that has read the events to chain them has read what
   is there: the server because it does so before it accepts votes, a build
   because the log it has read was chained and votes only make it longer. *)

(* The types of the log and of the processes. *)
Ids == Legacy \cup OpenMatches
VoteEvent == [by : Placers, match : Ids, payload : Ids, hash : Seq(Ids)]
StorePcs == {"closed", "unread", "read", "chained", "moved", "read again", "open"}
StoreProcess == [pc : StorePcs, copy : Seq(VoteEvent)]

(* The events of a log, among ns, that are about a key. *)
About(log, k, ns) == {n \in ns : <<log[n].by, log[n].match>> = k}
(* How many they are. *)
Count(log, k, ns) == Cardinality(About(log, k, ns))

(* What an event counts for a key. *)
Counts(e, k) == IF <<e.by, e.match>> = k THEN 1 ELSE 0

(* One event more counts for its key. *)
LEMMA CountOneMore ==
  ASSUME NEW log, NEW k, NEW ns, IsFiniteSet(ns), NEW n, n \notin ns
  PROVE  Count(log, k, ns \cup {n}) = Count(log, k, ns) + Counts(log[n], k)
         /\ Count(log, k, ns) \in Nat
<1> DEFINE S == About(log, k, ns)
<1>1. IsFiniteSet(S) /\ n \notin S /\ Cardinality(S) \in Nat
  <2>1. S \subseteq ns
    BY DEF About
  <2> QED
    BY <2>1, FS_Subset, FS_CardinalityType
<1>2. About(log, k, ns \cup {n}) = IF <<log[n].by, log[n].match>> = k THEN S \cup {n} ELSE S
  BY DEF About
<1> HIDE DEF S
<1>3. CASE <<log[n].by, log[n].match>> = k
  BY <1>1, <1>2, <1>3, FS_AddElement DEF Count, Counts, S
<1>4. CASE <<log[n].by, log[n].match>> # k
  BY <1>1, <1>2, <1>4 DEF Count, Counts, S
<1> QED
  BY <1>3, <1>4

(* More events count for no less. *)
LEMMA CountMore ==
  ASSUME NEW log, NEW k, NEW ms, IsFiniteSet(ms), NEW ns \in SUBSET ms
  PROVE  Count(log, k, ns) \in Nat /\ Count(log, k, ms) \in Nat /\ Count(log, k, ns) =< Count(log, k, ms)
<1>1. About(log, k, ns) \subseteq About(log, k, ms) /\ About(log, k, ms) \subseteq ms
  BY DEF About
<1> QED
  BY <1>1, FS_Subset, FS_CardinalityType DEF Count

(* Events that are about the same count the same. *)
LEMMA CountSame ==
  ASSUME NEW log, NEW other, NEW k, NEW ns, \A n \in ns : other[n].by = log[n].by /\ other[n].match = log[n].match
  PROVE  Count(other, k, ns) = Count(log, k, ns)
<1>1. About(other, k, ns) = About(log, k, ns)
  BY DEF About
<1> QED
  BY <1>1 DEF Count

(* A log with one more event. *)
LEMMA CountAppend ==
  ASSUME NEW log \in Seq(VoteEvent), NEW e \in VoteEvent, NEW k
  PROVE  Count(Append(log, e), k, DOMAIN Append(log, e))
           = Count(log, k, DOMAIN log) + Counts(e, k)
         /\ Count(log, k, DOMAIN log) \in Nat
<1> DEFINE R == VoteEvent
           new == Append(log, e)
           n == Len(log) + 1
<1>1. /\ DOMAIN log = 1..Len(log) /\ Len(log) \in Nat /\ DOMAIN new = 1..n /\ new[n] = e
      /\ \A i \in 1..Len(log) : new[i] = log[i]
  <2>1. log \in Seq(R) /\ e \in R
    OBVIOUS
  <2> HIDE DEF R
  <2> QED
    BY <2>1
<1>2. IsFiniteSet(DOMAIN log) /\ n \notin DOMAIN log /\ DOMAIN new = DOMAIN log \cup {n}
  <2> HIDE DEF new
  <2>1. IsFiniteSet(1..Len(log))
    BY <1>1, FS_Interval
  <2>2. \A l \in Nat : 1..(l + 1) = 1..l \cup {l + 1} /\ l + 1 \notin 1..l
    OBVIOUS
  <2> QED
    BY <1>1, <2>1, <2>2
<1> HIDE DEF new, n
<1>3. Count(new, k, DOMAIN log \cup {n}) = Count(new, k, DOMAIN log) + Counts(e, k)
      /\ Count(new, k, DOMAIN log) \in Nat
  <2>1. Count(new, k, DOMAIN log \cup {n}) = Count(new, k, DOMAIN log) + Counts(new[n], k)
        /\ Count(new, k, DOMAIN log) \in Nat
    BY <1>2, CountOneMore, Zenon
  <2> QED
    BY <1>1, <2>1
<1>4. Count(new, k, DOMAIN log) = Count(log, k, DOMAIN log)
  <2>1. \A i \in DOMAIN log : new[i].by = log[i].by /\ new[i].match = log[i].match
    BY <1>1
  <2> QED
    BY <2>1, CountSame
<1> QED
  BY <1>2, <1>3, <1>4 DEF new

(* What a function f sends into S. *)
Sends(f, D, S) == {n \in D : f[n] \in S}

(* g tells how much goes to each element. *)
Tells(g, f, D, S) == \A m \in S : g[m] = Cardinality(Sends(f, D, {m}))

(* What goes to the elements of S, one by one, adds up to what goes into S. *)
LEMMA SumOfSent ==
  ASSUME NEW D, IsFiniteSet(D), NEW f, NEW S, IsFiniteSet(S), NEW g, Tells(g, f, D, S)
  PROVE  Sum(g, S) = Cardinality(Sends(f, D, S))
<1> DEFINE Q(T) == Sum(g, T) = Cardinality(Sends(f, D, T))
           G == {T \in SUBSET S : Q(T)}
<1>4. \A m \in S : g[m] = Cardinality(Sends(f, D, {m}))
  BY DEF Tells
<1>0. \A T : IsFiniteSet(Sends(f, D, T)) /\ Cardinality(Sends(f, D, T)) \in Nat
  <2>1. \A T : Sends(f, D, T) \subseteq D
    BY DEF Sends
  <2> QED
    BY <2>1, FS_Subset, FS_CardinalityType
<1>1. ASSUME NEW T \in SUBSET S, \A U \in SUBSET T : U # T => U \in G
      PROVE  T \in G
  <2>1. CASE T = {}
    <3>1. Sends(f, D, T) = {}
      BY <2>1 DEF Sends
    <3> QED
      BY <2>1, <3>1, SumEmpty, FS_EmptySet
  <2>2. CASE T # {}
    <3>1. PICK m \in T : TRUE
      BY <2>2
    <3> DEFINE U == T \ {m}
               A == Sends(f, D, U)
               B == Sends(f, D, {m})
    <3>2. U \in G
      BY <1>1, <3>1
    <3>3. Sum(g, T) = Sum(g, U) + g[m]
      <4>1. IsFiniteSet(T) /\ \A x \in T : g[x] \in Nat
        <5>1. \A x \in S : g[x] \in Nat
          BY <1>0, <1>4
        <5> QED
          BY <5>1, FS_Subset
      <4> QED
        BY <3>1, <4>1, SumTakes
    <3>4. Cardinality(A \cup B) = Cardinality(A) + Cardinality(B)
      <4>1. A \cap B = {}
        BY DEF Sends
      <4>2. IsFiniteSet(A) /\ IsFiniteSet(B) /\ Cardinality(A) \in Nat /\ Cardinality(B) \in Nat
        BY <1>0
      <4> HIDE DEF A, B
      <4> QED
        <5>1. Cardinality(A \cup B) = Cardinality(A) + Cardinality(B) - Cardinality(A \cap B)
          BY <4>2, FS_Union
        <5>2. Cardinality(A \cap B) = 0
          BY <4>1, FS_EmptySet
        <5> QED
          BY <4>2, <5>1, <5>2
    <3>5. Sends(f, D, T) = A \cup B
      BY <3>1 DEF Sends
    <3>6. Sum(g, U) = Cardinality(A) /\ g[m] = Cardinality(B)
      BY <1>4, <3>2
    <3> HIDE DEF A, B, U
    <3> QED
      BY <3>3, <3>4, <3>5, <3>6
  <2> QED
    BY <2>1, <2>2
<1>2. G \in SUBSET SUBSET S
  OBVIOUS
<1> HIDE DEF G
<1>3. S \in G
  BY <1>1, <1>2, SubsetInduction
<1> QED
  BY <1>3 DEF G

(* An event of a log. *)
LEMMA LogEvents ==
  ASSUME NEW log \in Seq(VoteEvent), NEW n \in DOMAIN log
  PROVE  /\ log[n] \in VoteEvent /\ log[n].by \in Placers /\ log[n].match \in Ids
         /\ log[n].payload \in Ids /\ log[n].hash \in Seq(Ids)
<1> DEFINE R == VoteEvent
<1>1. log[n] \in R
  <2>1. log \in Seq(R)
    OBVIOUS
  <2> HIDE DEF R
  <2> QED
    BY <2>1
<1> QED
  BY <1>1 DEF VoteEvent

(* An official id is not an old one. *)
LEMMA OfficialIds == \A m \in Ids : OfficialId(m) \in OpenMatches /\ OfficialId(m) \notin Legacy
BY VoteStoreAssumption DEF OfficialId, Ids

(* One log has the events of another, each under the official id. *)
Renames(log, other) ==
  /\ DOMAIN other = DOMAIN log
  /\ \A n \in DOMAIN log : other[n].by = log[n].by /\ other[n].match = OfficialId(log[n].match)

(* What is placed is what the events count. *)
PlacedIs(log) == \A k \in Keys : placed[k] = Count(log, k, DOMAIN log)

(* Tickets and events move to the official ids together. *)
LEMMA MovedTogether ==
  ASSUME NEW log \in Seq(VoteEvent), NEW other, Renames(log, other), PlacedIs(log), NEW k \in Keys
  PROVE  JoinedTickets[k] = Count(other, k, DOMAIN other)
<1> DEFINE ids == Legacy \cup OpenMatches
           all == [m \in ids |-> placed[<<k[1], m>>]]
           S == {m \in DOMAIN all : OfficialId(m) = k[2]}
           D == {n \in DOMAIN log : log[n].by = k[1]}
           f == [n \in DOMAIN log |-> log[n].match]
<1>1. k = <<k[1], k[2]>> /\ k[1] \in Placers /\ k[2] \in ids
  BY DEF Keys
<1>2. \A n \in DOMAIN log : log[n].by \in Placers /\ log[n].match \in ids
  BY LogEvents DEF Ids
<1>3. CASE k[2] \in Legacy
  <2>1. About(other, k, DOMAIN other) = {}
    <3>1. \A n \in DOMAIN other : other[n].match # k[2]
      BY <1>2, <1>3, OfficialIds DEF Renames, Ids
    <3>2. \A n \in DOMAIN other : <<other[n].by, other[n].match>> # k
      BY <1>1, <3>1
    <3> QED
      BY <3>2 DEF About
  <2>2. JoinedTickets[k] = 0
    BY <1>3 DEF JoinedTickets
  <2> QED
    BY <2>1, <2>2, FS_EmptySet DEF Count
<1>4. CASE k[2] \notin Legacy
  <2>1. JoinedTickets[k] = Sum(all, S)
    BY <1>4 DEF JoinedTickets, Sum
  <2>2. IsFiniteSet(S)
    <3>1. S \subseteq Legacy \cup {k[2]}
      BY DEF OfficialId
    <3>2. IsFiniteSet(Legacy \cup {k[2]})
      BY VoteStoreAssumption, FS_AddElement
    <3> HIDE DEF S
    <3> QED
      BY <3>1, <3>2, FS_Subset
  <2>3. IsFiniteSet(D)
    <3>1. IsFiniteSet(1..Len(log)) /\ DOMAIN log = 1..Len(log)
      BY FS_Interval
    <3>2. D \subseteq DOMAIN log
      OBVIOUS
    <3> HIDE DEF D
    <3> QED
      BY <3>1, <3>2, FS_Subset
  <2>4. Tells(all, f, D, S)
   <3> SUFFICES \A m \in S : all[m] = Cardinality(Sends(f, D, {m}))
     BY DEF Tells
    <3> SUFFICES ASSUME NEW m \in S PROVE all[m] = Cardinality(Sends(f, D, {m}))
      OBVIOUS
    <3>1. m \in ids /\ all[m] = placed[<<k[1], m>>]
      OBVIOUS
    <3>2. <<k[1], m>> \in Keys
      BY <1>1, <3>1 DEF Keys
    <3>3. About(log, <<k[1], m>>, DOMAIN log) = Sends(f, D, {m})
      BY DEF About, Sends
    <3> QED
      BY <3>1, <3>2, <3>3 DEF PlacedIs, Count
  <2>5. About(other, k, DOMAIN other) = Sends(f, D, S)
    <3>1. \A n \in DOMAIN log : <<other[n].by, other[n].match>> = k
                                  <=> log[n].by = k[1] /\ OfficialId(log[n].match) = k[2]
      BY <1>1 DEF Renames
    <3>2. \A n \in DOMAIN log : f[n] \in S <=> OfficialId(log[n].match) = k[2]
      BY <1>2
    <3> HIDE DEF S, f
    <3> QED
      BY <3>1, <3>2 DEF About, Sends, Renames
  <2> HIDE DEF all, S, D, f
  <2> QED
    <3>1. Sum(all, S) = Cardinality(Sends(f, D, S))
      BY <2>2, <2>3, <2>4, SumOfSent
    <3> QED
      BY <2>1, <2>5, <3>1 DEF Count
<1> QED
  BY <1>3, <1>4

-----------------------------------------------------------------------------
(* What opening the database does to a log. *)

(* Each event's payload names its match. *)
PayloadsFit(log) == \A n \in DOMAIN log : log[n].payload = log[n].match

(* One chain of hashes covers all events. *)
IsChained(log) == \A n \in DOMAIN log : log[n].hash = Hashes(log)[n]

(* No event is under an old id. *)
NoOld(log) == \A n \in DOMAIN log : log[n].match \notin Legacy

(* The log was longer or as long when other was read of it. *)
Begins(other, log) == DOMAIN other \subseteq DOMAIN log /\ \A n \in DOMAIN other : other[n] = log[n]

(* Two logs whose events are about the same. *)
Alike(log, other) ==
  /\ DOMAIN other = DOMAIN log
  /\ \A n \in DOMAIN log : other[n].by = log[n].by /\ other[n].match = log[n].match

(* A row that is written with a payload and a hash. *)
Rehashed(e, payload, hash) == [e EXCEPT !.payload = payload, !.hash = hash]
(* It has that payload and hash, and stays about the same. *)
LEMMA RehashedEvent ==
  ASSUME NEW e \in VoteEvent, NEW payload \in Ids, NEW hash \in Seq(Ids)
  PROVE  /\ Rehashed(e, payload, hash) \in VoteEvent
         /\ Rehashed(e, payload, hash).by = e.by /\ Rehashed(e, payload, hash).match = e.match
         /\ Rehashed(e, payload, hash).payload = payload /\ Rehashed(e, payload, hash).hash = hash
<1> DEFINE H == Seq(Ids)
           mid == [e EXCEPT !.payload = payload]
           new == [mid EXCEPT !.hash = hash]
<1>1. e \in [by : Placers, match : Ids, payload : Ids, hash : H] /\ hash \in H
  BY DEF VoteEvent
<1>2. Rehashed(e, payload, hash) = new
  BY DEF Rehashed
<1> HIDE DEF H
<1>3. /\ mid \in [by : Placers, match : Ids, payload : Ids, hash : H]
      /\ mid.by = e.by /\ mid.match = e.match /\ mid.payload = payload
  BY <1>1
<1> HIDE DEF mid
<1>4. /\ new \in [by : Placers, match : Ids, payload : Ids, hash : H]
      /\ new.by = mid.by /\ new.match = mid.match /\ new.payload = mid.payload /\ new.hash = hash
  BY <1>1, <1>3
<1> HIDE DEF new
<1> QED
  BY <1>2, <1>3, <1>4 DEF VoteEvent, H

(* A row that is put under another match. *)
Put(e, m) == [e EXCEPT !.match = m, !.payload = m]
(* Its payload names that match. *)
LEMMA PutEvent ==
  ASSUME NEW e \in VoteEvent, NEW m \in Ids
  PROVE  Put(e, m) \in VoteEvent /\ Put(e, m).by = e.by /\ Put(e, m).match = m /\ Put(e, m).payload = m
<1> DEFINE H == Seq(Ids)
           mid == [e EXCEPT !.match = m]
           new == [mid EXCEPT !.payload = m]
<1>1. e \in [by : Placers, match : Ids, payload : Ids, hash : H]
  BY DEF VoteEvent
<1>2. Put(e, m) = new
  BY DEF Put
<1> HIDE DEF H
<1>3. mid \in [by : Placers, match : Ids, payload : Ids, hash : H] /\ mid.by = e.by /\ mid.match = m
  BY <1>1
<1> HIDE DEF mid
<1>4. /\ new \in [by : Placers, match : Ids, payload : Ids, hash : H]
      /\ new.by = mid.by /\ new.match = mid.match /\ new.payload = m
  BY <1>3
<1> HIDE DEF new
<1> QED
  BY <1>2, <1>3, <1>4 DEF VoteEvent, H

(* The hash of an event is a list of ids. *)
LEMMA HashesAreLists ==
  ASSUME NEW log \in Seq(VoteEvent)
  PROVE  DOMAIN Hashes(log) = DOMAIN log /\ \A n \in DOMAIN log : Hashes(log)[n] \in Seq(Ids)
<1>1. DOMAIN log = 1..Len(log) /\ Len(log) \in Nat
  OBVIOUS
<1>2. ASSUME NEW n \in DOMAIN log PROVE Hashes(log)[n] \in Seq(Ids)
  <2>1. Hashes(log)[n] = [i \in 1..n |-> log[i].payload]
    BY DEF Hashes
  <2>2. n \in Nat /\ \A i \in 1..n : i \in DOMAIN log
    BY <1>1
  <2>3. \A i \in 1..n : log[i].payload \in Ids
    BY <2>2, LogEvents
  <2> QED
    BY <2>1, <2>2, <2>3
<1> QED
  BY <1>2 DEF Hashes

(* The hash of an event depends on the payloads up to it. *)
LEMMA HashesSame ==
  ASSUME NEW log \in Seq(VoteEvent), NEW other \in Seq(VoteEvent), DOMAIN other \subseteq DOMAIN log,
         \A n \in DOMAIN other : other[n].payload = log[n].payload
  PROVE  \A n \in DOMAIN other : Hashes(other)[n] = Hashes(log)[n]
<1> SUFFICES ASSUME NEW n \in DOMAIN other PROVE Hashes(other)[n] = Hashes(log)[n]
  OBVIOUS
<1>1. \A i \in 1..n : i \in DOMAIN other
  OBVIOUS
<1>2. n \in DOMAIN log
  OBVIOUS
<1>3. Hashes(other)[n] = [i \in 1..n |-> other[i].payload] /\ Hashes(log)[n] = [i \in 1..n |-> log[i].payload]
  BY <1>2 DEF Hashes
<1>4. \A i \in 1..n : other[i].payload = log[i].payload
  BY <1>1
<1> QED
  BY <1>3, <1>4

(* Who chains the events as they are chains them all. *)
LEMMA ChainsAll ==
  ASSUME NEW log \in Seq(VoteEvent)
  PROVE  /\ Chained(log, log) \in Seq(VoteEvent) /\ Alike(log, Chained(log, log))
         /\ PayloadsFit(log) => PayloadsFit(Chained(log, log))
         /\ IsChained(Chained(log, log))
<1> DEFINE new == Chained(log, log)
<1>1. DOMAIN new = DOMAIN log /\ DOMAIN log = 1..Len(log) /\ Len(log) \in Nat
  BY DEF Chained
<1>2. ASSUME NEW n \in DOMAIN log
      PROVE  /\ new[n] \in VoteEvent /\ new[n].by = log[n].by /\ new[n].match = log[n].match
             /\ new[n].payload = log[n].payload /\ new[n].hash = Hashes(log)[n]
  <2>1. new[n] = IF log[n].hash # Hashes(log)[n] THEN Rehashed(log[n], log[n].payload, Hashes(log)[n]) ELSE log[n]
    BY DEF Chained, Rehashed
  <2>2. /\ log[n] \in VoteEvent /\ log[n].payload \in Ids /\ Hashes(log)[n] \in Seq(Ids)
    BY LogEvents, HashesAreLists
  <2> HIDE DEF new
  <2> QED
    BY <2>1, <2>2, RehashedEvent
<1> HIDE DEF new
<1>3. new \in Seq(VoteEvent)
  <2> DEFINE R == VoteEvent
  <2>1. \A n \in 1..Len(log) : new[n] \in R
    BY <1>1, <1>2
  <2>2. new = [n \in 1..Len(log) |-> new[n]]
    BY <1>1 DEF new, Chained
  <2> HIDE DEF R
  <2>3. new \in Seq(R)
    BY <1>1, <2>1, <2>2
  <2> QED
    BY <2>3 DEF R
<1>4. \A n \in DOMAIN log : Hashes(new)[n] = Hashes(log)[n]
  <2>1. \A n \in DOMAIN new : new[n].payload = log[n].payload
    BY <1>1, <1>2
  <2> QED
    BY <1>1, <1>3, <2>1, HashesSame
<1>5. IsChained(new) /\ Alike(log, new) /\ (PayloadsFit(log) => PayloadsFit(new))
  BY <1>1, <1>2, <1>4 DEF IsChained, Alike, PayloadsFit
<1> QED
  BY <1>3, <1>5 DEF new

(* Who chains a log that was chained when he read it changes nothing. *)
LEMMA ChainsNothing ==
  ASSUME NEW log \in Seq(VoteEvent), NEW copy \in Seq(VoteEvent), IsChained(log), Begins(copy, log)
  PROVE  Chained(log, copy) = log
<1>1. \A n \in DOMAIN copy : copy[n].hash = Hashes(copy)[n]
  <2>1. \A n \in DOMAIN copy : Hashes(copy)[n] = Hashes(log)[n]
    BY HashesSame DEF Begins
  <2> QED
    BY <2>1 DEF IsChained, Begins
<1>2. Chained(log, copy) = [n \in DOMAIN log |-> log[n]]
  BY <1>1 DEF Chained
<1> QED
  BY <1>2

(* The events under the official ids. *)
Officially(log) ==
  [n \in DOMAIN log |-> IF log[n].match \in Legacy THEN Put(log[n], Official[log[n].match]) ELSE log[n]]

(* The events get their official ids, and keep what else they say. *)
LEMMA OfficialEvents ==
  ASSUME NEW log \in Seq(VoteEvent)
  PROVE  /\ Officially(log) \in Seq(VoteEvent) /\ Renames(log, Officially(log)) /\ NoOld(Officially(log))
         /\ PayloadsFit(log) => PayloadsFit(Officially(log))
         /\ NoOld(log) => Officially(log) = log
<1> DEFINE new == Officially(log)
<1>1. DOMAIN new = DOMAIN log /\ DOMAIN log = 1..Len(log) /\ Len(log) \in Nat
  BY DEF Officially
<1>2. ASSUME NEW n \in DOMAIN log
      PROVE  /\ new[n] \in VoteEvent /\ new[n].by = log[n].by /\ new[n].match = OfficialId(log[n].match)
             /\ log[n].payload = log[n].match => new[n].payload = new[n].match
  <2>1. new[n] = IF log[n].match \in Legacy THEN Put(log[n], Official[log[n].match]) ELSE log[n]
    BY DEF Officially
  <2>2. log[n] \in VoteEvent /\ log[n].match \in Ids
    BY LogEvents
  <2>3. log[n].match \in Legacy => Official[log[n].match] \in Ids
    BY VoteStoreAssumption DEF Ids
  <2> HIDE DEF new
  <2> QED
    BY <2>1, <2>2, <2>3, PutEvent DEF OfficialId
<1>3. NoOld(log) => new = log
  <2> SUFFICES ASSUME NoOld(log) PROVE new = log
    OBVIOUS
  <2>1. new = [n \in DOMAIN log |-> log[n]]
    BY DEF Officially, NoOld
  <2> QED
    BY <2>1
<1>4. new \in Seq(VoteEvent)
  <2> DEFINE R == VoteEvent
  <2>1. \A n \in 1..Len(log) : new[n] \in R
    BY <1>1, <1>2
  <2>2. new = [n \in 1..Len(log) |-> new[n]]
    BY <1>1 DEF Officially
  <2> HIDE DEF R, new
  <2>3. new \in Seq(R)
    BY <1>1, <2>1, <2>2
  <2> QED
    BY <2>3 DEF R
<1>5. NoOld(new)
  <2>1. \A n \in DOMAIN log : OfficialId(log[n].match) \notin Legacy
    BY LogEvents, OfficialIds
  <2> HIDE DEF new
  <2> QED
    BY <1>1, <1>2, <2>1 DEF NoOld
<1> HIDE DEF new
<1> QED
  BY <1>1, <1>2, <1>3, <1>4, <1>5 DEF Renames, PayloadsFit, new

-----------------------------------------------------------------------------
(* The invariant of the vote store. *)

(* The server, while it brings a database up to date and after. *)
ServerOK(s, log) ==
  /\ s.pc \in {"read", "read again"} => s.copy = log
  /\ s.pc \in {"chained", "open"} => IsChained(log)
  /\ s.pc \in {"moved", "read again", "open"} => NoOld(log)

(* A build. *)
BuildOK(b, log) == b.pc \in {"read", "read again"} => Begins(b.copy, log)

(* The tables. *)
TablesOK ==
  /\ submitting = NoVote
  /\ PlacedIs(events) /\ PayloadsFit(events)
  /\ ServerOK(process["server"], events)
  /\ \A b \in Builds : BuildOK(process[b], events)

(* The events that count, or will when the vote under way is written. *)
Counted == IF submitting = NoVote THEN DOMAIN events ELSE DOMAIN events \ {Len(events)}

(* The files. *)
FilesOK ==
  /\ answered \subseteq Counted
  /\ submitting # NoVote => events # <<>> /\ submitting = events[Len(events)]
  /\ \A p \in Processes : process[p].pc \in {"closed", "open"}
  /\ \A k \in Keys : Count(events, k, answered) =< placed[k] /\ placed[k] =< Count(events, k, Counted)

(* The inductive invariant. *)
StoreInv ==
  /\ form \in {"sqlite", "json"} /\ placed \in [Keys -> Nat] /\ events \in Seq(VoteEvent)
  /\ process \in [Processes -> StoreProcess]
  /\ \A b \in Builds : process[b] = Closed \/ process["server"].pc = "open"
  /\ form = "sqlite" => TablesOK
  /\ form = "json" => FilesOK

(* What the store promises follows. *)
LEMMA StoreInvPromises ==
  ASSUME StoreInv
  PROVE  VotesAreTheirLog
<1>1. \A k, ns : TicketsOn(k, ns) = Count(events, k, ns)
  BY DEF TicketsOn, EventsOf, Count, About
<1>2. ASSUME form = "sqlite", Serving
      PROVE  /\ \A k \in Keys : placed[k] = TicketsOn(k, DOMAIN events)
             /\ \A n \in DOMAIN events : events[n].match \notin Legacy /\ events[n].payload = events[n].match
             /\ \A n \in DOMAIN events : events[n].hash = Hashes(events)[n]
  <2>1. TablesOK /\ process["server"].pc = "open"
    BY <1>2 DEF StoreInv, Serving
  <2> QED
    BY <1>1, <2>1 DEF TablesOK, PlacedIs, PayloadsFit, ServerOK, IsChained, NoOld
<1>3. ASSUME form = "json", NEW k \in Keys
      PROVE  placed[k] \in TicketsOn(k, answered)..TicketsOn(k, DOMAIN events)
  <2>1. FilesOK
    BY <1>3 DEF StoreInv
  <2>2. IsFiniteSet(DOMAIN events) /\ Counted \subseteq DOMAIN events /\ answered \subseteq DOMAIN events
    <3>1. IsFiniteSet(1..Len(events)) /\ DOMAIN events = 1..Len(events)
      BY FS_Interval DEF StoreInv
    <3> QED
      BY <2>1, <3>1 DEF FilesOK, Counted
  <2>3. /\ Count(events, k, answered) \in Nat /\ Count(events, k, Counted) \in Nat
        /\ Count(events, k, DOMAIN events) \in Nat
        /\ Count(events, k, Counted) =< Count(events, k, DOMAIN events)
    BY <2>2, CountMore
  <2>4. placed[k] \in Nat
    BY DEF StoreInv
  <2>5. Count(events, k, answered) =< placed[k] /\ placed[k] =< Count(events, k, Counted)
    BY <2>1 DEF FilesOK
  <2> QED
    BY <1>1, <2>3, <2>4, <2>5
<1> QED
  BY <1>2, <1>3 DEF VotesAreTheirLog

(* A process is where Goes, or a whole new record, puts it. *)
Runs(p, new) == process' = [process EXCEPT ![p] = new]
(* The other processes stay. *)
LEMMA ProcessRuns ==
  ASSUME process \in [Processes -> StoreProcess], NEW p \in Processes, NEW new \in StoreProcess, Runs(p, new)
  PROVE  process' \in [Processes -> StoreProcess] /\ \A o \in Processes : process'[o] = IF o = p THEN new ELSE process[o]
<1> DEFINE R == StoreProcess
<1>1. process \in [Processes -> R] /\ new \in R
  OBVIOUS
<1> HIDE DEF R
<1>2. process' \in [Processes -> R] /\ \A o \in Processes : process'[o] = IF o = p THEN new ELSE process[o]
  BY <1>1 DEF Runs
<1> QED
  BY <1>2 DEF R

(* Goes is such a step. *)
LEMMA GoesRuns ==
  ASSUME process \in [Processes -> StoreProcess], NEW p \in Processes, NEW pc \in StorePcs, Goes(p, pc)
  PROVE  \E new \in StoreProcess : Runs(p, new) /\ new.pc = pc /\ new.copy = process[p].copy
<1> DEFINE S == Seq(VoteEvent)
           new == [process[p] EXCEPT !.pc = pc]
<1>1. process[p] \in [pc : StorePcs, copy : S]
  BY DEF StoreProcess
<1> HIDE DEF S
<1>2. new \in [pc : StorePcs, copy : S] /\ new.pc = pc /\ new.copy = process[p].copy
  BY <1>1
<1>3. Runs(p, new)
  BY DEF Goes, Runs
<1> HIDE DEF new
<1> QED
  BY <1>2, <1>3 DEF StoreProcess, S

(* A process and what it has read. *)
LEMMA ProcessRecord ==
  ASSUME NEW pc \in StorePcs, NEW copy \in Seq(VoteEvent)
  PROVE  [pc |-> pc, copy |-> copy] \in StoreProcess
BY DEF StoreProcess

(* A closed process. *)
LEMMA ClosedIsOne == Closed \in StoreProcess /\ Closed.pc = "closed"
<1>1. <<>> \in Seq(VoteEvent)
  OBVIOUS
<1> QED
  BY <1>1, ProcessRecord DEF Closed, StorePcs

(* A process goes on, and nothing else changes. *)
LEMMA ProcessMoves ==
  ASSUME StoreInv, NEW p \in Processes, NEW new \in StoreProcess, Runs(p, new),
         UNCHANGED <<form, placed, events, submitting, answered>>,
         form = "sqlite" /\ p = "server" => ServerOK(new, events),
         form = "sqlite" /\ p # "server" => BuildOK(new, events),
         form = "json" => new.pc \in {"closed", "open"},
         p = "server" => process[p].pc # "open",
         p # "server" => process["server"].pc = "open" \/ new = Closed
  PROVE  StoreInv'
<1>1. process' \in [Processes -> StoreProcess] /\ \A o \in Processes : process'[o] = IF o = p THEN new ELSE process[o]
  BY ProcessRuns DEF StoreInv
<1>2. "server" \in Processes /\ "server" \notin Builds /\ \A b \in Builds : b \in Processes
  BY VoteStoreAssumption DEF Processes
<1>3. \A b \in Builds : process'[b] = Closed \/ process'["server"].pc = "open"
  BY <1>1, <1>2 DEF StoreInv
<1>4. form = "sqlite" => TablesOK'
  <2> SUFFICES ASSUME form = "sqlite" PROVE TablesOK'
    OBVIOUS
  <2>1. TablesOK
    BY DEF StoreInv
  <2>2. ServerOK(process'["server"], events)
    BY <1>1, <1>2, <2>1 DEF TablesOK
  <2>3. \A b \in Builds : BuildOK(process'[b], events)
    BY <1>1, <1>2, <2>1 DEF TablesOK
  <2>4. PlacedIs(events)'
    BY <2>1 DEF TablesOK, PlacedIs
  <2> QED
    BY <2>1, <2>2, <2>3, <2>4 DEF TablesOK
<1>5. form = "json" => FilesOK'
  <2> SUFFICES ASSUME form = "json" PROVE FilesOK'
    OBVIOUS
  <2>1. FilesOK
    BY DEF StoreInv
  <2>2. \A o \in Processes : process'[o].pc \in {"closed", "open"}
    BY <1>1, <2>1 DEF FilesOK
  <2> QED
    BY <2>1, <2>2 DEF FilesOK, Counted
<1> QED
  BY <1>1, <1>3, <1>4, <1>5 DEF StoreInv

(* The server goes on bringing the tables up to date. *)
LEMMA ServerMoves ==
  ASSUME StoreInv, form = "sqlite", process["server"].pc # "open", NEW new \in StoreProcess,
         Runs("server", new), UNCHANGED <<form, submitting, answered>>,
         events' \in Seq(VoteEvent), placed' \in [Keys -> Nat], PlacedIs(events)', PayloadsFit(events'),
         ServerOK(new, events')
  PROVE  StoreInv'
<1>1. "server" \in Processes /\ "server" \notin Builds /\ \A b \in Builds : b \in Processes
  BY VoteStoreAssumption DEF Processes
<1>2. process' \in [Processes -> StoreProcess] /\ \A o \in Processes : process'[o] = IF o = "server" THEN new ELSE process[o]
  BY <1>1, ProcessRuns DEF StoreInv
<1>3. \A b \in Builds : process'[b] = Closed
  BY <1>1, <1>2 DEF StoreInv
<1>4. TablesOK'
  <2>1. \A b \in Builds : BuildOK(process'[b], events')
    BY <1>3, ClosedIsOne DEF BuildOK
  <2>2. ServerOK(process'["server"], events') /\ submitting' = NoVote
    BY <1>1, <1>2 DEF StoreInv, TablesOK
  <2> QED
    BY <2>1, <2>2 DEF TablesOK
<1> QED
  BY <1>2, <1>3, <1>4 DEF StoreInv

(* Opening the store, and a build that starts while the server is up. *)
LEMMA StartServerOK ==
  ASSUME StoreInv, StartServer
  PROVE  StoreInv'
<1> DEFINE pc == IF form = "json" THEN "open" ELSE "unread"
<1>1. "server" \in Processes /\ process["server"].pc = "closed"
  BY ClosedIsOne DEF StartServer, Processes
<1>2. pc \in StorePcs /\ Goes("server", pc)
  BY DEF StartServer, StorePcs
<1>3. form = "json" => pc = "open"
  OBVIOUS
<1>4. form = "sqlite" => pc = "unread"
  OBVIOUS
<1> HIDE DEF pc
<1>5. PICK new \in StoreProcess : Runs("server", new) /\ new.pc = pc
  BY <1>1, <1>2, GoesRuns DEF StoreInv
<1>6. form = "sqlite" => ServerOK(new, events)
  BY <1>4, <1>5 DEF ServerOK
<1> QED
  BY <1>1, <1>3, <1>5, <1>6, ProcessMoves DEF StartServer

(* A build starts beside the server that is up. *)
LEMMA StartBuildOK ==
  ASSUME ~ ShellBuilds, StoreInv, NEW p \in Builds, StartBuild(p)
  PROVE  StoreInv'
<1>1. p \in Processes /\ p # "server" /\ process["server"].pc = "open" /\ form = "sqlite"
  BY VoteStoreAssumption DEF StartBuild, Serving, Processes
<1>2. "unread" \in StorePcs /\ Goes(p, "unread")
  BY DEF StartBuild, StorePcs
<1>3. PICK new \in StoreProcess : Runs(p, new) /\ new.pc = "unread"
  BY <1>1, <1>2, GoesRuns DEF StoreInv
<1>4. BuildOK(new, events)
  BY <1>3 DEF BuildOK
<1> QED
  BY <1>1, <1>3, <1>4, ProcessMoves DEF StartBuild

(* A build ends, or is killed. *)
LEMMA BuildEnds ==
  ASSUME StoreInv, NEW p \in Builds, CloseBuild(p) \/ KillBuild(p)
  PROVE  StoreInv'
<1>1. p \in Processes /\ p # "server"
  BY VoteStoreAssumption DEF Processes
<1>2. Runs(p, Closed) /\ UNCHANGED <<form, placed, events, submitting, answered>>
  BY DEF CloseBuild, KillBuild, Runs
<1>3. BuildOK(Closed, events)
  BY ClosedIsOne DEF BuildOK
<1> QED
  BY <1>1, <1>2, <1>3, ClosedIsOne, ProcessMoves

(* The rows are read. *)
LEMMA ReadEventsOK ==
  ASSUME StoreInv, NEW p \in Processes, ReadEvents(p)
  PROVE  StoreInv'
<1> DEFINE pc == IF process[p].pc = "unread" THEN "read" ELSE "read again"
           new == [pc |-> pc, copy |-> events]
<1>1. process[p].pc \in {"unread", "moved"} /\ UNCHANGED <<form, placed, events, submitting, answered>>
  BY DEF ReadEvents
<1>2. Runs(p, new)
  BY DEF ReadEvents, Runs
<1>3. new \in StoreProcess
  <2>1. pc \in StorePcs /\ events \in Seq(VoteEvent)
    BY DEF StorePcs, StoreInv
  <2> HIDE DEF pc
  <2> QED
    BY <2>1, ProcessRecord
<1>4. /\ new.pc \in {"read", "read again"} /\ new.copy = events
      /\ new.pc = "read again" => process[p].pc = "moved"
  BY <1>1
<1> HIDE DEF new, pc
<1>5. form # "json"
  BY <1>1 DEF StoreInv, FilesOK
<1>6. form = "sqlite" /\ p = "server" => ServerOK(new, events)
  BY <1>4 DEF StoreInv, TablesOK, ServerOK
<1>7. BuildOK(new, events)
  BY <1>4 DEF BuildOK, Begins
<1>8. p # "server" => process["server"].pc = "open"
  BY <1>1, ClosedIsOne DEF StoreInv, Processes
<1> QED
  BY <1>1, <1>2, <1>3, <1>5, <1>6, <1>7, <1>8, ProcessMoves

(* A build changes nothing: its log was in order when it was opened. *)
LEMMA BuildChains ==
  ASSUME StoreInv, form = "sqlite", NEW p \in Builds, process[p] # Closed
  PROVE  /\ process[p].pc \in {"read", "read again"} => Chained(events, process[p].copy) = events
         /\ Officially(events) = events /\ NoOld(events) /\ JoinedTickets = placed
<1>1. TablesOK /\ process["server"].pc = "open" /\ p \in Processes
  BY DEF StoreInv, Processes
<1>2. IsChained(events) /\ NoOld(events) /\ PlacedIs(events) /\ BuildOK(process[p], events)
  BY <1>1 DEF TablesOK, ServerOK
<1>3. events \in Seq(VoteEvent) /\ process[p].copy \in Seq(VoteEvent)
  BY <1>1 DEF StoreInv, StoreProcess
<1>4. process[p].pc \in {"read", "read again"} => Chained(events, process[p].copy) = events
  BY <1>2, <1>3, ChainsNothing DEF BuildOK
<1>5. Officially(events) = events /\ Renames(events, Officially(events))
  BY <1>2, <1>3, OfficialEvents
<1>6. Renames(events, events)
  BY <1>5
<1>7. \A k \in Keys : JoinedTickets[k] = placed[k]
  BY <1>2, <1>3, <1>6, MovedTogether DEF PlacedIs
<1>8. JoinedTickets = [k \in Keys |-> JoinedTickets[k]] /\ placed = [k \in Keys |-> placed[k]]
  BY DEF JoinedTickets, StoreInv
<1> QED
  BY <1>2, <1>4, <1>5, <1>7, <1>8

(* The hashes are written. *)
LEMMA WriteHashesOK ==
  ASSUME StoreInv, NEW p \in Processes, WriteHashes(p)
  PROVE  StoreInv'
<1> DEFINE pc == IF process[p].pc = "read" THEN "chained" ELSE "open"
           new == [pc |-> pc, copy |-> <<>>]
<1>1. /\ process[p].pc \in {"read", "read again"} /\ UNCHANGED <<form, placed, submitting, answered>>
      /\ events' = Chained(events, process[p].copy)
  BY DEF WriteHashes
<1>2. Runs(p, new)
  BY DEF WriteHashes, Runs
<1>3. new \in StoreProcess
  <2>1. pc \in StorePcs /\ <<>> \in Seq(VoteEvent)
    BY DEF StorePcs
  <2> HIDE DEF pc
  <2> QED
    BY <2>1, ProcessRecord
<1>4. new.pc \in {"chained", "open"} /\ (new.pc = "open" => process[p].pc = "read again")
  BY <1>1
<1> HIDE DEF new, pc
<1>5. form = "sqlite" /\ TablesOK
  BY <1>1 DEF StoreInv, FilesOK
<1>6. CASE p = "server"
  <2>1. ServerOK(process["server"], events) /\ events \in Seq(VoteEvent)
    BY <1>5 DEF TablesOK, StoreInv
  <2>2. events' = Chained(events, events)
    BY <1>1, <1>6, <2>1 DEF ServerOK
  <2>3. /\ events' \in Seq(VoteEvent) /\ Alike(events, events') /\ IsChained(events') /\ PayloadsFit(events')
    BY <1>5, <2>1, <2>2, ChainsAll DEF TablesOK
  <2>4. PlacedIs(events)'
    <3>1. ASSUME NEW k \in Keys
          PROVE  placed'[k] = Count(events', k, DOMAIN events')
      <4>1. placed'[k] = Count(events, k, DOMAIN events)
        BY <1>1, <1>5 DEF TablesOK, PlacedIs
      <4>2. Count(events', k, DOMAIN events) = Count(events, k, DOMAIN events)
        BY <2>3, CountSame DEF Alike
      <4> QED
        BY <2>3, <4>1, <4>2 DEF Alike
    <3> QED
      BY <3>1 DEF PlacedIs
  <2>5. ServerOK(new, events')
    <3>1. NoOld(events) => NoOld(events')
      BY <2>3 DEF NoOld, Alike
    <3> QED
      BY <1>4, <1>6, <2>1, <2>3, <3>1 DEF ServerOK
  <2>6. process["server"].pc # "open" /\ placed' \in [Keys -> Nat]
    BY <1>1, <1>6 DEF StoreInv
  <2>7. UNCHANGED <<form, submitting, answered>>
    BY <1>1
  <2> QED
    BY <1>2, <1>3, <1>5, <1>6, <2>3, <2>4, <2>5, <2>6, <2>7, ServerMoves
<1>7. CASE p # "server"
  <2>1. p \in Builds /\ process[p] # Closed
    BY <1>1, <1>7, ClosedIsOne DEF Processes
  <2>2. UNCHANGED <<form, placed, events, submitting, answered>>
    BY <1>1, <1>5, <2>1, BuildChains
  <2>3. BuildOK(new, events) /\ process["server"].pc = "open"
    BY <1>4, <2>1 DEF BuildOK, StoreInv
  <2> QED
    BY <1>2, <1>3, <1>5, <1>7, <2>2, <2>3, ProcessMoves
<1> QED
  BY <1>6, <1>7

(* Old ids become official ones. *)
LEMMA MigrateOK ==
  ASSUME StoreInv, NEW p \in Processes, MigrateLegacyMatchIds(p)
  PROVE  StoreInv'
<1>1. /\ process[p].pc = "chained" /\ UNCHANGED <<form, submitting, answered>>
      /\ placed' = JoinedTickets /\ Goes(p, AfterMove)
  BY DEF MigrateLegacyMatchIds
<1>2. events' = Officially(events)
  BY DEF MigrateLegacyMatchIds, Officially, Put
<1>3. form = "sqlite" /\ TablesOK /\ events \in Seq(VoteEvent)
  BY <1>1 DEF StoreInv, FilesOK
<1>4. AfterMove \in {"moved", "open"} /\ (AfterMove = "open" => NoOld(events))
  BY DEF AfterMove, NoOld
<1>5. PICK new \in StoreProcess : Runs(p, new) /\ new.pc = AfterMove
  <2>1. AfterMove \in StorePcs
    BY <1>4 DEF StorePcs
  <2> HIDE DEF AfterMove
  <2> QED
    BY <1>1, <2>1, GoesRuns DEF StoreInv
<1>6. CASE p = "server"
  <2>1. /\ events' \in Seq(VoteEvent) /\ Renames(events, events') /\ NoOld(events') /\ PayloadsFit(events')
        /\ NoOld(events) => events' = events
    BY <1>2, <1>3, OfficialEvents DEF TablesOK
  <2>2. \A k \in Keys : placed'[k] = Count(events', k, DOMAIN events')
    BY <1>1, <1>3, <2>1, MovedTogether DEF TablesOK
  <2>3. placed' \in [Keys -> Nat]
    <3>1. placed' = [k \in Keys |-> placed'[k]]
      BY <1>1 DEF JoinedTickets
    <3>2. \A k \in Keys : placed'[k] \in Nat
      <4>1. IsFiniteSet(DOMAIN events')
        <5>1. DOMAIN events' = 1..Len(events') /\ IsFiniteSet(1..Len(events'))
          BY <2>1, FS_Interval
        <5> QED
          BY <5>1
      <4>2. \A k \in Keys : Count(events', k, DOMAIN events') \in Nat
        BY <4>1, CountMore
      <4> QED
        BY <2>2, <4>2
    <3> QED
      BY <3>1, <3>2
  <2>4. PlacedIs(events)'
    BY <2>2 DEF PlacedIs
  <2>5. ServerOK(new, events')
    <3>1. IsChained(events)
      BY <1>1, <1>3, <1>6 DEF TablesOK, ServerOK
    <3> QED
      BY <1>4, <1>5, <2>1, <3>1 DEF ServerOK
  <2>6. process["server"].pc # "open"
    BY <1>1, <1>6
  <2> QED
    BY <1>1, <1>3, <1>5, <1>6, <2>1, <2>3, <2>4, <2>5, <2>6, ServerMoves
<1>7. CASE p # "server"
  <2>1. p \in Builds /\ process[p] # Closed
    BY <1>1, <1>7, ClosedIsOne DEF Processes
  <2>2. UNCHANGED <<form, placed, events, submitting, answered>>
    BY <1>1, <1>2, <1>3, <2>1, BuildChains
  <2>3. BuildOK(new, events) /\ process["server"].pc = "open"
    BY <1>4, <1>5, <2>1 DEF BuildOK, StoreInv
  <2> QED
    BY <1>3, <1>5, <1>7, <2>2, <2>3, ProcessMoves
<1> QED
  BY <1>6, <1>7

-----------------------------------------------------------------------------
(* A vote. *)

(* The last hash of a chained log covers all of it. *)
LEMMA LatestOfChained ==
  ASSUME events \in Seq(VoteEvent), IsChained(events)
  PROVE  LatestHash = [i \in 1..Len(events) |-> events[i].payload]
<1> DEFINE n == Len(events)
           hashed == {i \in DOMAIN events : events[i].hash # <<>>}
<1>1. DOMAIN events = 1..n /\ n \in Nat
  OBVIOUS
<1>2. \A i \in 1..n : events[i].hash = [j \in 1..i |-> events[j].payload]
  BY <1>1 DEF IsChained, Hashes
<1>3. hashed = 1..n
  <2>1. \A i \in 1..n : events[i].hash # <<>>
    <3> SUFFICES ASSUME NEW i \in 1..n PROVE events[i].hash # <<>>
      OBVIOUS
    <3>1. DOMAIN events[i].hash = 1..i /\ 1 \in 1..i
      <4>1. events[i].hash = [j \in 1..i |-> events[j].payload]
        BY <1>2
      <4> QED
        BY <1>1, <4>1
    <3>2. DOMAIN <<>> = {}
      OBVIOUS
    <3> QED
      BY <3>1, <3>2
  <2> QED
    BY <1>1, <2>1
<1>4. LatestHash = IF hashed = {} THEN <<>> ELSE events[Max(hashed)].hash
  BY DEF LatestHash
<1> HIDE DEF hashed, n
<1>5. CASE n = 0
  <2>1. hashed = {}
    BY <1>3, <1>5
  <2>2. [i \in 1..n |-> events[i].payload] = <<>>
    BY <1>5
  <2> QED
    BY <1>4, <2>1, <2>2 DEF n
<1>6. CASE n # 0
  <2>1. n \in 1..n
    BY <1>1, <1>6
  <2>2. Max(1..n) \in 1..n /\ \A k \in 1..n : Max(1..n) >= k
    BY <1>1, <2>1, MaxIsIn
  <2>3. Max(1..n) = n
    BY <1>1, <2>1, <2>2
  <2> QED
    BY <1>2, <1>3, <1>4, <2>1, <2>3 DEF n
<1> QED
  BY <1>5, <1>6

(* A vote's event has the types of the log's. *)
LEMMA NewEvent ==
  ASSUME NEW p \in Placers, NEW i \in Ids, NEW h \in Seq(Ids), NEW e, e = EventOf(p, i, h)
  PROVE  e \in VoteEvent /\ e.by = p /\ e.match = i /\ e.payload = i /\ e.hash = h
<1> DEFINE H == Seq(Ids)
<1>1. h \in H
  OBVIOUS
<1> HIDE DEF H
<1> QED
  BY <1>1 DEF EventOf, VoteEvent, H

(* A chained log stays chained when the new event continues the chain. *)
LEMMA ChainGrows ==
  ASSUME NEW log \in Seq(VoteEvent), NEW e \in VoteEvent, IsChained(log),
         e.hash = Append([i \in 1..Len(log) |-> log[i].payload], e.payload)
  PROVE  IsChained(Append(log, e))
<1> DEFINE new == Append(log, e)
           n == Len(log)
           past == [i \in 1..n |-> log[i].payload]
<1>1. /\ DOMAIN log = 1..n /\ n \in Nat /\ DOMAIN new = 1..(n + 1) /\ new[n + 1] = e /\ new \in Seq(VoteEvent)
      /\ \A i \in 1..n : new[i] = log[i]
  <2> DEFINE R == VoteEvent
  <2>1. log \in Seq(R) /\ e \in R
    OBVIOUS
  <2> HIDE DEF R
  <2>2. new \in Seq(R)
    BY <2>1
  <2>3. /\ DOMAIN log = 1..n /\ n \in Nat /\ DOMAIN new = 1..(n + 1) /\ new[n + 1] = e
        /\ \A i \in 1..n : new[i] = log[i]
    BY <2>1
  <2> QED
    BY <2>2, <2>3 DEF R
<1>2. Append(past, e.payload) = [i \in 1..(n + 1) |-> IF i = n + 1 THEN e.payload ELSE log[i].payload]
  <2>1. past \in Seq(Ids) /\ Len(past) = n /\ e.payload \in Ids
    <3>1. \A i \in 1..n : log[i].payload \in Ids
      BY <1>1, LogEvents
    <3> QED
      BY <1>1, <3>1 DEF VoteEvent
  <2>2. \A i \in 1..n : past[i] = log[i].payload
    OBVIOUS
  <2> HIDE DEF past
  <2>3. Append(past, e.payload) = [i \in 1..(Len(past) + 1) |-> IF i <= Len(past) THEN past[i] ELSE e.payload]
    BY <2>1
  <2> QED
    BY <1>1, <2>1, <2>2, <2>3
<1> HIDE DEF new, past
<1>3. \A i \in 1..n : new[i].hash = Hashes(new)[i]
  <2>1. DOMAIN log \subseteq DOMAIN new /\ \A i \in DOMAIN log : log[i].payload = new[i].payload
    BY <1>1
  <2>2. \A i \in DOMAIN log : Hashes(log)[i] = Hashes(new)[i]
    BY <1>1, <2>1, HashesSame
  <2> QED
    BY <1>1, <2>2 DEF IsChained
<1>4. new[n + 1].hash = Hashes(new)[n + 1]
  <2>1. Hashes(new)[n + 1] = [i \in 1..(n + 1) |-> new[i].payload]
    BY <1>1 DEF Hashes
  <2>2. \A i \in 1..(n + 1) : new[i].payload = IF i = n + 1 THEN e.payload ELSE log[i].payload
    BY <1>1
  <2> QED
    BY <1>1, <1>2, <2>1, <2>2 DEF past
<1> QED
  BY <1>1, <1>3, <1>4 DEF IsChained, new

(* A vote in the database. *)
LEMMA SubmitOK ==
  ASSUME StoreInv, NEW by \in Placers, NEW m \in Ids, SubmitToDatabase(by, m)
  PROVE  StoreInv'
<1> DEFINE c == OfficialId(m)
           e == EventOf(by, c, Append(LatestHash, c))
<1>1. /\ form = "sqlite" /\ process["server"].pc = "open" /\ UNCHANGED <<form, process, submitting>>
      /\ events' = Append(events, e) /\ placed' = [placed EXCEPT ![<<by, c>>] = @ + 1]
  BY DEF SubmitToDatabase, Serving
<1>2. c \in Ids /\ c \notin Legacy /\ <<by, c>> \in Keys
  BY OfficialIds DEF Ids, Keys
<1> HIDE DEF c
<1>3. TablesOK /\ events \in Seq(VoteEvent) /\ IsChained(events) /\ NoOld(events)
  BY <1>1 DEF StoreInv, TablesOK, ServerOK
<1> DEFINE past == [i \in 1..Len(events) |-> events[i].payload]
<1>4. LatestHash = past /\ past \in Seq(Ids)
  <2>1. \A i \in 1..Len(events) : events[i].payload \in Ids
    BY <1>3, LogEvents
  <2> QED
    BY <1>3, <2>1, LatestOfChained
<1>5. /\ e \in VoteEvent /\ e.by = by /\ e.match = c /\ e.payload = c /\ e.hash = Append(past, c)
  <2> DEFINE h == Append(LatestHash, c)
  <2>1. h \in Seq(Ids) /\ h = Append(past, c)
    BY <1>2, <1>4
  <2> HIDE DEF h
  <2>2. EventOf(by, c, h) = e
    BY DEF h
  <2> HIDE DEF e, past
  <2> QED
    <3>1. c \in Ids /\ h \in Seq(Ids) /\ e = EventOf(by, c, h)
      BY <1>2, <2>1, <2>2
    <3>2. e \in VoteEvent /\ e.by = by /\ e.match = c /\ e.payload = c /\ e.hash = h
      BY <3>1, NewEvent
    <3> QED
      BY <2>1, <3>2
<1> HIDE DEF e
<1>6. /\ events' \in Seq(VoteEvent) /\ DOMAIN events' = DOMAIN events \cup {Len(events) + 1}
      /\ events'[Len(events) + 1] = e /\ \A n \in DOMAIN events : events'[n] = events[n]
  <2> DEFINE R == VoteEvent
  <2>1. events \in Seq(R) /\ e \in R
    BY <1>3, <1>5
  <2> HIDE DEF R
  <2>2. events' \in Seq(R) /\ DOMAIN events' = 1..(Len(events) + 1) /\ DOMAIN events = 1..Len(events)
        /\ Len(events) \in Nat
    BY <1>1, <2>1
  <2>3. events'[Len(events) + 1] = e /\ \A n \in 1..Len(events) : events'[n] = events[n]
    BY <1>1, <2>1
  <2> QED
    BY <2>2, <2>3 DEF R
<1>7. IsChained(events') /\ NoOld(events') /\ PayloadsFit(events')
  <2>1. IsChained(Append(events, e))
    BY <1>3, <1>5, ChainGrows
  <2>2. PayloadsFit(events)
    BY <1>3 DEF TablesOK
  <2>3. NoOld(events')
    BY <1>2, <1>3, <1>5, <1>6 DEF NoOld
  <2>4. PayloadsFit(events')
    BY <1>5, <1>6, <2>2 DEF PayloadsFit
  <2> QED
    BY <1>1, <2>1, <2>3, <2>4
<1>8. placed' \in [Keys -> Nat] /\ PlacedIs(events)'
  <2>1. placed \in [Keys -> Nat]
    BY DEF StoreInv
  <2>2. /\ placed' \in [Keys -> Nat]
        /\ \A k \in Keys : placed'[k] = placed[k] + (IF k = <<by, c>> THEN 1 ELSE 0)
    BY <1>1, <1>2, <2>1
  <2>3. ASSUME NEW k \in Keys
        PROVE  placed'[k] = Count(events', k, DOMAIN events')
    <3>1. Count(events', k, DOMAIN events') = Count(events, k, DOMAIN events) + Counts(e, k)
      BY <1>1, <1>3, <1>5, CountAppend
    <3>2. Counts(e, k) = IF k = <<by, c>> THEN 1 ELSE 0
      BY <1>5 DEF Counts
    <3>3. placed[k] = Count(events, k, DOMAIN events)
      BY <1>3 DEF TablesOK, PlacedIs
    <3> QED
      BY <2>2, <3>1, <3>2, <3>3
  <2> QED
    BY <2>2, <2>3 DEF PlacedIs
<1>9. ServerOK(process["server"], events') /\ \A b \in Builds : BuildOK(process[b], events')
  <2>1. \A copy : Begins(copy, events) => Begins(copy, events')
    BY <1>6 DEF Begins
  <2> QED
    BY <1>1, <1>3, <1>7, <2>1 DEF TablesOK, ServerOK, BuildOK
<1>10. TablesOK'
  BY <1>1, <1>3, <1>7, <1>8, <1>9 DEF TablesOK
<1> QED
  BY <1>1, <1>6, <1>8, <1>10 DEF StoreInv

(* The JSON store goes on: what counts for a voter stays between what he was
   told and what the log has. *)
LEMMA FilesMove ==
  ASSUME StoreInv, form = "json", UNCHANGED form, placed' \in [Keys -> Nat], events' \in Seq(VoteEvent),
         process' \in [Processes -> StoreProcess], FilesOK',
         UNCHANGED process \/ \A p \in Processes : process'[p] = Closed
  PROVE  StoreInv'
<1>1. \A b \in Builds : process'[b] = Closed \/ process'["server"].pc = "open"
  BY DEF StoreInv, Processes
<1> QED
  BY <1>1 DEF StoreInv

(* The events of a log are a finite set. *)
LEMMA LogIsFinite ==
  ASSUME NEW log \in Seq(VoteEvent)
  PROVE  IsFiniteSet(DOMAIN log) /\ DOMAIN log = 1..Len(log) /\ Len(log) \in Nat
<1>1. DOMAIN log = 1..Len(log) /\ Len(log) \in Nat
  OBVIOUS
<1>2. IsFiniteSet(1..Len(log))
  BY <1>1, FS_Interval
<1> QED
  BY <1>1, <1>2

(* The log first ... *)
LEMMA AppendVoteEventOK ==
  ASSUME StoreInv, NEW by \in Placers, NEW m \in Ids, AppendVoteEvent(by, m)
  PROVE  StoreInv'
<1> DEFINE e == EventOf(by, OfficialId(m), <<>>)
           n == Len(events) + 1
<1>1. /\ form = "json" /\ submitting = NoVote /\ UNCHANGED <<form, placed, process, answered>>
      /\ events' = Append(events, e) /\ submitting' = Last(events')
  BY DEF AppendVoteEvent, Serving
<1>2. e \in VoteEvent
  <2>1. OfficialId(m) \in Ids /\ <<>> \in Seq(Ids)
    BY OfficialIds DEF Ids
  <2> HIDE DEF e
  <2>2. e = EventOf(by, OfficialId(m), <<>>)
    BY DEF e
  <2> QED
    BY <2>1, <2>2, NewEvent
<1> HIDE DEF e
<1>3. FilesOK /\ events \in Seq(VoteEvent) /\ Counted = DOMAIN events
  BY <1>1 DEF StoreInv, Counted
<1>4. /\ events' \in Seq(VoteEvent) /\ Len(events') = n /\ n \in Nat /\ events' # <<>>
      /\ DOMAIN events' = DOMAIN events \cup {n} /\ n \notin DOMAIN events
      /\ \A i \in DOMAIN events : events'[i] = events[i]
  <2> DEFINE R == VoteEvent
  <2>1. events \in Seq(R) /\ e \in R
    BY <1>2, <1>3
  <2> HIDE DEF R
  <2>2. /\ events' \in Seq(R) /\ DOMAIN events' = 1..n /\ DOMAIN events = 1..Len(events)
        /\ Len(events) \in Nat /\ Len(events') = n /\ events' # <<>>
    BY <1>1, <2>1
  <2>3. \A i \in 1..Len(events) : events'[i] = events[i]
    BY <1>1, <2>1
  <2> QED
    BY <2>2, <2>3 DEF R
<1> HIDE DEF n
<1>5. DOMAIN events \subseteq Counted'
  BY <1>4 DEF Counted
<1>6. Counted' \subseteq DOMAIN events' /\ IsFiniteSet(DOMAIN events')
  BY <1>4, LogIsFinite DEF Counted
<1>7. ASSUME NEW k \in Keys
      PROVE  Count(events', k, answered) =< placed[k] /\ placed[k] =< Count(events', k, Counted')
  <2>1. answered \subseteq DOMAIN events
    BY <1>3 DEF FilesOK
  <2>2. Count(events', k, answered) = Count(events, k, answered)
    BY <1>4, <2>1, CountSame
  <2>3. Count(events', k, DOMAIN events) = Count(events, k, DOMAIN events)
    BY <1>4, CountSame
  <2>4. IsFiniteSet(Counted')
    BY <1>6, FS_Subset
  <2>5. /\ Count(events', k, DOMAIN events) =< Count(events', k, Counted')
        /\ Count(events', k, DOMAIN events) \in Nat /\ Count(events', k, Counted') \in Nat
    BY <1>5, <2>4, CountMore
  <2>6. Count(events, k, answered) =< placed[k] /\ placed[k] =< Count(events, k, DOMAIN events) /\ placed[k] \in Nat
    BY <1>3 DEF FilesOK, StoreInv
  <2> QED
    BY <2>2, <2>3, <2>5, <2>6
<1>8. submitting' = events'[Len(events')]
  BY <1>1 DEF Last
<1>9. answered \subseteq Counted'
  BY <1>3, <1>5 DEF FilesOK
<1>10. FilesOK'
  BY <1>1, <1>3, <1>4, <1>7, <1>8, <1>9 DEF FilesOK
<1> QED
  BY <1>1, <1>4, <1>10, FilesMove DEF StoreInv

(* ... then the state ... *)
LEMMA WriteVoteStateOK ==
  ASSUME StoreInv, WriteVoteState
  PROVE  StoreInv'
<1> DEFINE n == Len(events)
           key == <<submitting.by, submitting.match>>
<1>1. /\ submitting # NoVote /\ submitting' = NoVote /\ UNCHANGED <<form, events, process>>
      /\ placed' = [placed EXCEPT ![key] = @ + 1] /\ answered' = answered \cup {n}
  BY DEF WriteVoteState
<1>2. form = "json" /\ FilesOK /\ events \in Seq(VoteEvent)
  BY <1>1 DEF StoreInv, TablesOK
<1>3. /\ submitting = events[n] /\ Counted = DOMAIN events \ {n} /\ n \in DOMAIN events
      /\ Counted' = Counted \cup {n} /\ n \notin Counted /\ n \notin answered /\ answered \subseteq Counted
  <2>1. n \in DOMAIN events
    BY <1>1, <1>2 DEF FilesOK
  <2> QED
    BY <1>1, <1>2, <2>1 DEF FilesOK, Counted
<1> HIDE DEF n
<1>4. IsFiniteSet(Counted) /\ IsFiniteSet(answered)
  <2>1. IsFiniteSet(DOMAIN events)
    BY <1>2, LogIsFinite
  <2> QED
    BY <1>3, <2>1, FS_Subset
<1>5. placed' \in [Keys -> Nat] /\ \A k \in Keys : placed'[k] = placed[k] + Counts(events[n], k)
  <2>1. placed \in [Keys -> Nat]
    BY DEF StoreInv
  <2>2. \A k \in Keys : Counts(events[n], k) = IF k = key THEN 1 ELSE 0
    BY <1>3 DEF Counts
  <2>4. key \in Keys
    <3>1. events[n].by \in Placers /\ events[n].match \in Ids
      BY <1>2, <1>3, LogEvents
    <3> QED
      BY <1>3, <3>1 DEF Keys, Ids
  <2> HIDE DEF key
  <2>3. placed' \in [Keys -> Nat] /\ \A k \in Keys : placed'[k] = placed[k] + (IF k = key THEN 1 ELSE 0)
    BY <1>1, <2>1, <2>4
  <2> QED
    BY <2>2, <2>3
<1>6. ASSUME NEW k \in Keys
      PROVE  Count(events, k, answered') =< placed'[k] /\ placed'[k] =< Count(events, k, Counted')
  <2>1. /\ Count(events, k, answered \cup {n}) = Count(events, k, answered) + Counts(events[n], k)
        /\ Count(events, k, answered) \in Nat
    BY <1>3, <1>4, CountOneMore
  <2>2. /\ Count(events, k, Counted \cup {n}) = Count(events, k, Counted) + Counts(events[n], k)
        /\ Count(events, k, Counted) \in Nat
    BY <1>3, <1>4, CountOneMore
  <2>3. Count(events, k, answered) =< placed[k] /\ placed[k] =< Count(events, k, Counted) /\ placed[k] \in Nat
    BY <1>2 DEF FilesOK, StoreInv
  <2>4. Counts(events[n], k) \in Nat
    BY DEF Counts
  <2> QED
    BY <1>1, <1>3, <1>5, <2>1, <2>2, <2>3, <2>4
<1>7. FilesOK'
  <2>1. answered' \subseteq Counted'
    BY <1>1, <1>3
  <2>2. \A k \in Keys : Count(events', k, answered') =< placed'[k] /\ placed'[k] =< Count(events', k, Counted')
    BY <1>1, <1>6
  <2>3. \A p \in Processes : process'[p].pc \in {"closed", "open"}
    BY <1>1, <1>2 DEF FilesOK
  <2>4. submitting' = NoVote
    BY <1>1
  <2> QED
    BY <2>1, <2>2, <2>3, <2>4 DEF FilesOK
<1> QED
  BY <1>1, <1>2, <1>5, <1>7, FilesMove DEF StoreInv

(* ... unless it cannot be written, or the container stops. *)
LEMMA VoteForgotten ==
  ASSUME StoreInv, form = "json", UNCHANGED <<form, placed, events, answered>>, submitting' = NoVote,
         process' \in [Processes -> StoreProcess],
         UNCHANGED process \/ \A p \in Processes : process'[p] = Closed
  PROVE  StoreInv'
<1>1. FilesOK /\ events \in Seq(VoteEvent) /\ placed \in [Keys -> Nat]
  BY DEF StoreInv
<1>2. Counted' = DOMAIN events /\ Counted \subseteq DOMAIN events /\ IsFiniteSet(DOMAIN events)
  BY <1>1, LogIsFinite DEF Counted
<1>3. ASSUME NEW k \in Keys
      PROVE  placed[k] =< Count(events, k, Counted')
  <2>1. /\ Count(events, k, Counted) =< Count(events, k, DOMAIN events)
        /\ Count(events, k, Counted) \in Nat /\ Count(events, k, DOMAIN events) \in Nat
    BY <1>2, CountMore
  <2>2. placed[k] =< Count(events, k, Counted) /\ placed[k] \in Nat
    BY <1>1 DEF FilesOK
  <2> QED
    BY <1>2, <2>1, <2>2
<1>4. \A p \in Processes : process'[p].pc \in {"closed", "open"}
  BY <1>1, ClosedIsOne DEF FilesOK
<1>5. FilesOK'
  BY <1>1, <1>2, <1>3, <1>4 DEF FilesOK
<1> QED
  BY <1>1, <1>5, FilesMove

(* The vote under way is forgotten when the state cannot be written ... *)
LEMMA WriteVoteStateFailsOK ==
  ASSUME StoreInv, WriteVoteStateFails
  PROVE  StoreInv'
<1>1. /\ submitting # NoVote /\ submitting' = NoVote
      /\ UNCHANGED <<form, placed, events, process, answered>>
  BY DEF WriteVoteStateFails
<1>2. form = "json" /\ process' \in [Processes -> StoreProcess]
  BY <1>1 DEF StoreInv, TablesOK
<1> QED
  BY <1>1, <1>2, VoteForgotten

(* ... and when the container stops, wherever its processes are. *)
LEMMA StopContainerOK ==
  ASSUME StoreInv, StopContainer
  PROVE  StoreInv'
<1>1. submitting' = NoVote /\ UNCHANGED <<form, placed, events, answered>>
  BY DEF StopContainer
<1>2. process' \in [Processes -> StoreProcess] /\ \A p \in Processes : process'[p] = Closed
  <2> DEFINE C == Closed
             R == StoreProcess
  <2>1. process' = [p \in Processes |-> C] /\ C \in R
    BY ClosedIsOne DEF StopContainer
  <2> HIDE DEF C, R
  <2>2. process' \in [Processes -> R] /\ \A p \in Processes : process'[p] = C
    BY <2>1
  <2> QED
    BY <2>2 DEF C, R
<1>3. CASE form = "json"
  BY <1>1, <1>2, <1>3, VoteForgotten
<1>4. CASE form = "sqlite"
  <2>1. "server" \in Processes /\ \A b \in Builds : b \in Processes
    BY DEF Processes
  <2>2. ServerOK(Closed, events) /\ BuildOK(Closed, events)
    BY ClosedIsOne DEF ServerOK, BuildOK
  <2>3. TablesOK
    BY <1>4 DEF StoreInv
  <2>4. ServerOK(process'["server"], events') /\ \A b \in Builds : BuildOK(process'[b], events')
    BY <1>1, <1>2, <2>1, <2>2
  <2>5. PlacedIs(events)'
    BY <1>1, <2>3 DEF TablesOK, PlacedIs
  <2>6. TablesOK'
    BY <1>1, <2>3, <2>4, <2>5 DEF TablesOK
  <2> QED
    BY <1>1, <1>2, <1>4, <2>1, <2>6 DEF StoreInv
<1> QED
  BY <1>3, <1>4 DEF StoreInv

(* A log of an earlier version, chained or not. *)
LEMMA StoreInvInit ==
  ASSUME StoreInit
  PROVE  StoreInv
<1>1. PICK h \in Histories, chained \in BOOLEAN :
        LET log == [n \in DOMAIN h |-> [by |-> h[n].by, match |-> h[n].match,
                                        payload |-> h[n].match, hash |-> <<>>]]
        IN  /\ events = [n \in DOMAIN h |-> [log[n] EXCEPT !.hash = IF chained THEN Hashes(log)[n] ELSE <<>>]]
            /\ placed = [k \in Keys |-> Cardinality({n \in DOMAIN h : <<h[n].by, h[n].match>> = k})]
            /\ answered = DOMAIN h
  BY DEF StoreInit
<1> DEFINE First(n) == EventOf(h[n].by, h[n].match, <<>>)
           log == [n \in DOMAIN h |-> First(n)]
           W(n) == IF chained THEN Hashes(log)[n] ELSE <<>>
<1>2. /\ events = [n \in DOMAIN h |-> [log[n] EXCEPT !.hash = W(n)]]
      /\ placed = [k \in Keys |-> Cardinality({n \in DOMAIN h : <<h[n].by, h[n].match>> = k})]
      /\ answered = DOMAIN h
  BY <1>1 DEF EventOf
<1>3. /\ DOMAIN h = 1..Len(h) /\ Len(h) \in Nat
      /\ \A n \in 1..Len(h) : h[n].by \in Placers /\ h[n].match \in Ids
  <2> DEFINE R == [by : Placers, match : Ids]
  <2>1. h \in Seq(R)
    BY VoteStoreAssumption DEF Ids
  <2> HIDE DEF R
  <2>2. DOMAIN h = 1..Len(h) /\ Len(h) \in Nat /\ \A n \in 1..Len(h) : h[n] \in R
    BY <2>1
  <2> QED
    BY <2>2 DEF R
<1>4. \A n \in DOMAIN h : /\ log[n] \in VoteEvent /\ log[n].by = h[n].by /\ log[n].match = h[n].match
                          /\ log[n].payload = h[n].match
  <2> SUFFICES ASSUME NEW n \in DOMAIN h
               PROVE  /\ log[n] \in VoteEvent /\ log[n].by = h[n].by /\ log[n].match = h[n].match
                      /\ log[n].payload = h[n].match
    OBVIOUS
  <2>1. log[n] = EventOf(h[n].by, h[n].match, <<>>) /\ <<>> \in Seq(Ids)
    OBVIOUS
  <2> DEFINE by == h[n].by
             m == h[n].match
             e == log[n]
             z == <<>>
  <2>2. by \in Placers /\ m \in Ids /\ z \in Seq(Ids) /\ e = EventOf(by, m, z)
    BY <1>3, <2>1
  <2> HIDE DEF log, by, m, e, z
  <2>3. e \in VoteEvent /\ e.by = by /\ e.match = m /\ e.payload = m
    BY <2>2, NewEvent
  <2> QED
    BY <2>3 DEF by, m, e
<1>5. log \in Seq(VoteEvent) /\ DOMAIN log = DOMAIN h
  <2> DEFINE R == VoteEvent
  <2>1. \A n \in 1..Len(h) : log[n] \in R
    BY <1>3, <1>4
  <2>2. log = [n \in 1..Len(h) |-> log[n]]
    BY <1>3
  <2> HIDE DEF R, log
  <2>3. log \in Seq(R) /\ DOMAIN log = DOMAIN h
    BY <1>3, <2>1, <2>2
  <2> QED
    BY <2>3 DEF R
<1>6. \A n \in DOMAIN h : W(n) \in Seq(Ids)
  <2>1. <<>> \in Seq(Ids)
    OBVIOUS
  <2> HIDE DEF log
  <2> QED
    BY <1>5, <2>1, HashesAreLists
<1> HIDE DEF log, W
<1>7. \A n \in DOMAIN h : /\ events[n] \in VoteEvent /\ events[n].by = h[n].by /\ events[n].match = h[n].match
                          /\ events[n].payload = h[n].match
  <2> SUFFICES ASSUME NEW n \in DOMAIN h
               PROVE  /\ events[n] \in VoteEvent /\ events[n].by = h[n].by /\ events[n].match = h[n].match
                      /\ events[n].payload = h[n].match
    OBVIOUS
  <2> DEFINE H == Seq(Ids)
  <2>1. events[n] = [log[n] EXCEPT !.hash = W(n)]
    BY <1>2
  <2>2. log[n] \in [by : Placers, match : Ids, payload : Ids, hash : H] /\ W(n) \in H
    BY <1>4, <1>6 DEF VoteEvent
  <2> HIDE DEF H
  <2>3. /\ events[n] \in [by : Placers, match : Ids, payload : Ids, hash : H]
        /\ events[n].by = log[n].by /\ events[n].match = log[n].match /\ events[n].payload = log[n].payload
    BY <2>1, <2>2
  <2> QED
    BY <1>4, <2>3 DEF VoteEvent, H
<1>8. events \in Seq(VoteEvent) /\ DOMAIN events = DOMAIN h
  <2> DEFINE R == VoteEvent
  <2>1. \A n \in 1..Len(h) : events[n] \in R
    BY <1>3, <1>7
  <2>2. events = [n \in 1..Len(h) |-> events[n]]
    BY <1>2, <1>3
  <2> HIDE DEF R
  <2>3. events \in Seq(R)
    BY <1>3, <2>1, <2>2
  <2> QED
    BY <1>2, <2>3 DEF R
<1>9. PlacedIs(events) /\ placed \in [Keys -> Nat]
  <2>1. \A k : About(events, k, DOMAIN events) = {n \in DOMAIN h : <<h[n].by, h[n].match>> = k}
    BY <1>7, <1>8 DEF About
  <2>2. \A k \in Keys : placed[k] = Count(events, k, DOMAIN events)
    BY <1>2, <2>1 DEF Count
  <2>3. \A k \in Keys : Count(events, k, DOMAIN events) \in Nat
    BY <1>8, LogIsFinite, CountMore
  <2>4. placed = [k \in Keys |-> placed[k]]
    BY <1>2
  <2> QED
    BY <2>2, <2>3, <2>4 DEF PlacedIs
<1>10. /\ submitting = NoVote /\ form \in {"sqlite", "json"}
       /\ process \in [Processes -> StoreProcess] /\ \A p \in Processes : process[p] = Closed
  <2> DEFINE C == Closed
             R == StoreProcess
  <2>1. process = [p \in Processes |-> C] /\ C \in R
    BY ClosedIsOne DEF StoreInit
  <2> HIDE DEF C, R
  <2>2. process \in [Processes -> R] /\ \A p \in Processes : process[p] = C
    BY <2>1
  <2>3. submitting = NoVote /\ form \in {"sqlite", "json"}
    BY DEF StoreInit
  <2> QED
    BY <2>2, <2>3 DEF C, R
<1>11. "server" \in Processes /\ \A b \in Builds : b \in Processes
  BY DEF Processes
<1>12. TablesOK
  <2>1. PayloadsFit(events)
    BY <1>7, <1>8 DEF PayloadsFit
  <2>2. ServerOK(Closed, events) /\ BuildOK(Closed, events)
    BY ClosedIsOne DEF ServerOK, BuildOK
  <2> QED
    BY <1>9, <1>10, <1>11, <2>1, <2>2 DEF TablesOK
<1>13. FilesOK
  <2>1. Counted = DOMAIN events /\ answered = DOMAIN events
    BY <1>2, <1>8, <1>10 DEF Counted
  <2>2. \A k \in Keys : placed[k] = Count(events, k, DOMAIN events) /\ placed[k] \in Nat
    BY <1>9 DEF PlacedIs
  <2>3. \A k \in Keys : Count(events, k, answered) =< placed[k] /\ placed[k] =< Count(events, k, Counted)
    BY <2>1, <2>2
  <2> QED
    BY <1>10, <2>1, <2>3, ClosedIsOne DEF FilesOK
<1> QED
  BY <1>8, <1>9, <1>10, <1>11, <1>12, <1>13 DEF StoreInv

(* Every step keeps it, when builds start beside a server that is up. *)
LEMMA StoreInvNext ==
  ASSUME ~ ShellBuilds, StoreInv, [StoreSteps]_storeVars
  PROVE  StoreInv'
<1>1. CASE UNCHANGED storeVars
  <2>1. UNCHANGED <<form, placed, events, process, submitting, answered>>
    BY <1>1 DEF storeVars
  <2> QED
    BY <2>1 DEF StoreInv, TablesOK, FilesOK, PlacedIs, Counted
<1>2. CASE StartServer \/ StopContainer \/ WriteVoteState \/ WriteVoteStateFails
  BY <1>2, StartServerOK, StopContainerOK, WriteVoteStateOK, WriteVoteStateFailsOK
<1>3. CASE \E p \in Processes : ReadEvents(p) \/ WriteHashes(p) \/ MigrateLegacyMatchIds(p)
  BY <1>3, ReadEventsOK, WriteHashesOK, MigrateOK
<1>4. CASE \E p \in Builds : StartBuild(p) \/ CloseBuild(p) \/ KillBuild(p)
  BY <1>4, StartBuildOK, BuildEnds
<1>5. CASE \E by \in Placers, m \in Ids : SubmitToDatabase(by, m) \/ AppendVoteEvent(by, m)
  BY <1>5, SubmitOK, AppendVoteEventOK
<1> QED
  BY <1>1, <1>2, <1>3, <1>4, <1>5 DEF StoreSteps, Ids

(* If builds start only beside a server that is up, what the server of the
   SQLite store goes by is its log, under official ids and in one chain, and
   the JSON store counts what it told and no more than its log has. *)
THEOREM VotesLogged ==
  ASSUME ~ ShellBuilds
  PROVE  StoreSpec => []VotesAreTheirLog
<1>1. StoreInit => StoreInv
  BY StoreInvInit
<1>2. StoreInv /\ [StoreSteps]_storeVars => StoreInv'
  BY StoreInvNext
<1>3. StoreInv => VotesAreTheirLog
  BY StoreInvPromises
<1> QED
  BY <1>1, <1>2, <1>3, PTL DEF StoreSpec

-----------------------------------------------------------------------------
(* The scan of the ticket ledger. An event that a scan of its block did    *)
(* not see is missed; whatever blocks the sources are cached up to or      *)
(* refreshes are known by, from the event's block on, a scan that missed   *)
(* it stands behind each of them, with one exception: a killed refresh     *)
(* leaves the other source cached up to one more block. The explorer       *)
(* misses an event less often than the look-back is long by two, so a      *)
(* refresh that looks back begins at the event's block or before.          *)

(* A refresh, and what is cached of a source. *)
ScanPcs == {"idle", "success", "open", "scanned", "resolving"}
IsRefresh(r) ==
  r \in [pc : ScanPcs, to : Nat, from : Nat, success : SUBSET Events, opens : SUBSET Events,
         due : SUBSET Checkouts]
IsCache(c) == c \in [to : Nat, events : SUBSET Events]

ScanTypes ==
  /\ head \in Nat \ {0} /\ at \in [Events -> Nat] /\ served \subseteq Events /\ missed \in [Events -> Nat]
  /\ DOMAIN eventCache = Sources /\ \A s \in Sources : IsCache(eventCache[s])
  /\ checkpoints \subseteq Nat /\ IsRefresh(refresh)

(* The blocks that are known, and those of them from b on. *)
Scanned(s) == checkpoints \cup {eventCache[s].to}
Upward(B, b) == {c \in B : c >= b}

(* The chain's head is the last block anybody knows; within a refresh, the *)
(* sources are cached up to its block once they are scanned.               *)
BlocksInv ==
  /\ head =< MaxBlock
  /\ \A e \in Events : at[e] =< head
  /\ \A e \in served : at[e] # 0
  /\ \A s \in Sources : eventCache[s].to =< head
  /\ \A c \in checkpoints : c =< head /\ c # 0
  /\ refresh.pc # "idle" =>
       /\ refresh.to \in 1..head /\ \A c \in checkpoints : c =< refresh.to
       /\ \A s \in Sources : eventCache[s].to =< refresh.to
  /\ refresh.pc \in {"open", "scanned"} => eventCache["success"].to = refresh.to
  /\ refresh.pc = "scanned" => eventCache["open"].to = refresh.to

(* Only what was shown is cached. *)
CacheInv == \A s \in Sources : \A e \in eventCache[s].events : e \in served /\ e.source = s

(* An event that is on the chain and not cached. *)
Open(e) == at[e] # 0 /\ e \notin eventCache[e.source].events

(* A scan that missed it stands behind each block from its own on. *)
MissInv ==
  \A e \in Events :
    /\ missed[e] # 0 => /\ at[e] # 0 /\ missed[e] + 2 =< Lookback
                        /\ \E c \in checkpoints : c =< at[e]
    /\ Open(e) => Cardinality(Upward(Scanned(e.source), at[e])) =< missed[e]

(* The source is still to be scanned in the refresh under way. *)
ToScan(s) == IF s = "success" THEN {"success"} ELSE {"success", "open"}

(* A refresh begins at the block of an event missed before, or earlier. *)
FromInv ==
  \A e \in Events :
    refresh.pc \in ToScan(e.source) /\ Open(e) /\ missed[e] # 0 => refresh.from =< at[e]

(* What was shown in full when the refresh began is read. *)
DueInv ==
  refresh.pc # "idle" =>
    \A c \in refresh.due : \A s \in Sources :
      LET e == [source |-> s, checkout |-> c] IN
      /\ e \in served /\ at[e] =< refresh.to
      /\ refresh.pc \notin ToScan(s) => e \in (IF s = "success" THEN refresh.success ELSE refresh.opens)

(* The inductive invariant. *)
ScanInv == ScanTypes /\ BlocksInv /\ CacheInv /\ MissInv /\ FromInv /\ DueInv /\ LedgerCountsWhatWasShown

(* A finite set of blocks with one at b or before has fewer than n from b  *)
(* on: looking n back begins at b or before.                               *)
LEMMA LooksBackTo ==
  ASSUME NEW B \in SUBSET Nat, IsFiniteSet(B), NEW n \in Nat, NEW b \in Nat, NEW c \in B, c =< b,
         Cardinality(Upward(B, b)) < n, MaxBlock \in Nat
  PROVE  Least(Newest(n, B)) =< b
<1> DEFINE early == {k \in B : k =< b}
<1>2. PICK g \in early : \A k \in early : k =< g
  <2> DEFINE D == {b - k : k \in early}
  <2>1. D \in SUBSET Nat /\ D # {}
    <3>1. \A k \in early : b - k \in Nat
      OBVIOUS
    <3>2. b - c \in D
      OBVIOUS
    <3> QED
      BY <3>1, <3>2
  <2>2. PICK d \in D : \A k \in D : d =< k
    <3> HIDE DEF D
    <3> QED
      BY <2>1, NatLeast
  <2>3. PICK g \in early : d = b - g
    OBVIOUS
  <2>4. \A k \in early : b - k \in D /\ k \in Nat
    OBVIOUS
  <2> HIDE DEF D
  <2>5. \A k \in early : b - g =< b - k
    BY <2>2, <2>3, <2>4
  <2>6. \A k \in early : k =< g
    BY <2>3, <2>4, <2>5
  <2> QED
    BY <2>6
<1>3. {k \in B : k > g} \subseteq Upward(B, b)
  <2>1. \A k \in B : k > g => k >= b
    <3>1. \A k \in B : k \in Nat /\ (k =< b => k \in early)
      OBVIOUS
    <3>2. g \in Nat
      OBVIOUS
    <3> HIDE DEF early
    <3> QED
      BY <1>2, <3>1, <3>2
  <2> QED
    BY <2>1 DEF Upward
<1>4. Cardinality({k \in B : k > g}) < n
  <2> DEFINE U == Upward(B, b)
             V == {k \in B : k > g}
  <2>1. IsFiniteSet(U)
    <3>1. U \subseteq B
      BY DEF Upward
    <3> QED
      BY <3>1, FS_Subset
  <2>2. V \subseteq U
    BY <1>3
  <2> HIDE DEF U, V
  <2>3. Cardinality(V) =< Cardinality(U) /\ Cardinality(V) \in Nat /\ Cardinality(U) \in Nat
    BY <2>1, <2>2, FS_Subset, FS_CardinalityType
  <2> QED
    BY <2>3 DEF U, V
<1>5. g \in Newest(n, B)
  BY <1>2, <1>4 DEF Newest
<1> DEFINE N == Newest(n, B) \cup {MaxBlock + 1}
<1>6. N \in SUBSET Nat /\ g \in N
  <2>1. Newest(n, B) \subseteq B
    BY Zenon DEF Newest
  <2>2. MaxBlock + 1 \in Nat
    OBVIOUS
  <2> QED
    BY <1>5, <2>1, <2>2
<1> HIDE DEF N
<1>7. Min(N) =< g /\ Min(N) \in Nat
  BY <1>6, MinIsLeast
<1>8. g =< b /\ g \in Nat
  BY <1>2
<1> QED
  BY <1>7, <1>8 DEF Least, N

(* Nothing is scanned or known at first. *)
LEMMA ScanBegins == ScanInit => ScanInv
<1> SUFFICES ASSUME ScanInit PROVE ScanInv
  OBVIOUS
<1> USE TicketScanAssumption
<1>1. \A e \in Events : e.source \in Sources
  BY DEF Events
<1>2. ScanTypes
  <2>1. IsRefresh(refresh)
    BY DEF ScanInit, NoRefresh, IsRefresh, ScanPcs
  <2> QED
    BY <2>1 DEF ScanInit, ScanTypes, IsCache
<1>3. BlocksInv
  BY DEF ScanInit, BlocksInv, NoRefresh, Sources
<1>4. CacheInv
  BY DEF ScanInit, CacheInv
<1>5. MissInv
  BY DEF ScanInit, MissInv, Open
<1>6. FromInv
  BY DEF ScanInit, FromInv, Open
<1>7. DueInv /\ LedgerCountsWhatWasShown
  BY DEF ScanInit, DueInv, NoRefresh, LedgerCountsWhatWasShown
<1> QED
  BY <1>2, <1>3, <1>4, <1>5, <1>6, <1>7 DEF ScanInv

(* The blocks known of a source are finitely many. *)
LEMMA ScannedFinite ==
  ASSUME ScanInv
  PROVE  /\ \A s \in Sources : IsFiniteSet(Scanned(s)) /\ Scanned(s) \in SUBSET Nat
         /\ IsFiniteSet(checkpoints)
         /\ \A s \in Sources : \A b \in Nat :
              /\ Cardinality(Upward(Scanned(s), b)) \in Nat /\ IsFiniteSet(Upward(Scanned(s), b))
<1>1. head \in Nat /\ checkpoints \subseteq 0..head
  BY DEF ScanInv, ScanTypes, BlocksInv
<1>2. IsFiniteSet(0..head)
  BY <1>1, FS_Interval
<1>3. IsFiniteSet(checkpoints)
  BY <1>1, <1>2, FS_Subset
<1>4. ASSUME NEW s \in Sources PROVE IsFiniteSet(Scanned(s)) /\ Scanned(s) \in SUBSET Nat
  <2>1. eventCache[s].to \in Nat
    BY DEF ScanInv, ScanTypes, IsCache
  <2>2. IsFiniteSet(checkpoints \cup {eventCache[s].to})
    BY <1>3, FS_AddElement
  <2>3. checkpoints \subseteq Nat
    BY DEF ScanInv, ScanTypes
  <2>4. Scanned(s) = checkpoints \cup {eventCache[s].to}
    BY DEF Scanned
  <2> QED
    BY <2>1, <2>2, <2>3, <2>4
<1>5. ASSUME NEW s \in Sources, NEW b \in Nat
      PROVE  Cardinality(Upward(Scanned(s), b)) \in Nat /\ IsFiniteSet(Upward(Scanned(s), b))
  <2>1. Upward(Scanned(s), b) \subseteq Scanned(s)
    BY DEF Upward
  <2> QED
    BY <1>4, <2>1, FS_Subset, FS_CardinalityType
<1> QED
  BY <1>3, <1>4, <1>5

(* A block that is added to a finite set of blocks adds one at most. *)
LEMMA OneMoreUpward ==
  ASSUME NEW B, NEW C, NEW t, NEW b \in Nat, IsFiniteSet(Upward(B, b)), C \subseteq B \cup {t}
  PROVE  Cardinality(Upward(C, b)) =< Cardinality(Upward(B, b)) + 1
<1> DEFINE U == Upward(B, b)
           V == Upward(C, b)
<1>1. V \subseteq U \cup {t}
  BY DEF Upward
<1>2. IsFiniteSet(U)
  OBVIOUS
<1> HIDE DEF U, V
<1>3. IsFiniteSet(U \cup {t}) /\ Cardinality(U \cup {t}) = (IF t \in U THEN Cardinality(U) ELSE Cardinality(U) + 1)
  BY <1>2, FS_AddElement
<1>4. Cardinality(V) =< Cardinality(U \cup {t}) /\ Cardinality(V) \in Nat
  BY <1>1, <1>3, FS_Subset, FS_CardinalityType
<1>5. Cardinality(U) \in Nat
  BY <1>2, FS_CardinalityType
<1> QED
  BY <1>3, <1>4, <1>5 DEF U, V

(* A new block is above all blocks anybody knows. *)
LEMMA NewBlockKeepsScan ==
  ASSUME ScanInv, NEW new \in SUBSET Events, NewBlock(new) PROVE ScanInv'
<1> USE TicketScanAssumption
<1> USE DEF NewBlock
<1>0. \A e \in Events : e.source \in Sources
  BY DEF Events
<1>1. ScanTypes /\ BlocksInv /\ CacheInv /\ MissInv /\ FromInv /\ DueInv /\ LedgerCountsWhatWasShown
  BY DEF ScanInv
<1>2. \A e \in Events : at'[e] = (IF e \in new THEN head + 1 ELSE at[e])
  OBVIOUS
<1>3. \A e \in Events : at[e] # 0 => at'[e] = at[e]
  BY <1>2
<1>4. head \in Nat \ {0} /\ at \in [Events -> Nat] /\ missed \in [Events -> Nat]
  BY <1>1 DEF ScanTypes
<1>5. ScanTypes'
  <2>1. at' \in [Events -> Nat]
    BY <1>4
  <2> QED
    BY <1>1, <2>1 DEF ScanTypes
<1>6. BlocksInv'
  <2>1. \A e \in Events : at'[e] =< head + 1
    BY <1>1, <1>2, <1>4 DEF BlocksInv
  <2>2. \A e \in served : at'[e] # 0
    BY <1>1, <1>3 DEF BlocksInv, ScanTypes
  <2>3. \A s \in Sources : eventCache[s].to =< head + 1
    BY <1>1, <1>4 DEF BlocksInv, ScanTypes, IsCache
  <2>4. \A c \in checkpoints : c =< head + 1
    BY <1>1, <1>4 DEF BlocksInv, ScanTypes
  <2>5. head + 1 =< MaxBlock
    BY <1>4
  <2> QED
    BY <1>1, <1>4, <2>1, <2>2, <2>3, <2>4, <2>5 DEF BlocksInv, ScanTypes, IsRefresh
<1>7. CacheInv'
  BY <1>1 DEF CacheInv
<1>8. ASSUME NEW e \in Events
      PROVE  /\ missed[e] # 0 => at'[e] # 0 /\ at'[e] = at[e]
             /\ e \notin new => at'[e] = at[e] /\ (Open(e)' <=> Open(e))
             /\ e \in new => missed[e] = 0 /\ Upward(Scanned(e.source), head + 1) = {} /\ at'[e] = head + 1
  <2>1. missed[e] # 0 => at[e] # 0
    BY <1>1 DEF MissInv
  <2>2. e \notin new => at'[e] = at[e]
    BY <1>2
  <2>3. e \notin new => (Open(e)' <=> Open(e))
    BY <2>2 DEF Open
  <2>4. \A c \in Scanned(e.source) : c \in Nat /\ c =< head
    BY <1>0, <1>1 DEF Scanned, BlocksInv, ScanTypes, IsCache
  <2>5. Upward(Scanned(e.source), head + 1) = {}
    BY <1>4, <2>4 DEF Upward
  <2>6. e \in new => at[e] = 0 /\ at'[e] = head + 1
    BY <1>2
  <2> QED
    BY <1>3, <2>1, <2>2, <2>3, <2>5, <2>6
<1>9. MissInv'
  <2> SUFFICES ASSUME NEW e \in Events
               PROVE  /\ missed[e] # 0 => /\ at'[e] # 0 /\ missed[e] + 2 =< Lookback
                                          /\ \E c \in checkpoints : c =< at'[e]
                      /\ Open(e)' => Cardinality(Upward(Scanned(e.source), at'[e])) =< missed[e]
    BY DEF MissInv, Scanned, Upward
  <2>1. missed[e] # 0 => /\ at'[e] # 0 /\ missed[e] + 2 =< Lookback /\ \E c \in checkpoints : c =< at'[e]
    BY <1>1, <1>8 DEF MissInv
  <2>2. CASE e \in new
    <3>1. Cardinality(Upward(Scanned(e.source), at'[e])) = 0
      BY <1>8, <2>2, FS_EmptySet
    <3> QED
      BY <1>4, <2>1, <3>1
  <2>3. CASE e \notin new
    <3>1. Open(e)' => Cardinality(Upward(Scanned(e.source), at[e])) =< missed[e]
      BY <1>1, <1>8, <2>3 DEF MissInv
    <3>2. at'[e] = at[e]
      BY <1>8, <2>3
    <3> QED
      BY <2>1, <3>1, <3>2
  <2> QED
    BY <2>2, <2>3
<1>10. FromInv'
  BY <1>1, <1>8 DEF FromInv
<1>11. DueInv'
  <2> SUFFICES ASSUME refresh.pc # "idle", NEW c \in refresh.due, NEW s \in Sources
               PROVE  LET e == [source |-> s, checkout |-> c] IN
                      /\ e \in served /\ at'[e] =< refresh.to
                      /\ refresh.pc \notin ToScan(s) => e \in (IF s = "success" THEN refresh.success ELSE refresh.opens)
    BY DEF DueInv
  <2> DEFINE e == [source |-> s, checkout |-> c]
  <2>1. /\ e \in served /\ at[e] =< refresh.to
        /\ refresh.pc \notin ToScan(s) => e \in (IF s = "success" THEN refresh.success ELSE refresh.opens)
    BY <1>1 DEF DueInv
  <2> HIDE DEF e
  <2>2. at'[e] = at[e]
    BY <1>1, <1>3, <2>1 DEF BlocksInv, ScanTypes
  <2> QED
    BY <2>1, <2>2 DEF e
<1>12. LedgerCountsWhatWasShown'
  BY <1>1 DEF LedgerCountsWhatWasShown
<1> QED
  BY <1>5, <1>6, <1>7, <1>9, <1>10, <1>11, <1>12 DEF ScanInv

(* The explorer shows an event that is on the chain. *)
LEMMA ShowKeepsScan ==
  ASSUME ScanInv, NEW e \in Events, Show(e) PROVE ScanInv'
<1> USE DEF Show
<1>1. ScanTypes /\ BlocksInv /\ CacheInv /\ MissInv /\ FromInv /\ DueInv /\ LedgerCountsWhatWasShown
  BY DEF ScanInv
<1>2. ScanTypes'
  BY <1>1 DEF ScanTypes
<1>3. BlocksInv'
  BY <1>1 DEF BlocksInv
<1>4. CacheInv'
  BY <1>1 DEF CacheInv
<1>5. MissInv'
  BY <1>1 DEF MissInv, Open, Scanned, Upward
<1>6. FromInv'
  BY <1>1 DEF FromInv, Open
<1>7. DueInv'
  BY <1>1 DEF DueInv
<1>8. LedgerCountsWhatWasShown'
  BY <1>1 DEF LedgerCountsWhatWasShown
<1> QED
  BY <1>2, <1>3, <1>4, <1>5, <1>6, <1>7, <1>8 DEF ScanInv

(* A refresh that failed leaves what it has cached. *)
LEMMA FailKeepsScan ==
  ASSUME ScanInv, RefreshFails PROVE ScanInv'
<1> USE DEF RefreshFails
<1>1. ScanTypes /\ BlocksInv /\ CacheInv /\ MissInv /\ FromInv /\ DueInv /\ LedgerCountsWhatWasShown
  BY DEF ScanInv
<1>0. refresh'.pc = "idle" /\ IsRefresh(refresh')
  BY DEF NoRefresh, IsRefresh, ScanPcs
<1>2. ScanTypes'
  BY <1>0, <1>1 DEF ScanTypes
<1>3. BlocksInv'
  BY <1>0, <1>1 DEF BlocksInv
<1>4. CacheInv'
  BY <1>1 DEF CacheInv
<1>5. MissInv'
  BY <1>1 DEF MissInv, Open, Scanned, Upward
<1>6. FromInv'
  BY <1>0, <1>1 DEF FromInv, ToScan
<1>7. DueInv'
  BY <1>0, <1>1 DEF DueInv
<1>8. LedgerCountsWhatWasShown'
  BY <1>1 DEF LedgerCountsWhatWasShown
<1> QED
  BY <1>2, <1>3, <1>4, <1>5, <1>6, <1>7, <1>8 DEF ScanInv

(* The ledger written counts what it should. *)
LEMMA WriteKeepsScan ==
  ASSUME ScanInv, WriteLedger PROVE ScanInv'
<1> USE DEF WriteLedger
<1>1. ScanTypes /\ BlocksInv /\ CacheInv /\ MissInv /\ FromInv /\ DueInv /\ LedgerCountsWhatWasShown
  BY DEF ScanInv
<1>0. refresh'.pc = "idle" /\ IsRefresh(refresh')
  BY DEF NoRefresh, IsRefresh, ScanPcs
<1>2. ScanTypes'
  BY <1>0, <1>1 DEF ScanTypes
<1>3. BlocksInv'
  BY <1>0, <1>1 DEF BlocksInv
<1>4. CacheInv'
  BY <1>1 DEF CacheInv
<1>5. MissInv'
  BY <1>1 DEF MissInv, Open, Scanned, Upward
<1>6. FromInv'
  BY <1>0, <1>1 DEF FromInv, ToScan
<1>7. DueInv'
  BY <1>0, <1>1 DEF DueInv
<1>8. LedgerCountsWhatWasShown'
  <2>1. refresh.due \subseteq Checkouts
    BY <1>1 DEF ScanTypes, IsRefresh
  <2>2. ASSUME NEW c \in refresh.due PROVE c \in Both(refresh.success \cup refresh.opens)
    <3>1. \A s \in Sources : [source |-> s, checkout |-> c] \in refresh.success \cup refresh.opens
      BY <1>1 DEF DueInv, ToScan
    <3> QED
      BY <2>1, <3>1 DEF Both
  <2> QED
    BY <2>2 DEF LedgerCountsWhatWasShown
<1> QED
  BY <1>2, <1>3, <1>4, <1>5, <1>6, <1>7, <1>8 DEF ScanInv

(* The checkpoint is the block the sources are cached up to. *)
LEMMA AppendKeepsScan ==
  ASSUME ScanInv, AppendBlockCheckpoint PROVE ScanInv'
<1> USE DEF AppendBlockCheckpoint
<1>0. \A e \in Events : e.source \in Sources
  BY DEF Events
<1>1. ScanTypes /\ BlocksInv /\ CacheInv /\ MissInv /\ FromInv /\ DueInv /\ LedgerCountsWhatWasShown
  BY DEF ScanInv
<1>a. IsRefresh(refresh)
  BY <1>1 DEF ScanTypes
<1>b. /\ refresh'.pc = "resolving" /\ refresh'.to = refresh.to /\ refresh'.due = refresh.due
      /\ refresh'.success = refresh.success /\ refresh'.opens = refresh.opens /\ IsRefresh(refresh')
  BY <1>a DEF IsRefresh, ScanPcs
<1>c. \A s \in Sources : eventCache[s].to = refresh.to
  BY <1>1 DEF BlocksInv, Sources
<1>d. refresh.to \in Nat /\ refresh.to # 0 /\ refresh.to =< head /\ head \in Nat
  BY <1>1 DEF BlocksInv, ScanTypes
<1>e. checkpoints' = checkpoints \cup {refresh.to}
  BY <1>c
<1>f. \A s \in Sources : Scanned(s)' = Scanned(s)
  BY <1>c, <1>e DEF Scanned
<1>2. ScanTypes'
  BY <1>1, <1>b, <1>d, <1>e DEF ScanTypes
<1>3. BlocksInv'
  BY <1>1, <1>b, <1>d, <1>e DEF BlocksInv
<1>4. CacheInv'
  BY <1>1 DEF CacheInv
<1>5. MissInv'
  <2> SUFFICES ASSUME NEW e \in Events
               PROVE  /\ missed[e] # 0 => /\ at[e] # 0 /\ missed[e] + 2 =< Lookback
                                          /\ \E c \in checkpoints' : c =< at[e]
                      /\ Open(e)' => Cardinality(Upward(Scanned(e.source)', at[e])) =< missed[e]
    BY DEF MissInv, Upward
  <2>1. missed[e] # 0 => \E c \in checkpoints' : c =< at[e]
    BY <1>1, <1>e DEF MissInv
  <2>2. Open(e)' <=> Open(e)
    BY DEF Open
  <2>3. Scanned(e.source)' = Scanned(e.source)
    BY <1>0, <1>f
  <2> QED
    BY <1>1, <2>1, <2>2, <2>3 DEF MissInv
<1>6. FromInv'
  BY <1>b DEF FromInv, ToScan
<1>7. DueInv'
  BY <1>1, <1>b DEF DueInv, ToScan
<1>8. LedgerCountsWhatWasShown'
  BY <1>1 DEF LedgerCountsWhatWasShown
<1> QED
  BY <1>2, <1>3, <1>4, <1>5, <1>6, <1>7, <1>8 DEF ScanInv

(* The refresh looks back far enough for every event missed. *)
LEMMA LooksBackFarEnough ==
  ASSUME ScanInv, NEW e \in Events, Open(e), missed[e] # 0
  PROVE  LookbackFrom(head) =< at[e]
<1> USE TicketScanAssumption
<1>1. e.source \in Sources /\ at[e] \in Nat /\ head \in Nat /\ missed[e] \in Nat
  BY DEF Events, ScanInv, ScanTypes
<1>2. PICK o \in Sources : Sources = {e.source, o}
  BY <1>1 DEF Sources
<1> DEFINE known == (checkpoints \cup {eventCache[s].to : s \in Sources}) \ {0}
           B == {b \in known : b =< head}
           old == Scanned(e.source)
           t == eventCache[o].to
<1>3. \A s \in Sources : eventCache[s].to \in Nat
  BY DEF ScanInv, ScanTypes, IsCache
<1>4. B \subseteq old \cup {t} /\ B \in SUBSET Nat
  <2>1. known \subseteq old \cup {t}
    BY <1>2 DEF Scanned
  <2>2. known \in SUBSET Nat
    BY <1>3 DEF ScanInv, ScanTypes
  <2> QED
    BY <2>1, <2>2
<1>5. IsFiniteSet(old) /\ IsFiniteSet(Upward(old, at[e])) /\ Cardinality(Upward(old, at[e])) \in Nat
  BY <1>1, ScannedFinite
<1>6. PICK c \in checkpoints : c =< at[e]
  BY DEF ScanInv, MissInv
<1>7. c \in B
  <2>1. c =< head /\ c # 0
    BY DEF ScanInv, BlocksInv
  <2> QED
    BY <2>1
<1>8. Cardinality(Upward(old, at[e])) =< missed[e] /\ missed[e] + 2 =< Lookback
  BY DEF ScanInv, MissInv
<1>9. LookbackFrom(head) = Least(Newest(Lookback, B))
  BY DEF LookbackFrom
<1> HIDE DEF B, old, t, known
<1>10. IsFiniteSet(B)
  <2>1. IsFiniteSet(old \cup {t})
    BY <1>5, FS_AddElement
  <2> QED
    BY <1>4, <2>1, FS_Subset
<1>11. Cardinality(Upward(B, at[e])) =< Cardinality(Upward(old, at[e])) + 1
  BY <1>1, <1>4, <1>5, OneMoreUpward
<1>12. Cardinality(Upward(B, at[e])) \in Nat
  <2>1. Upward(B, at[e]) \subseteq B
    BY DEF Upward
  <2> QED
    BY <1>10, <2>1, FS_Subset, FS_CardinalityType
<1>13. Cardinality(Upward(B, at[e])) < Lookback
  BY <1>1, <1>5, <1>8, <1>11, <1>12
<1> QED
  BY <1>1, <1>4, <1>6, <1>7, <1>9, <1>10, <1>13, LooksBackTo

(* A refresh begins. *)
LEMMA BeginKeepsScan ==
  ASSUME ScanInv, RefreshBegins PROVE ScanInv'
<1> USE TicketScanAssumption
<1>1. ScanTypes /\ BlocksInv /\ CacheInv /\ MissInv /\ FromInv /\ DueInv /\ LedgerCountsWhatWasShown
  BY DEF ScanInv
<1>a. LookbackFrom(head) \in Nat
  <2> DEFINE known == (checkpoints \cup {eventCache[s].to : s \in Sources}) \ {0}
             N == Newest(Lookback, {b \in known : b =< head}) \cup {MaxBlock + 1}
  <2>1. N \in SUBSET Nat /\ MaxBlock + 1 \in N
    <3>1. checkpoints \subseteq Nat /\ \A s \in Sources : eventCache[s].to \in Nat
      BY <1>1 DEF ScanTypes, IsCache
    <3>2. known \in SUBSET Nat
      BY <3>1
    <3>3. Newest(Lookback, {b \in known : b =< head}) \subseteq known
      BY DEF Newest
    <3> QED
      BY <3>2, <3>3
  <2>2. LookbackFrom(head) = Min(N)
    BY DEF LookbackFrom, Least
  <2> HIDE DEF N
  <2> QED
    BY <2>1, <2>2, MinIsLeast
<1> DEFINE from == LookbackFrom(head)
<1>b. from \in Nat /\ \A e \in Events : Open(e) /\ missed[e] # 0 => from =< at[e]
  BY <1>a, LooksBackFarEnough
<1>c. /\ refresh' = [pc |-> "success", to |-> head, from |-> from,
                     success |-> {}, opens |-> {}, due |-> Both(served)]
      /\ UNCHANGED <<head, at, served, missed, eventCache, checkpoints, ledger>>
  BY DEF RefreshBegins
<1> HIDE DEF from
<1>d. Both(served) \subseteq Checkouts
  BY DEF Both
<1>e. head \in Nat \ {0}
  BY <1>1 DEF ScanTypes
<1>f. /\ refresh'.pc = "success" /\ refresh'.to = head /\ refresh'.from = from /\ refresh'.due = Both(served)
      /\ IsRefresh(refresh')
  BY <1>b, <1>c, <1>d, <1>e DEF IsRefresh, ScanPcs
<1>2. ScanTypes'
  BY <1>1, <1>c, <1>f DEF ScanTypes
<1>3. BlocksInv'
  BY <1>1, <1>c, <1>e, <1>f DEF BlocksInv
<1>4. CacheInv'
  BY <1>1, <1>c DEF CacheInv
<1>5. MissInv'
  BY <1>1, <1>c DEF MissInv, Open, Scanned, Upward
<1>6. FromInv'
  BY <1>b, <1>c, <1>f DEF FromInv, Open
<1>7. DueInv'
  <2> SUFFICES ASSUME NEW c \in Both(served), NEW s \in Sources
               PROVE  /\ [source |-> s, checkout |-> c] \in served
                      /\ at[[source |-> s, checkout |-> c]] =< head
                      /\ "success" \in ToScan(s)
    BY <1>c, <1>f DEF DueInv
  <2>1. [source |-> s, checkout |-> c] \in served
    BY DEF Both
  <2>2. \A e \in served : at[e] =< head
    BY <1>1 DEF BlocksInv, ScanTypes
  <2>3. "success" \in ToScan(s)
    BY DEF ToScan
  <2> QED
    BY <2>1, <2>2, <2>3
<1>8. LedgerCountsWhatWasShown'
  BY <1>1, <1>c DEF LedgerCountsWhatWasShown
<1> QED
  BY <1>2, <1>3, <1>4, <1>5, <1>6, <1>7, <1>8 DEF ScanInv

(* Where the scan of a source begins: right after what is cached or        *)
(* before, and where the refresh looks back to or before.                  *)
LEMMA ScanStartsBefore ==
  ASSUME ScanInv, NEW s \in Sources, refresh.pc = s
  PROVE  /\ ScanStart(s) \in Int /\ ScanStart(s) =< eventCache[s].to + 1
         /\ eventCache[s].to # 0 => ScanStart(s) =< refresh.from
<1> USE TicketScanAssumption
<1> DEFINE c == eventCache[s].to
           u == refresh.to + 1
           v == c - Overlap + 1
           m == Min({u, v})
           o == Max({1, m})
<1>1. c \in Nat /\ u \in Nat /\ v \in Int /\ v =< c + 1 /\ refresh.from \in Nat
  <2>1. c \in Nat
    BY DEF ScanInv, ScanTypes, IsCache
  <2>2. refresh.to \in Nat /\ refresh.from \in Nat
    BY DEF ScanInv, ScanTypes, IsRefresh
  <2> QED
    BY <2>1, <2>2
<1>2. ScanStart(s) = IF c = 0 THEN 1 ELSE Min({o, refresh.from})
  BY DEF ScanStart
<1> DEFINE f == refresh.from
<1> HIDE DEF c, u, v
<1>3. m \in Int /\ m =< c + 1
  <2>0. u \in Int /\ v \in Int
    BY <1>1
  <2>1. Min({u, v}) = IF u =< v THEN u ELSE v
    BY <2>0, OfTwo, Zenon
  <2> QED
    BY <1>1, <2>1
<1> HIDE DEF m
<1>4. o \in Int /\ o =< c + 1
  <2>1. Max({1, m}) = IF 1 >= m THEN 1 ELSE m
    BY <1>3, OfTwo
  <2> QED
    BY <1>1, <1>3, <2>1
<1>5. f \in Nat /\ ScanStart(s) = IF c = 0 THEN 1 ELSE Min({o, f})
  BY <1>1, <1>2
<1>6. c = eventCache[s].to /\ f = refresh.from
  BY DEF c
<1> HIDE DEF o, f
<1>7. Min({o, f}) = IF o =< f THEN o ELSE f
  <2>1. o \in Int /\ f \in Int
    BY <1>4, <1>5
  <2> QED
    BY <2>1, OfTwo, Zenon
<1>8. ScanStart(s) \in Int /\ ScanStart(s) =< c + 1 /\ (c # 0 => ScanStart(s) =< f)
  BY <1>1, <1>4, <1>5, <1>7
<1> QED
  BY <1>6, <1>8

(* A scan reads every event that was shown up to the refresh's block,      *)
(* keeps what was shown later, and one it missed it missed once more.      *)
LEMMA ScanKeepsScan ==
  ASSUME ScanInv, Lookback >= 3, NEW s \in Sources, ScanLogSource(s) PROVE ScanInv'
<1> USE TicketScanAssumption
<1> DEFINE start == ScanStart(s)
           to == refresh.to
           fetched == {e \in served : e.source = s /\ at[e] \in start..to}
           kept == {e \in eventCache[s].events : at[e] < start /\ at[e] =< to}
           retained == {e \in eventCache[s].events : at[e] < start \/ at[e] > to}
           read == kept \cup fetched
           stored == retained \cup kept \cup fetched
<1>1. ScanTypes /\ BlocksInv /\ CacheInv /\ MissInv /\ FromInv /\ DueInv /\ LedgerCountsWhatWasShown
  BY DEF ScanInv
<1>a. /\ refresh.pc = s /\ ExplorerIsPunctual(s)
      /\ eventCache' = [eventCache EXCEPT ![s] = [to |-> Max({eventCache[s].to, to}), events |-> stored]]
      /\ missed' = [e \in Events |-> IF e.source = s /\ e \notin served /\ at[e] \in 1..to
                                     THEN missed[e] + 1 ELSE missed[e]]
      /\ refresh' = IF s = "success"
                    THEN [refresh EXCEPT !.pc = "open", !.success = read]
                    ELSE [refresh EXCEPT !.pc = "scanned", !.opens = read]
      /\ UNCHANGED <<head, at, served, checkpoints, ledger>>
  BY DEF ScanLogSource
<1>b. /\ start \in Int /\ start =< eventCache[s].to + 1
      /\ eventCache[s].to # 0 => start =< refresh.from
  BY <1>a, ScanStartsBefore
<1>c. /\ head \in Nat /\ at \in [Events -> Nat] /\ missed \in [Events -> Nat] /\ served \subseteq Events
      /\ to \in Nat /\ to # 0 /\ to =< head /\ refresh.from \in Nat
      /\ \A x \in Sources : eventCache[x].to \in Nat /\ eventCache[x].to =< to /\ eventCache[x].events \subseteq Events
  BY <1>1, <1>a DEF ScanTypes, BlocksInv, IsRefresh, IsCache, Sources
<1>d. /\ read \subseteq stored /\ stored \subseteq served /\ read \subseteq served
      /\ \A e \in stored : e.source = s
      /\ \A e \in eventCache[s].events : at[e] > to => e \in stored
  BY <1>1 DEF CacheInv
(* The main fact: what was shown is read. *)
<1>e. ASSUME NEW e \in served, e.source = s, at[e] =< to PROVE e \in read
  <2> SUFFICES ASSUME e \notin read PROVE FALSE
    OBVIOUS
  <2>1. e \in Events /\ at[e] \in Nat /\ at[e] # 0
    BY <1>1, <1>c DEF BlocksInv
  <2>2. at[e] < start
    <3>1. ~(at[e] \in start..to)
      BY <1>e
    <3> HIDE DEF start, to
    <3> QED
      BY <1>b, <1>c, <1>e, <2>1, <3>1
  <2>3. e \notin eventCache[s].events
    BY <1>e, <2>2
  <2> HIDE DEF start, to, read
  <2>4. Open(e)
    BY <1>e, <2>1, <2>3 DEF Open
  <2> DEFINE t == eventCache[s].to
             U == Upward(Scanned(s), at[e])
  <2>5. t \in Nat /\ at[e] =< t
    BY <1>b, <1>c, <2>1, <2>2
  <2>6. t \in U
    BY <2>5 DEF Upward, Scanned
  <2>7. IsFiniteSet(U) /\ Cardinality(U) \in Nat
    BY <2>1, ScannedFinite
  <2>8. Cardinality(U) =< missed[e]
    BY <1>1, <1>e, <2>1, <2>4 DEF MissInv
  <2>9. missed[e] # 0
    <3> HIDE DEF U
    <3>1. U # {}
      BY <2>6
    <3>2. Cardinality(U) # 0
      BY <2>7, <3>1, FS_EmptySet
    <3> QED
      BY <1>c, <2>1, <2>7, <2>8, <3>2
  <2>10. refresh.pc \in ToScan(s)
    BY <1>a DEF ToScan, Sources
  <2>11. refresh.from =< at[e]
    BY <1>1, <1>e, <2>1, <2>4, <2>9, <2>10 DEF FromInv
  <2> QED
    BY <1>b, <1>c, <2>1, <2>2, <2>5, <2>11
<1> HIDE DEF start, fetched, kept, retained
<1>f. /\ \A x \in Sources : x # s => eventCache'[x] = eventCache[x]
      /\ eventCache'[s].to = to /\ eventCache'[s].events = stored /\ DOMAIN eventCache' = Sources
  <2>1. Max({eventCache[s].to, to}) = to
    <3> DEFINE c == eventCache[s].to
    <3>1. c \in Int /\ to \in Int /\ c =< to
      BY <1>c
    <3> HIDE DEF c, to
    <3>2. Max({c, to}) = IF c >= to THEN c ELSE to
      BY <3>1, OfTwo, Zenon
    <3>3. Max({c, to}) = to
      BY <3>1, <3>2
    <3> QED
      BY <3>3 DEF c
  <2>2. eventCache' = [eventCache EXCEPT ![s] = [to |-> to, events |-> stored]]
    BY <1>a, <2>1
  <2>3. DOMAIN eventCache = Sources
    BY <1>1 DEF ScanTypes
  <2> HIDE DEF stored, to
  <2> QED
    BY <2>2, <2>3
<1> HIDE DEF stored
<1>g. IsRefresh(refresh)
  BY <1>1 DEF ScanTypes
<1>h. /\ refresh'.to = to /\ refresh'.from = refresh.from /\ refresh'.due = refresh.due
      /\ s = "success" => refresh'.pc = "open" /\ refresh'.success = read /\ refresh'.opens = refresh.opens
      /\ s = "open" => refresh'.pc = "scanned" /\ refresh'.opens = read /\ refresh'.success = refresh.success
      /\ IsRefresh(refresh')
  <2>1. read \in SUBSET Events
    BY <1>c, <1>d
  <2> HIDE DEF read
  <2> QED
    BY <1>a, <1>g, <2>1 DEF IsRefresh, ScanPcs, Sources
<1> HIDE DEF read
<1>i. ASSUME NEW e \in Events PROVE missed'[e] = (IF e.source = s /\ e \notin served /\ at[e] \in 1..to
                                                   THEN missed[e] + 1 ELSE missed[e])
  BY <1>a
<1>j. UNCHANGED <<head, at, served, checkpoints, ledger>>
  BY <1>a
<1>k. \A e \in Events : e.source \in Sources
  BY DEF Events
<1>2. ScanTypes'
  <2>1. missed' \in [Events -> Nat]
    BY <1>a, <1>c
  <2>2. \A x \in Sources : IsCache(eventCache'[x])
    <3>1. IsCache(eventCache'[s])
      <4>1. eventCache'[s] = [to |-> to, events |-> stored]
        <5>1. DOMAIN eventCache = Sources
          BY <1>1 DEF ScanTypes
        <5>2. eventCache'[s] = [to |-> Max({eventCache[s].to, to}), events |-> stored]
          BY <1>a, <5>1
        <5> QED
          BY <1>f, <5>2
      <4>2. stored \subseteq Events
        BY <1>c, <1>d
      <4> QED
        BY <1>c, <4>1, <4>2 DEF IsCache
    <3> QED
      BY <1>1, <1>f, <3>1 DEF ScanTypes
  <2> QED
    BY <1>1, <1>f, <1>h, <1>j, <2>1, <2>2 DEF ScanTypes
<1>3. BlocksInv'
  <2>1. \A x \in Sources : eventCache'[x].to =< head' /\ eventCache'[x].to =< refresh'.to
    BY <1>c, <1>f, <1>h, <1>j
  <2>2. refresh'.to \in 1..head' /\ \A c \in checkpoints' : c =< refresh'.to
    BY <1>1, <1>a, <1>c, <1>h, <1>j DEF BlocksInv, Sources
  <2>3. refresh'.pc \in {"open", "scanned"} => eventCache'["success"].to = refresh'.to
    <3>1. CASE s = "success"
      BY <1>f, <1>h, <3>1
    <3>2. CASE s = "open"
      BY <1>1, <1>a, <1>f, <1>h, <3>2 DEF BlocksInv, Sources
    <3> QED
      BY <3>1, <3>2 DEF Sources
  <2>4. refresh'.pc = "scanned" => eventCache'["open"].to = refresh'.to
    BY <1>f, <1>h DEF Sources
  <2> QED
    BY <1>1, <1>j, <2>1, <2>2, <2>3, <2>4 DEF BlocksInv
<1>4. CacheInv'
  BY <1>1, <1>d, <1>f, <1>j DEF CacheInv
<1>5. MissInv'
  <2> SUFFICES ASSUME NEW e \in Events
               PROVE  /\ missed'[e] # 0 => /\ at[e] # 0 /\ missed'[e] + 2 =< Lookback
                                           /\ \E c \in checkpoints : c =< at[e]
                      /\ Open(e)' => Cardinality(Upward(Scanned(e.source)', at[e])) =< missed'[e]
    BY <1>j DEF MissInv, Upward
  <2>0. at[e] \in Nat /\ missed[e] \in Nat
    BY <1>c
  <2>1. /\ missed[e] # 0 => /\ at[e] # 0 /\ missed[e] + 2 =< Lookback /\ \E c \in checkpoints : c =< at[e]
        /\ Open(e) => Cardinality(Upward(Scanned(e.source), at[e])) =< missed[e]
    BY <1>1 DEF MissInv
  <2>2. CASE e.source # s
    <3>1. missed'[e] = missed[e]
      BY <1>i, <2>2
    <3>2. eventCache'[e.source] = eventCache[e.source]
      BY <1>f, <1>k, <2>2
    <3>3. (Open(e)' <=> Open(e)) /\ Scanned(e.source)' = Scanned(e.source)
      BY <1>j, <3>2 DEF Open, Scanned
    <3> QED
      BY <2>1, <3>1, <3>3
  <2>3. CASE e.source = s /\ e \notin served /\ at[e] \in 1..to
    <3>1. missed'[e] = missed[e] + 1
      BY <1>i, <2>3
    <3>2. Open(e)
      BY <1>1, <1>k, <2>3 DEF Open, CacheInv
    <3>3. Cardinality(Sources) = 2
      <4>1. Cardinality({"success"}) = 1 /\ IsFiniteSet({"success"})
        BY FS_Singleton
      <4>2. Cardinality({"success"} \cup {"open"}) = 2
        BY <4>1, FS_AddElement
      <4>3. Sources = {"success"} \cup {"open"}
        BY DEF Sources
      <4> QED
        BY <4>2, <4>3
    <3>4. IF missed[e] = 0 THEN \E c \in checkpoints : c =< at[e] ELSE missed[e] < Lookback - 2
      BY <1>a, <2>3, <3>3 DEF ExplorerIsPunctual
    <3>5. at[e] # 0 /\ missed'[e] + 2 =< Lookback /\ \E c \in checkpoints : c =< at[e]
      BY <2>0, <2>1, <2>3, <3>1, <3>4
    <3> DEFINE B == Scanned(s)
               C == Scanned(s)'
    <3>6. C \subseteq B \cup {to}
      BY <1>f, <1>j DEF Scanned
    <3>7. IsFiniteSet(Upward(B, at[e])) /\ Cardinality(Upward(B, at[e])) \in Nat
      BY <2>0, ScannedFinite
    <3>8. Cardinality(Upward(B, at[e])) =< missed[e]
      BY <2>1, <2>3, <3>2
    <3> HIDE DEF B, C
    <3>9. Cardinality(Upward(C, at[e])) =< Cardinality(Upward(B, at[e])) + 1
      BY <2>0, <3>6, <3>7, OneMoreUpward
    <3>10. Cardinality(Upward(C, at[e])) =< missed'[e]
      <4>1. Upward(C, at[e]) \subseteq Upward(B, at[e]) \cup {to}
        BY <3>6 DEF Upward
      <4>2. IsFiniteSet(Upward(B, at[e]) \cup {to})
        BY <3>7, FS_AddElement
      <4>3. Cardinality(Upward(C, at[e])) \in Nat
        BY <4>1, <4>2, FS_Subset, FS_CardinalityType
      <4> QED
        BY <2>0, <3>1, <3>7, <3>8, <3>9, <4>3
    <3> QED
      BY <2>3, <3>5, <3>10 DEF C
  <2>4. CASE e.source = s /\ ~(e \notin served /\ at[e] \in 1..to)
    <3>1. missed'[e] = missed[e]
      BY <1>i, <2>4
    <3>2. CASE at[e] > to
      <4>1. Open(e)' => Open(e)
        BY <1>d, <1>f, <1>j, <2>4, <3>2 DEF Open
      <4>2. \A c \in Scanned(s)' : c \in Nat /\ c < at[e]
        <5>1. \A c \in checkpoints : c \in Nat /\ c =< to
          BY <1>1, <1>a DEF BlocksInv, ScanTypes, Sources
        <5> QED
          BY <1>c, <1>f, <1>j, <2>0, <3>2, <5>1 DEF Scanned
      <4>3. Upward(Scanned(s)', at[e]) = {}
        BY <2>0, <4>2 DEF Upward
      <4>4. Cardinality(Upward(Scanned(s)', at[e])) = 0
        BY <4>3, FS_EmptySet
      <4> QED
        BY <2>0, <2>1, <2>4, <3>1, <4>4
    <3>3. CASE at[e] =< to
      <4>1. ~Open(e)'
        <5>1. CASE at[e] = 0
          BY <1>j, <5>1 DEF Open
        <5>2. CASE e \in served
          BY <1>d, <1>e, <1>f, <1>j, <2>4, <3>3, <5>2 DEF Open
        <5> QED
          BY <1>c, <2>0, <2>4, <3>3, <5>1, <5>2
      <4> QED
        BY <2>1, <3>1, <4>1
    <3> QED
      BY <1>c, <2>0, <3>2, <3>3
  <2> QED
    BY <2>2, <2>3, <2>4
<1>6. FromInv'
  <2> SUFFICES ASSUME NEW e \in Events, refresh'.pc \in ToScan(e.source), Open(e)', missed'[e] # 0
               PROVE  refresh'.from =< at'[e]
    BY DEF FromInv, ToScan
  <2>1. s = "success" /\ e.source # s
    BY <1>h, <1>k DEF ToScan, Sources
  <2>2. missed'[e] = missed[e] /\ eventCache'[e.source] = eventCache[e.source]
    BY <1>f, <1>i, <1>k, <2>1
  <2>3. Open(e) /\ missed[e] # 0
    BY <1>j, <2>2 DEF Open
  <2>4. refresh.pc \in ToScan(e.source)
    BY <1>a, <2>1 DEF ToScan
  <2>5. refresh.from =< at[e]
    BY <1>1, <2>3, <2>4 DEF FromInv
  <2> QED
    BY <1>h, <1>j, <2>5
<1>7. DueInv'
  <2> SUFFICES ASSUME NEW c \in refresh.due, NEW x \in Sources
               PROVE  LET e == [source |-> x, checkout |-> c] IN
                      /\ e \in served /\ at[e] =< to
                      /\ refresh'.pc \notin ToScan(x) =>
                           e \in (IF x = "success" THEN refresh'.success ELSE refresh'.opens)
    BY <1>h, <1>j DEF DueInv, ToScan
  <2> DEFINE e == [source |-> x, checkout |-> c]
  <2>1. /\ e \in served /\ at[e] =< to
        /\ refresh.pc \notin ToScan(x) => e \in (IF x = "success" THEN refresh.success ELSE refresh.opens)
    BY <1>1, <1>a DEF DueInv, Sources
  <2>2. e.source = x
    OBVIOUS
  <2> HIDE DEF e
  <2>3. CASE x = s
    <3>1. e \in read
      BY <1>e, <2>1, <2>2, <2>3
    <3> QED
      BY <1>h, <2>1, <2>3, <3>1 DEF Sources, e
  <2>4. CASE x # s
    <3>1. refresh'.pc \notin ToScan(x) => s = "open" /\ x = "success"
      BY <1>h, <2>4 DEF ToScan, Sources
    <3>2. s = "open" /\ x = "success" => refresh.pc \notin ToScan(x) /\ refresh'.success = refresh.success
      BY <1>a, <1>h DEF ToScan
    <3> QED
      BY <2>1, <3>1, <3>2 DEF e
  <2> QED
    BY <2>3, <2>4
<1>8. LedgerCountsWhatWasShown'
  BY <1>1, <1>j DEF LedgerCountsWhatWasShown
<1> QED
  BY <1>2, <1>3, <1>4, <1>5, <1>6, <1>7, <1>8 DEF ScanInv

(* A ledger counts every buyback that was shown in full when its refresh   *)
(* began, for a look-back of three checkpoints or more (it is twelve): the *)
(* explorer may then miss an event in one scan or more. Events may be      *)
(* shown late, and refreshes killed between the two sources.               *)
THEOREM WhatWasShownIsCounted ==
  ASSUME Lookback >= 3
  PROVE  ScanSpec => []LedgerCountsWhatWasShown
<1>1. ScanInit => ScanInv
  BY ScanBegins
<1>2. ScanInv /\ [ScanSteps]_scanVars => ScanInv'
  <2> SUFFICES ASSUME ScanInv, [ScanSteps]_scanVars PROVE ScanInv'
    OBVIOUS
  <2>1. ASSUME NEW new \in SUBSET Events, NewBlock(new) PROVE ScanInv'
    BY <2>1, NewBlockKeepsScan
  <2>2. ASSUME NEW e \in Events, Show(e) PROVE ScanInv'
    BY <2>2, ShowKeepsScan
  <2>3. CASE RefreshBegins
    BY <2>3, BeginKeepsScan
  <2>4. ASSUME NEW s \in Sources, ScanLogSource(s) PROVE ScanInv'
    BY <2>4, ScanKeepsScan
  <2>5. CASE AppendBlockCheckpoint
    BY <2>5, AppendKeepsScan
  <2>6. CASE WriteLedger
    BY <2>6, WriteKeepsScan
  <2>7. CASE RefreshFails
    BY <2>7, FailKeepsScan
  <2>8. CASE UNCHANGED scanVars
    BY <2>8 DEF scanVars, ScanInv, ScanTypes, BlocksInv, CacheInv, MissInv, FromInv, DueInv,
                LedgerCountsWhatWasShown, Open, Scanned, Upward
  <2> QED
    BY <2>1, <2>2, <2>3, <2>4, <2>5, <2>6, <2>7, <2>8 DEF ScanSteps
<1>3. ScanInv => LedgerCountsWhatWasShown
  BY DEF ScanInv
<1> QED
  BY <1>1, <1>2, <1>3, PTL DEF ScanSpec

=============================================================================
