------------------------------ MODULE VoteGate ------------------------------
(***************************************************************************)
(* What a wallet must show before it may vote: that its X account follows  *)
(* the campaign's (the X follow gate), and that the account is eligible at *)
(* Firefly, under a Firefly UID no other voter has.  Both are asked of a   *)
(* service while other requests go on, and written when the answer comes.  *)
(***************************************************************************)
EXTENDS Accounts

CONSTANT Uids

ASSUME VoteGateAssumption == None \notin Uids

VARIABLES
  follow,  \* x-follow-verifications.json: the record of each wallet
  checks   \* x-account-eligibility.json: the record of each wallet and X account

gateVars == <<follow, checks>>

GateInit ==
  /\ follow = [w \in Wallets |-> [status |-> None, x |-> None]]
  /\ checks = [k \in Wallets \X XIds |-> [eligible |-> FALSE, uid |-> None]]

(* statusForSession: the X account a session goes by, None when the wallet *)
(* has none on file or another one.                                        *)
XOf(s) ==
  LET w == sessions[s].wallet
      x == IF TokenOf(s) # NoToken THEN TokenOf(s).x
           ELSE IF follow[w].status = "verified" THEN follow[w].x ELSE None
  IN  IF x = profile[w] THEN x ELSE None

FollowPassed(s) ==
  Live(s) /\ XOf(s) # None /\ follow[sessions[s].wallet].status = "verified"

-----------------------------------------------------------------------------
(* POST /api/auth/x-follow/verify *)

VerifyXFollow(c, b) ==
  LET s == cookie[b]
  IN  /\ Free(c) /\ Live(s)
      /\ ~ FollowPassed(s) /\ TokenOf(s) # NoToken /\ XOf(s) # None
      /\ call' = [call EXCEPT ![c] =
           [pc |-> IF tokens[s].fresh THEN "follow" ELSE "refresh",
            session |-> s, token |-> tokens[s], asked |-> FALSE]]
      /\ UNCHANGED <<challenges, sessions, tokens, profile, queue, cookie, state, gateVars>>

(* A new token from X is saved for the session of the request. *)
RefreshXToken(c) ==
  /\ At(c, "refresh")
  /\ sessions' = sessions
  /\ SaveToken(call[c].session, [call[c].token EXCEPT !.fresh = TRUE])
  /\ call' = [call EXCEPT ![c].pc = "follow"]
  /\ UNCHANGED <<challenges, profile, queue, cookie, state, gateVars>>

(* X rejects the token: the one now on file is refreshed, once. *)
TokenRejected(c) ==
  /\ At(c, "follow") /\ ~ call[c].asked /\ TokenOf(call[c].session) # NoToken
  /\ call' = [call EXCEPT ![c].pc = "refresh", ![c].asked = TRUE,
                         ![c].token = tokens[call[c].session]]
  /\ UNCHANGED <<challenges, sessions, tokens, profile, queue, cookie, state, gateVars>>

(* saveVerificationResult and saveVerificationFailure: the record of the   *)
(* wallet is replaced, whatever was written to it meanwhile; without a     *)
(* connected X account nothing is.                                         *)
SaveFollow(c, status) ==
  LET s == call[c].session
      x == TokenOf(s).x
  IN  /\ follow' = IF x = None THEN follow
                   ELSE [follow EXCEPT ![sessions[s].wallet] = [status |-> status, x |-> x]]
      /\ End(c)
      /\ UNCHANGED <<challenges, sessions, tokens, profile, queue, cookie, state, checks>>

FollowAnswered(c) ==
  /\ At(c, "follow")
  /\ \E status \in {"verified", "not_following", "error"} : SaveFollow(c, status)

RefreshXTokenFails(c) ==
  /\ At(c, "refresh")
  /\ IF call[c].asked THEN SaveFollow(c, "error")
     ELSE End(c) /\ UNCHANGED <<challenges, sessions, tokens, profile, queue, cookie, state, gateVars>>

-----------------------------------------------------------------------------
(* POST /api/auth/x-account-eligibility/verify, by X account or by UID.    *)

Claimed(key, uid) ==
  \E k \in DOMAIN checks \ {key} :
    /\ uid # None /\ checks[k].uid # None
    /\ (checks[k].uid = uid \/ k[1] = key[1])

VerifyEligibility(c, b) ==
  LET s == cookie[b]
      key == <<sessions[s].wallet, XOf(s)>>
  IN  /\ Free(c) /\ FollowPassed(s)
      /\ call' = [call EXCEPT ![c] =
           [pc |-> "eligible", key |-> key, claimed |-> {uid \in Uids : Claimed(key, uid)}]]
      /\ UNCHANGED <<challenges, sessions, tokens, profile, queue, cookie, state, gateVars>>

(* Mutant of UidConflict: the records are read when the request comes in. *)
UidConflictBefore(c, uid) == uid \in call[c].claimed

(* findFireflyUidConflict, on the records as they are when the answer comes *)
UidConflict(c, uid) == Claimed(call[c].key, uid)

(* saveEligibilityResult.  A conflict, like an error, leaves the record as *)
(* it is but for the error's text.                                         *)
EligibilityAnswered(c, eligible, uid) ==
  /\ At(c, "eligible")
  /\ checks' = IF UidConflict(c, uid) THEN checks
               ELSE [checks EXCEPT ![call[c].key] = [eligible |-> eligible, uid |-> uid]]
  /\ End(c)
  /\ UNCHANGED <<challenges, sessions, tokens, profile, queue, cookie, state, follow>>

EligibilityFails(c) ==
  /\ At(c, "eligible")
  /\ End(c)
  /\ UNCHANGED <<challenges, sessions, tokens, profile, queue, cookie, state, gateVars>>

GateSteps ==
  \E c \in Calls :
    \/ \E b \in Browsers : VerifyXFollow(c, b) \/ VerifyEligibility(c, b)
    \/ RefreshXToken(c) \/ TokenRejected(c) \/ FollowAnswered(c) \/ RefreshXTokenFails(c)
    \/ \E eligible \in BOOLEAN, uid \in Uids \cup {None} : EligibilityAnswered(c, eligible, uid)
    \/ EligibilityFails(c)

GateNext == (AccountSteps /\ UNCHANGED gateVars) \/ GateSteps

GateSpec == AccountsInit /\ GateInit /\ [][GateNext]_<<accountVars, gateVars>>

-----------------------------------------------------------------------------

(* A Firefly UID never stands for two voters and a wallet never has two,   *)
(* however many requests of however many browsers are answered in whatever *)
(* order.                                                                  *)
OneUidPerVoter ==
  \A k, l \in DOMAIN checks :
    k # l /\ checks[k].uid # None /\ checks[l].uid # None =>
      checks[k].uid # checks[l].uid /\ k[1] # l[1]

=============================================================================
