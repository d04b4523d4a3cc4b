------------------------------ MODULE MCVoters ------------------------------
(* A view beside those of MCVotesApi: the cache of the followers of         *)
(* the campaign's X account.                                                *)
EXTENDS MCVotesApi, FollowerSync

votersVars == <<mcVars, followerVars>>

VotersInit ==
  /\ FollowerInit
  /\ MCInit \/ (view = "followers" /\ Init /\ stage = PoolOpen /\ ledger = Rich)

VotersNext ==
  \/ view # "followers" /\ MCNext /\ UNCHANGED followerVars
  \/ view = "followers" /\ FollowerSteps /\ UNCHANGED mcVars

(* Handlers differ in nothing, nor do the runs of the follower sync. *)
AnyRunner == SymHandlers \cup Permutations(Runners)

VotersSpec == VotersInit /\ [][VotersNext]_votersVars
=============================================================================
