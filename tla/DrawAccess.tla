----------------------------- MODULE DrawAccess -----------------------------
(***************************************************************************)
(* Who may act on the lucky-draw contract: the owner, the nominated owner, *)
(* the draw operator and the invited admins, and the settings only the     *)
(* owner may write.  A call that reverts leaves no trace, so it is no step.*)
(***************************************************************************)
EXTENDS Integers

CONSTANTS
  Accounts,       \* the accounts that call the contract
  Deployer,       \* the account that deployed it
  NoAccount,      \* address(0)
  VrfConfigs,     \* the VRF configurations an owner may try to set
  DefaultCounts   \* the default prize slot counts an owner may try to set

ASSUME AccessAssumption ==
  /\ Deployer \in Accounts
  /\ NoAccount \notin Accounts

VARIABLES
  owner,          \* s_owner
  pendingOwner,   \* s_pendingOwner
  drawOperator,   \* drawOperator
  admins,         \* the accounts for which s_admins is true
  vrfConfig,      \* vrfConfig
  defaultPrizeSlotCount,
  nominator       \* history: who made the standing nomination

accessVars == <<owner, pendingOwner, drawOperator, admins, vrfConfig,
                defaultPrizeSlotCount, nominator>>

MAX_PRIZE_SLOTS == 256

ValidPrizeSlotCount(n) == n \in 1..MAX_PRIZE_SLOTS

(* _setVrfConfig accepts a configuration only when each field the coordinator
   needs is set. *)
UsableVrfConfig(c) == c.keyHash # 0 /\ c.subscriptionId # 0 /\ c.callbackGasLimit # 0

AccessTypeOK ==
  /\ owner \in Accounts
  /\ pendingOwner \in Accounts \cup {NoAccount}
  /\ drawOperator \in Accounts
  /\ admins \subseteq Accounts
  /\ vrfConfig \in {c \in VrfConfigs : UsableVrfConfig(c)}
  /\ ValidPrizeSlotCount(defaultPrizeSlotCount)
  /\ nominator \in Accounts \cup {NoAccount}

AccessInit ==
  /\ owner = Deployer
  /\ pendingOwner = NoAccount
  /\ drawOperator = Deployer
  /\ admins = {}
  /\ vrfConfig \in {c \in VrfConfigs : UsableVrfConfig(c)}
  /\ defaultPrizeSlotCount \in {n \in DefaultCounts : ValidPrizeSlotCount(n)}
  /\ nominator = NoAccount

IsDrawAdmin(a) == a = owner \/ a = drawOperator \/ a \in admins

TransferOwnership(a, newOwner) ==
  /\ a = owner
  /\ newOwner # NoAccount
  /\ pendingOwner' = newOwner
  /\ nominator' = a
  /\ UNCHANGED <<owner, drawOperator, admins, vrfConfig, defaultPrizeSlotCount>>

(* Mutant of AcceptOwnership: the nomination outlives the hand-over. *)
AcceptOwnershipRepeatable(a) ==
  /\ a = pendingOwner
  /\ owner' = a
  /\ UNCHANGED <<pendingOwner, drawOperator, admins, vrfConfig, defaultPrizeSlotCount,
                 nominator>>

AcceptOwnership(a) ==
  /\ a = pendingOwner
  /\ owner' = a
  /\ pendingOwner' = NoAccount
  /\ UNCHANGED <<drawOperator, admins, vrfConfig, defaultPrizeSlotCount, nominator>>

SetDrawOperator(a, operator) ==
  /\ a = owner
  /\ operator # NoAccount
  /\ drawOperator' = operator
  /\ UNCHANGED <<owner, pendingOwner, admins, vrfConfig, defaultPrizeSlotCount, nominator>>

SetAdmin(a, admin, allowed) ==
  /\ a = owner
  /\ admin # NoAccount
  /\ admins' = IF allowed THEN admins \cup {admin} ELSE admins \ {admin}
  /\ UNCHANGED <<owner, pendingOwner, drawOperator, vrfConfig, defaultPrizeSlotCount, nominator>>

SetVrfConfig(a, c) ==
  /\ a = owner
  /\ UsableVrfConfig(c)
  /\ vrfConfig' = c
  /\ UNCHANGED <<owner, pendingOwner, drawOperator, admins, defaultPrizeSlotCount, nominator>>

SetDefaultPrizeSlotCount(a, n) ==
  /\ a = owner
  /\ ValidPrizeSlotCount(n)
  /\ defaultPrizeSlotCount' = n
  /\ UNCHANGED <<owner, pendingOwner, drawOperator, admins, vrfConfig, nominator>>

AccessNext ==
  \E a \in Accounts :
    \/ \E b \in Accounts \cup {NoAccount} : TransferOwnership(a, b)
    \/ AcceptOwnership(a)
    \/ \E b \in Accounts \cup {NoAccount} : SetDrawOperator(a, b)
    \/ \E b \in Accounts \cup {NoAccount}, allowed \in BOOLEAN : SetAdmin(a, b, allowed)
    \/ \E c \in VrfConfigs : SetVrfConfig(a, c)
    \/ \E n \in DefaultCounts : SetDefaultPrizeSlotCount(a, n)

(* Whoever may accept ownership was nominated by the present owner: an invited
   admin or operator cannot put itself in line, and a nomination made by a
   former owner does not outlive the hand-over that followed it. *)
NominationIsCurrent == pendingOwner # NoAccount => nominator = owner
=============================================================================
