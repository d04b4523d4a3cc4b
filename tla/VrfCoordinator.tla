--------------------------- MODULE VrfCoordinator ---------------------------
(***************************************************************************)
(* The randomness oracle the contract calls.  It numbers the requests from *)
(* 1 and calls back later, in any order, and may call back again for a     *)
(* request it has already answered; only the consumer decides whether a    *)
(* callback is accepted.  `answered` records the accepted ones.            *)
(***************************************************************************)
EXTENDS Integers

CONSTANTS
  MaxRequests,    \* bound: how many random words are requested in a behaviour
  Words           \* the random words it may deliver

ASSUME CoordinatorAssumption ==
  /\ MaxRequests \in Nat
  /\ Words \subseteq Nat

VARIABLES
  nextRequestId,  \* the id the next request gets
  answered        \* the request ids whose callback the consumer accepted

coordinatorVars == <<nextRequestId, answered>>

RequestIds == 1..MaxRequests

CoordinatorTypeOK ==
  /\ nextRequestId \in 1..(MaxRequests + 1)
  /\ answered \subseteq 1..(nextRequestId - 1)

CoordinatorInit ==
  /\ nextRequestId = 1
  /\ answered = {}

(* requestRandomWords: the caller stores nextRequestId as its request id. *)
RequestRandomWords ==
  /\ nextRequestId <= MaxRequests
  /\ nextRequestId' = nextRequestId + 1
  /\ UNCHANGED answered

(* A callback for request id that its consumer accepts. *)
Callback(id) ==
  /\ id \in 1..(nextRequestId - 1)
  /\ answered' = answered \cup {id}
  /\ UNCHANGED nextRequestId
=============================================================================
