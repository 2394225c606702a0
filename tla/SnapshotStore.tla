--------------------------- MODULE SnapshotStore ---------------------------
(***************************************************************************)
(* What the xDS controller promises its callers, without the pipeline that *)
(* delivers it.  A store has a current state (the cluster configuration    *)
(* that was last asked for and the endpoints that are present) and a       *)
(* served state, the one Envoy is given.  A call changes the current state *)
(* at once and later publishes.  What it publishes is a state the store    *)
(* really was in, as a whole, at some moment since the call's own change:  *)
(* configuration and endpoints are never mixed from two moments, and a     *)
(* state older than the call is never published by it.                     *)
(*                                                                         *)
(* It is NOT promised that what is served is the latest state: a slow call *)
(* may publish after a faster one that saw more.                           *)
(***************************************************************************)
CONSTANTS
  Callers,
  Ports,
  ConfigCalls,     \* the configurations a caller may ask for
  InitialCall,     \* the configuration before anyone has asked
  Nothing          \* served before the first publication

VARIABLES
  current,         \* the state the calls have built
  served,          \* the state Envoy is given
  recent           \* recent[c]: the states since c's change, {} if c is idle

storeVars == <<current, served, recent>>

States == [config : ConfigCalls \cup {InitialCall}, endpoints : SUBSET Ports]

StoreInit ==
  /\ current = [config |-> InitialCall, endpoints |-> {}]
  /\ served  = Nothing
  /\ recent  = [c \in Callers |-> {}]

\* Every call in progress has now seen state s as well; c has seen only s.
Witness(c, s) ==
  [d \in Callers |-> IF d = c THEN {s}
                     ELSE IF recent[d] = {} THEN {}
                     ELSE recent[d] \cup {s}]

\* A call changes the endpoints or the configuration, or neither.
Change(c) ==
  /\ recent[c] = {}
  /\ \E s \in States :
       /\ s.config = current.config \/ s.endpoints = current.endpoints
       /\ current' = s
       /\ recent' = Witness(c, s)
  /\ UNCHANGED served

\* The call makes one of the states it has seen the served one and returns.
Publish(c) ==
  /\ recent[c] # {}
  /\ served' \in recent[c]
  /\ recent' = [recent EXCEPT ![c] = {}]
  /\ UNCHANGED current

StoreNext == \E c \in Callers : Change(c) \/ Publish(c)

StoreSpec == StoreInit /\ [][StoreNext]_storeVars

=============================================================================
