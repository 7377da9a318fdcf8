---------------------------- MODULE Subscriptions ----------------------------
(***************************************************************************)
(* What AgentServer promises of its subscriptions, whichever thread ends   *)
(* them: a subscription is entered in the store under an id no other one   *)
(* has, leaves it once, and its object is deleted only after that.         *)
(***************************************************************************)
EXTENDS IdManager

CONSTANTS
  Stream,   \* subscriptions
  None      \* no subscription

VARIABLES
  store,    \* id -> subscription
  life,     \* how far a subscription is
  ident     \* its id

subVars == <<store, life, ident>>

SubInit ==
  /\ store = [i \in Ids |-> None]
  /\ life = [s \in Stream |-> "none"]
  /\ ident = [s \in Stream |-> NullId]

Enter(s, i) ==
  /\ life[s] = "none" /\ life' = [life EXCEPT ![s] = "stored"]
  /\ store[i] = None /\ store' = [store EXCEPT ![i] = s]
  /\ ident' = [ident EXCEPT ![s] = i]

Erase(s) ==
  /\ life[s] = "stored" /\ life' = [life EXCEPT ![s] = "erased"]
  /\ store' = [store EXCEPT ![ident[s]] = None]
  /\ UNCHANGED ident

Delete(s) ==
  /\ life[s] = "erased" /\ life' = [life EXCEPT ![s] = "deleted"]
  /\ UNCHANGED <<store, ident>>

SubNext == \E s \in Stream : Erase(s) \/ Delete(s) \/ \E i \in Ids : Enter(s, i)

SubSpec == SubInit /\ [][SubNext]_subVars
=============================================================================
