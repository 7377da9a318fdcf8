-------------------------- MODULE AgentServerProofs --------------------------
(***************************************************************************)
(* The life of a subscription, for any number of streams, cancelling       *)
(* threads and ids.  TypeCorrect and CancellationSticks hold for every     *)
(* client; the rest needs clients that cancel only what has begun to       *)
(* stream (EarlyCancel = FALSE): the run server_early shows what the       *)
(* others can do.                                                          *)
(***************************************************************************)
EXTENDS AgentServer, IdManagerProofs

(* The cleanup of the subscription is complete, or past the given phases.  *)
Over(s) == pc[s] \in {"wait", "ending", "delete", "done"} /\ ~active[s]
Past(s, P) == Over(s) \/ (victim = s /\ phase \in P)

(* Who holds the mutex, and what it may be doing.                          *)
LockInv ==
  /\ phase = "none" <=> victim = None
  /\ mutex = None => victim = None
  /\ mutex \in Stream => victim \in {mutex, None}
  /\ mutex \in Canceller => victim \in Stream /\ pc[victim] \in {"wait", "ending"}
  /\ \A s \in Stream :
       /\ pc[s] = "cleanup" <=> mutex = s /\ victim = s
       /\ pc[s] = "delete" <=> mutex = s /\ victim = None

(* A subscription is active from SetActive until its cleanup turns it off. *)
ActiveInv ==
  \A s \in Stream :
    /\ pc[s] \in {"idle", "delete", "done"} => ~active[s]
    /\ victim = s => active[s]
    /\ pc[s] = "ending" => Ended(s) \/ ~active[s]

(* What has been given to a stream and what its cleanup has taken back,    *)
(* the store excepted.                                                     *)
OwnInv ==
  \A s \in Stream :
    /\ pc[s] = "idle" => subId[s] = NullId
    /\ pc[s] \notin {"idle", "done"} => subId[s] \in Ids
    /\ pc[s] \notin {"idle", "allocated", "stored"} => reply[s] = subId[s]
    /\ s \in bus <=> /\ pc[s] \in {"enabled", "wait", "ending", "cleanup"}
                     /\ ~Past(s, {"system", "store", "id", "off"})
    /\ removals[s] = IF subId[s] # NullId /\ Past(s, {"store", "id", "off"})
                     THEN 1 ELSE 0
    /\ s \in cancelled => Over(s)

(* The store has a subscription under its id, and under no other, from     *)
(* createSubscription until the cleanup erases it.                         *)
InStore(s) ==
  pc[s] \notin {"idle", "allocated"} /\ ~Past(s, {"id", "off"})

StoredInv ==
  \A i \in Ids, s \in Stream :
    store[i] = s <=> subId[s] = i /\ InStore(s)

(* The ids in use are those of the streams that have one and have not      *)
(* given it back; no two of them share one.                                *)
HoldsId(s) == subId[s] # NullId /\ ~Past(s, {"off"})

IdsInv ==
  /\ \A i \in used : \E s \in Stream : HoldsId(s) /\ subId[s] = i
  /\ \A s \in Stream : HoldsId(s) => subId[s] \in used
  /\ \A s, t \in Stream :
       HoldsId(s) /\ HoldsId(t) /\ subId[s] = subId[t] => s = t

(* The inductive invariant.                                                *)
IInv == TypeOK /\ LockInv /\ ActiveInv /\ OwnInv /\ StoredInv /\ IdsInv

-----------------------------------------------------------------------------
(* Types.                                                                  *)

(* The null id is none of the ids, and None is nobody's name.              *)
LEMMA Distinct ==
  /\ NullId \notin Ids
  /\ None \notin Stream /\ None \notin Canceller
  /\ None \notin Ids /\ None # NullId
  /\ \A s \in Stream : s \notin Canceller
<1>1. NullId \notin Ids
  BY IdAssumption DEF Ids, NullId
<1> QED
  BY <1>1, ServerAssumption

(* allocate adds the id it returns, and no other.                          *)
LEMMA AllocateAdds ==
  ASSUME used \in SUBSET Ids, NextId(used) # NullId
  PROVE  /\ NextId(used) \in Ids \ used
         /\ Allocate(used) = used \cup {NextId(used)}
<1>1. NextId(used) \in Ids /\ NextId(used) \notin used
  BY NextIdIsFree
<1> QED
  BY <1>1 DEF Allocate

(* Every step keeps the types, early cancellations included.  The cleanup  *)
(* steps need a victim, which the mutex's holder always has.               *)
VictimInv == phase # "none" => victim \in Stream

(* One step, of any action.                                                *)
LEMMA TypeStep == TypeOK /\ VictimInv /\ [Next]_vars => TypeOK' /\ VictimInv'
<1> SUFFICES ASSUME TypeOK, VictimInv, [Next]_vars
             PROVE  TypeOK' /\ VictimInv'
  OBVIOUS
<1> USE DEF PC
<1>1. CASE UNCHANGED vars
  BY <1>1 DEF vars, TypeOK, VictimInv
<1>2. ASSUME NEW s \in Stream, Refuse(s) PROVE TypeOK' /\ VictimInv'
  BY <1>2 DEF Refuse, Goto, cleanupVars, TypeOK, VictimInv
<1>3. ASSUME NEW s \in Stream, Step(s) PROVE TypeOK' /\ VictimInv'
  <2>1. CASE Allocated(s)
    <3>1. used \in SUBSET Ids /\ NextId(used) # NullId
      BY <2>1 DEF Allocated, TypeOK
    <3>2. used' \in SUBSET Ids /\ NextId(used) \in Ids
      BY <2>1, <3>1, AllocateAdds DEF Allocated
    <3> QED
      BY <2>1, <3>2 DEF Allocated, Goto, cleanupVars, TypeOK, VictimInv
  <2>2. CASE CreateSubscription(s)
    BY <2>2 DEF CreateSubscription, Goto, cleanupVars, TypeOK, VictimInv
  <2>3. CASE SendMetaData(s)
    BY <2>3 DEF SendMetaData, Goto, cleanupVars, TypeOK, VictimInv
  <2>4. CASE Enable(s)
    BY <2>4 DEF Enable, Goto, cleanupVars, TypeOK, VictimInv
  <2>5. CASE SetActive(s)
    BY <2>5 DEF SetActive, Goto, cleanupVars, TypeOK, VictimInv
  <2>6. CASE LeaveWait(s)
    BY <2>6 DEF LeaveWait, Goto, cleanupVars, TypeOK, VictimInv
  <2>7. CASE LockStream(s)
    BY <2>7 DEF LockStream, Goto, TypeOK, VictimInv
  <2>8. CASE DeleteObjects(s)
    BY <2>8 DEF DeleteObjects, Goto, TypeOK, VictimInv
  <2> QED
    BY <1>3, <2>1, <2>2, <2>3, <2>4, <2>5, <2>6, <2>7, <2>8 DEF Step
<1>4. ASSUME NEW s \in Stream, LimitReached(s) PROVE TypeOK' /\ VictimInv'
  BY <1>4 DEF LimitReached, cleanupVars, TypeOK, VictimInv
<1>5. ASSUME NEW s \in Stream, ClientDisconnects(s) PROVE TypeOK' /\ VictimInv'
  BY <1>5 DEF ClientDisconnects, cleanupVars, TypeOK, VictimInv
<1>6. ASSUME NEW c \in Canceller, NEW id \in Ids, CancelUnknown(c, id)
      PROVE  TypeOK' /\ VictimInv'
  BY <1>6 DEF CancelUnknown, vars, TypeOK, VictimInv
<1>7. ASSUME NEW c \in Canceller, NEW id \in Ids, CancelFound(c, id)
      PROVE  TypeOK' /\ VictimInv'
  BY <1>7 DEF CancelFound, Beginning, TypeOK, VictimInv
<1>8. CASE Cleanup
  <2>1. CASE CleanupBus
    BY <2>1 DEF CleanupBus, Advance, CodeOrder, TypeOK, VictimInv
  <2>2. CASE CleanupSystem
    BY <2>2 DEF CleanupSystem, Advance, CodeOrder, TypeOK, VictimInv
  <2>3. CASE CleanupStore
    BY <2>3 DEF CleanupStore, Advance, CodeOrder, TypeOK, VictimInv
  <2>4. CASE CleanupId
    BY <2>4 DEF CleanupId, Advance, CodeOrder, Deallocate, TypeOK, VictimInv
  <2>5. CASE CleanupOff
    BY <2>5 DEF CleanupOff, TurnOff, Goto, TypeOK, VictimInv
  <2> QED
    BY <1>8, <2>1, <2>2, <2>3, <2>4, <2>5 DEF Cleanup
<1> QED
  BY <1>1, <1>2, <1>3, <1>4, <1>5, <1>6, <1>7, <1>8 DEF Next

(* The server's variables keep their types for every client.               *)
THEOREM TypeCorrect == Spec => []TypeOK
<1>1. Init => TypeOK /\ VictimInv
  BY DEF Init, TypeOK, VictimInv, PC
<1> QED
  BY <1>1, TypeStep, PTL DEF Spec

-----------------------------------------------------------------------------
(* The inductive invariant: one lemma per action.                          *)

(* A refused stream has had nothing and leaves nothing.                    *)
LEMMA RefuseInv ==
  ASSUME IInv, TypeOK', NEW s \in Stream, Refuse(s)
  PROVE  IInv'
<1> USE Distinct DEF IInv, TypeOK, Refuse, Goto, cleanupVars
<1>1. LockInv'
  BY DEF LockInv
<1>2. ActiveInv'
  BY DEF ActiveInv, Ended
<1>3. OwnInv'
  BY DEF OwnInv, Past, Over
<1>4. StoredInv'
  BY DEF StoredInv, ActiveInv, InStore, Past, Over
<1>5. IdsInv'
  BY DEF IdsInv, HoldsId, OwnInv, Past, Over
<1> QED
  BY <1>1, <1>2, <1>3, <1>4, <1>5

(* The new id is free, so nobody else holds it.                            *)
LEMMA AllocatedInv ==
  ASSUME IInv, TypeOK', NEW s \in Stream, Allocated(s)
  PROVE  IInv'
<1> USE Distinct DEF IInv, TypeOK, Allocated, Goto, cleanupVars
<1>1. LockInv'
  BY DEF LockInv
<1>2. ActiveInv'
  BY DEF ActiveInv, Ended
<1>3. OwnInv'
  BY DEF OwnInv, ActiveInv, Past, Over
<1>4. StoredInv'
  BY DEF StoredInv, InStore, Past, Over
<1>5. IdsInv'
  <2>1. NextId(used) \in Ids \ used /\ used' = used \cup {NextId(used)}
    BY AllocateAdds
  <2> QED
    BY <2>1 DEF IdsInv, HoldsId, OwnInv, ActiveInv, Past, Over
<1> QED
  BY <1>1, <1>2, <1>3, <1>4, <1>5

(* The store has nobody under the new subscription's id.                   *)
LEMMA CreateSubscriptionInv ==
  ASSUME IInv, TypeOK', NEW s \in Stream, CreateSubscription(s)
  PROVE  IInv'
<1> USE Distinct DEF IInv, TypeOK, CreateSubscription, Goto, cleanupVars
<1>1. LockInv'
  BY DEF LockInv
<1>2. ActiveInv'
  BY DEF ActiveInv, LockInv, Ended
<1>3. OwnInv'
  BY DEF OwnInv, Past, Over
<1>4. StoredInv'
  BY DEF StoredInv, IdsInv, HoldsId, LockInv, InStore, Past, Over
<1>5. IdsInv'
  BY DEF IdsInv, HoldsId, Past, Over
<1> QED
  BY <1>1, <1>2, <1>3, <1>4, <1>5

(* The metadata carry the subscription's id.                               *)
LEMMA SendMetaDataInv ==
  ASSUME IInv, TypeOK', NEW s \in Stream, SendMetaData(s)
  PROVE  IInv'
<1> USE Distinct DEF IInv, TypeOK, SendMetaData, Goto, cleanupVars
<1>1. LockInv'
  BY DEF LockInv
<1>2. ActiveInv'
  BY DEF ActiveInv, Ended
<1>3. OwnInv'
  BY DEF OwnInv, Past, Over
<1>4. StoredInv'
  BY DEF StoredInv, InStore, Past, Over
<1>5. IdsInv'
  BY DEF IdsInv, HoldsId, Past, Over
<1> QED
  BY <1>1, <1>2, <1>3, <1>4, <1>5

(* The loop thread starts after the metadata were sent.                    *)
LEMMA EnableInv ==
  ASSUME IInv, TypeOK', NEW s \in Stream, Enable(s)
  PROVE  IInv'
<1> USE Distinct DEF IInv, TypeOK, Enable, Goto, cleanupVars
<1>1. LockInv'
  BY DEF LockInv
<1>2. ActiveInv'
  BY DEF ActiveInv, Ended
<1>3. OwnInv'
  BY DEF OwnInv, LockInv, Past, Over
<1>4. StoredInv'
  BY DEF StoredInv, InStore, Past, Over
<1>5. IdsInv'
  BY DEF IdsInv, HoldsId, Past, Over
<1> QED
  BY <1>1, <1>2, <1>3, <1>4, <1>5

(* Nobody cleans up a subscription that is not yet active.                 *)
LEMMA SetActiveInv ==
  ASSUME IInv, TypeOK', NEW s \in Stream, SetActive(s)
  PROVE  IInv'
<1> USE Distinct DEF IInv, TypeOK, SetActive, Goto, cleanupVars
<1>1. LockInv'
  BY DEF LockInv
<1>2. ActiveInv'
  BY DEF ActiveInv, Ended
<1>3. OwnInv'
  BY DEF OwnInv, Past, Over
<1>4. StoredInv'
  BY DEF StoredInv, InStore, Past, Over
<1>5. IdsInv'
  BY DEF IdsInv, HoldsId, Past, Over
<1> QED
  BY <1>1, <1>2, <1>3, <1>4, <1>5

(* The wait loop ends for a reason that stays.                             *)
LEMMA LeaveWaitInv ==
  ASSUME IInv, TypeOK', NEW s \in Stream, LeaveWait(s)
  PROVE  IInv'
<1> USE Distinct DEF IInv, TypeOK, LeaveWait, Goto, cleanupVars
<1>1. LockInv'
  BY DEF LockInv
<1>2. ActiveInv'
  BY DEF ActiveInv, Ended
<1>3. OwnInv'
  BY DEF OwnInv, Past, Over
<1>4. StoredInv'
  BY DEF StoredInv, InStore, Past, Over
<1>5. IdsInv'
  BY DEF IdsInv, HoldsId, Past, Over
<1> QED
  BY <1>1, <1>2, <1>3, <1>4, <1>5

(* The stream cleans up exactly what nobody has cleaned up before.         *)
LEMMA LockStreamInv ==
  ASSUME IInv, TypeOK', NEW s \in Stream, LockStream(s)
  PROVE  IInv'
<1> USE Distinct DEF IInv, TypeOK, LockStream, MustCleanUp, Goto
<1>1. LockInv'
  BY DEF LockInv
<1>2. ActiveInv'
  BY DEF ActiveInv, Ended
<1>3. OwnInv'
  BY DEF OwnInv, LockInv, ActiveInv, Past, Over
<1>4. StoredInv'
  BY DEF StoredInv, LockInv, InStore, Past, Over
<1>5. IdsInv'
  BY DEF IdsInv, HoldsId, LockInv, Past, Over
<1> QED
  BY <1>1, <1>2, <1>3, <1>4, <1>5

(* The objects are deleted after the cleanup, under the mutex.             *)
LEMMA DeleteObjectsInv ==
  ASSUME IInv, TypeOK', NEW s \in Stream, DeleteObjects(s)
  PROVE  IInv'
<1> USE Distinct DEF IInv, TypeOK, DeleteObjects, Goto
<1>1. LockInv'
  BY DEF LockInv
<1>2. ActiveInv'
  BY DEF ActiveInv, Ended
<1>3. OwnInv'
  BY DEF OwnInv, Past, Over
<1>4. StoredInv'
  BY DEF StoredInv, InStore, Past, Over
<1>5. IdsInv'
  BY DEF IdsInv, HoldsId, Past, Over
<1> QED
  BY <1>1, <1>2, <1>3, <1>4, <1>5

(* A limit that is reached only ends the wait.                             *)
LEMMA LimitReachedInv ==
  ASSUME IInv, TypeOK', NEW s \in Stream, LimitReached(s)
  PROVE  IInv'
<1> USE Distinct DEF IInv, TypeOK, LimitReached, cleanupVars
<1>1. LockInv'
  BY DEF LockInv
<1>2. ActiveInv'
  BY DEF ActiveInv, Ended
<1>3. OwnInv'
  BY DEF OwnInv, Past, Over
<1>4. StoredInv'
  BY DEF StoredInv, InStore, Past, Over
<1>5. IdsInv'
  BY DEF IdsInv, HoldsId, Past, Over
<1> QED
  BY <1>1, <1>2, <1>3, <1>4, <1>5

(* A client that departs only ends the wait.                               *)
LEMMA ClientDisconnectsInv ==
  ASSUME IInv, TypeOK', NEW s \in Stream, ClientDisconnects(s)
  PROVE  IInv'
<1> USE Distinct DEF IInv, TypeOK, ClientDisconnects, cleanupVars
<1>1. LockInv'
  BY DEF LockInv
<1>2. ActiveInv'
  BY DEF ActiveInv, Ended
<1>3. OwnInv'
  BY DEF OwnInv, Past, Over
<1>4. StoredInv'
  BY DEF StoredInv, InStore, Past, Over
<1>5. IdsInv'
  BY DEF IdsInv, HoldsId, Past, Over
<1> QED
  BY <1>1, <1>2, <1>3, <1>4, <1>5

(* A subscription found in the store is active, and nobody else is at it.  *)
LEMMA CancelFoundInv ==
  ASSUME IInv, TypeOK', NEW c \in Canceller, NEW id \in Ids,
         CancelFound(c, id), EarlyCancel = FALSE
  PROVE  IInv'
<1> USE Distinct DEF IInv, TypeOK, CancelFound, Beginning
<1>0. /\ victim' \in Stream /\ victim = None
      /\ pc[victim'] \in {"wait", "ending"} /\ active[victim']
  <2>1. victim' \in Stream /\ InStore(victim') /\ victim = None
    BY DEF StoredInv, LockInv
  <2>2. pc[victim'] \notin {"idle", "allocated"} /\ ~Over(victim')
    BY <2>1 DEF InStore, Past
  <2>3. pc[victim'] \in {"wait", "ending"}
    BY <2>1, <2>2 DEF LockInv, ActiveInv, Over, PC
  <2> QED
    BY <2>1, <2>2, <2>3 DEF Over
<1>1. LockInv'
  BY <1>0 DEF LockInv
<1>2. ActiveInv'
  BY <1>0 DEF ActiveInv, Ended
<1>3. OwnInv'
  BY DEF OwnInv, LockInv, Past, Over
<1>4. StoredInv'
  BY DEF StoredInv, LockInv, InStore, Past, Over
<1>5. IdsInv'
  BY DEF IdsInv, HoldsId, LockInv, Past, Over
<1> QED
  BY <1>1, <1>2, <1>3, <1>4, <1>5

(* loop_stop takes the victim's thread away.                               *)
LEMMA CleanupBusInv ==
  ASSUME IInv, TypeOK', CleanupBus
  PROVE  IInv'
<1> USE Distinct DEF IInv, TypeOK, CleanupBus, Advance, CodeOrder
<1>1. LockInv'
  BY DEF LockInv
<1>2. ActiveInv'
  BY DEF ActiveInv, Ended
<1>3. OwnInv'
  BY DEF OwnInv, Past, Over
<1>4. StoredInv'
  BY DEF StoredInv, InStore, Past, Over
<1>5. IdsInv'
  BY DEF IdsInv, HoldsId, Past, Over
<1> QED
  BY <1>1, <1>2, <1>3, <1>4, <1>5

(* The victim's handle has not been removed before.                        *)
LEMMA CleanupSystemInv ==
  ASSUME IInv, TypeOK', CleanupSystem
  PROVE  IInv'
<1> USE Distinct DEF IInv, TypeOK, CleanupSystem, Advance, CodeOrder
<1>1. LockInv'
  BY DEF LockInv
<1>2. ActiveInv'
  BY DEF ActiveInv, Ended
<1>3. OwnInv'
  BY DEF OwnInv, ActiveInv, Past, Over
<1>4. StoredInv'
  BY DEF StoredInv, InStore, Past, Over
<1>5. IdsInv'
  BY DEF IdsInv, HoldsId, Past, Over
<1> QED
  BY <1>1, <1>2, <1>3, <1>4, <1>5

(* The entry under the victim's id is the victim's.                        *)
LEMMA CleanupStoreInv ==
  ASSUME IInv, TypeOK', CleanupStore
  PROVE  IInv'
<1> USE Distinct DEF IInv, TypeOK, CleanupStore, Advance, CodeOrder
<1>1. LockInv'
  BY DEF LockInv
<1>2. ActiveInv'
  BY DEF ActiveInv, Ended
<1>3. OwnInv'
  BY DEF OwnInv, Past, Over
<1>4. StoredInv'
  BY DEF StoredInv, LockInv, ActiveInv, InStore, Past, Over
<1>5. IdsInv'
  BY DEF IdsInv, HoldsId, Past, Over
<1> QED
  BY <1>1, <1>2, <1>3, <1>4, <1>5

(* The victim's id is held by nobody else when it is given back.           *)
LEMMA CleanupIdInv ==
  ASSUME IInv, TypeOK', CleanupId
  PROVE  IInv'
<1> USE Distinct DEF IInv, TypeOK, CleanupId, Advance, CodeOrder, Deallocate
<1>1. LockInv'
  BY DEF LockInv
<1>2. ActiveInv'
  BY DEF ActiveInv, Ended
<1>3. OwnInv'
  BY DEF OwnInv, Past, Over
<1>4. StoredInv'
  BY DEF StoredInv, InStore, Past, Over
<1>5. IdsInv'
  BY DEF IdsInv, HoldsId, LockInv, ActiveInv, Past, Over
<1> QED
  BY <1>1, <1>2, <1>3, <1>4, <1>5

(* The cleanup ends with the victim off, whoever ran it.                   *)
LEMMA CleanupOffInv ==
  ASSUME IInv, TypeOK', CleanupOff
  PROVE  IInv'
<1> USE Distinct DEF IInv, TypeOK, CleanupOff, TurnOff, Goto
<1>1. LockInv'
  BY DEF LockInv
<1>2. ActiveInv'
  BY DEF ActiveInv, LockInv, Ended
<1>3. OwnInv'
  BY DEF OwnInv, LockInv, Past, Over
<1>4. StoredInv'
  BY DEF StoredInv, LockInv, InStore, Past, Over
<1>5. IdsInv'
  BY DEF IdsInv, HoldsId, LockInv, Past, Over
<1> QED
  BY <1>1, <1>2, <1>3, <1>4, <1>5
(* Every step of clients that cancel only what streams keeps the           *)
(* invariant.                                                              *)
LEMMA StepInv ==
  ASSUME EarlyCancel = FALSE
  PROVE  IInv /\ [Next]_vars => IInv'
<1> SUFFICES ASSUME IInv, [Next]_vars PROVE IInv'
  OBVIOUS
<1>0. TypeOK'
  <2>1. TypeOK /\ VictimInv
    BY DEF IInv, LockInv, TypeOK, VictimInv
  <2> QED
    BY <2>1, TypeStep
<1>1. CASE UNCHANGED vars
  BY <1>1 DEF vars, IInv, TypeOK, LockInv, ActiveInv, OwnInv, StoredInv,
              IdsInv, InStore, HoldsId, Past, Over, Ended
<1>2. ASSUME NEW s \in Stream, Step(s) PROVE IInv'
  BY <1>0, <1>2, AllocatedInv, CreateSubscriptionInv, SendMetaDataInv,
     EnableInv, SetActiveInv, LeaveWaitInv, LockStreamInv, DeleteObjectsInv
     DEF Step
<1>3. ASSUME NEW s \in Stream,
             Refuse(s) \/ LimitReached(s) \/ ClientDisconnects(s)
      PROVE  IInv'
  BY <1>0, <1>3, RefuseInv, LimitReachedInv, ClientDisconnectsInv
<1>4. ASSUME NEW c \in Canceller, NEW id \in Ids, CancelFound(c, id)
      PROVE  IInv'
  BY <1>0, <1>4, CancelFoundInv
<1>5. CASE Cleanup
  BY <1>0, <1>5, CleanupBusInv, CleanupSystemInv, CleanupStoreInv,
     CleanupIdInv, CleanupOffInv DEF Cleanup
<1> QED
  BY <1>1, <1>2, <1>3, <1>4, <1>5 DEF Next, CancelUnknown

(* The invariant holds initially.                                          *)
LEMMA InitInv == Init => IInv
<1> SUFFICES ASSUME Init PROVE IInv
  OBVIOUS
<1> USE Distinct DEF Init
<1>1. TypeOK
  BY DEF TypeOK, PC
<1>2. LockInv /\ ActiveInv /\ OwnInv
  BY DEF LockInv, ActiveInv, OwnInv, Past, Over
<1>3. StoredInv /\ IdsInv
  BY DEF StoredInv, InStore, IdsInv, HoldsId
<1> QED
  BY <1>1, <1>2, <1>3 DEF IInv

(* The inductive invariant holds throughout.                               *)
THEOREM Invariant ==
  ASSUME EarlyCancel = FALSE
  PROVE  Spec => []IInv
<1>1. IInv /\ [Next]_vars => IInv'
  BY StepInv
<1> QED
  BY <1>1, InitInv, PTL DEF Spec

-----------------------------------------------------------------------------
(* What follows from it.                                                   *)

(* A subscription that nobody has removed is found by its id, and by no    *)
(* other.                                                                  *)
THEOREM StoreAgrees ==
  ASSUME EarlyCancel = FALSE
  PROVE  Spec => []StoreInv
<1>1. IInv => StoreInv
  BY Distinct DEF IInv, StoreInv, FoundById, Subscribed, OwnInv, StoredInv,
                  InStore, Past, ActiveInv
<1> QED
  BY <1>1, Invariant, PTL

(* No handle is given to removeRequest twice.                              *)
THEOREM HandlesRemovedOnce ==
  ASSUME EarlyCancel = FALSE
  PROVE  Spec => []RemovedOnce
<1>1. IInv => RemovedOnce
  BY DEF IInv, RemovedOnce, OwnInv
<1> QED
  BY <1>1, Invariant, PTL

(* The loop thread's callbacks find metadata sent and objects alive.       *)
THEOREM CallbacksAreSafe ==
  ASSUME EarlyCancel = FALSE
  PROVE  Spec => []CallbacksSafe
<1>1. IInv => CallbacksSafe
  BY DEF IInv, TypeOK, CallbacksSafe, Subscribed, OwnInv, Past
<1> QED
  BY <1>1, Invariant, PTL

(* What keeps a cancellation in force: whoever was found waiting, or past  *)
(* it, never becomes active again, and the cleanup has joined its loop     *)
(* thread before it counts as cancelled.                                   *)
Later(s) == pc[s] \in {"wait", "ending", "cleanup", "delete", "done"}

StickInv ==
  /\ \A i \in Ids : store[i] # None => pc[store[i]] \notin {"idle", "allocated"}
  /\ \A s \in cancelled \ early : Later(s) /\ ~active[s] /\ s \notin bus
  /\ mutex = None => victim = None
  /\ mutex \in Stream => victim \in {mutex, None}
  /\ \A s \in Stream : mutex = s /\ pc[s] = "delete" => victim = None
  /\ phase = "none" => mutex \notin Canceller
  /\ mutex \in Canceller /\ victim \notin early =>
       /\ Later(victim)
       /\ phase \in {"system", "store", "id", "off"} => victim \notin bus

(* Every step of every client keeps it.                                    *)
LEMMA StickStep ==
  TypeOK /\ VictimInv /\ StickInv /\ [Next]_vars => StickInv'
<1> SUFFICES ASSUME TypeOK, VictimInv, StickInv, [Next]_vars
             PROVE  StickInv'
  OBVIOUS
<1>0. TypeOK' /\ VictimInv'
  BY TypeStep
<1> USE Distinct DEF PC, TypeOK, VictimInv, StickInv, Later, cleanupVars, Goto
<1>1. CASE UNCHANGED vars
  BY <1>1 DEF vars
<1>2. ASSUME NEW s \in Stream, Refuse(s) PROVE StickInv'
  BY <1>2 DEF Refuse
<1>3. ASSUME NEW s \in Stream, Step(s) PROVE StickInv'
  <2>1. CASE Allocated(s)
    BY <2>1 DEF Allocated
  <2>2. CASE CreateSubscription(s)
    BY <2>2 DEF CreateSubscription
  <2>3. CASE SendMetaData(s)
    BY <2>3 DEF SendMetaData
  <2>4. CASE Enable(s)
    BY <2>4 DEF Enable
  <2>5. CASE SetActive(s)
    BY <2>5 DEF SetActive
  <2>6. CASE LeaveWait(s)
    BY <2>6 DEF LeaveWait
  <2>7. CASE LockStream(s)
    BY <2>7 DEF LockStream
  <2>8. CASE DeleteObjects(s)
    BY <2>8 DEF DeleteObjects
  <2> QED
    BY <1>3, <2>1, <2>2, <2>3, <2>4, <2>5, <2>6, <2>7, <2>8 DEF Step
<1>4. ASSUME NEW s \in Stream, LimitReached(s) \/ ClientDisconnects(s)
      PROVE  StickInv'
  BY <1>4 DEF LimitReached, ClientDisconnects
<1>5. ASSUME NEW c \in Canceller, NEW id \in Ids, CancelFound(c, id)
      PROVE  StickInv'
  BY <1>5 DEF CancelFound, Beginning
<1>6. CASE Cleanup
  <2>1. CASE CleanupBus
    BY <2>1 DEF CleanupBus, Advance, CodeOrder
  <2>2. CASE CleanupSystem
    BY <2>2 DEF CleanupSystem, Advance, CodeOrder
  <2>3. CASE CleanupStore
    BY <2>3 DEF CleanupStore, Advance, CodeOrder
  <2>4. CASE CleanupId
    BY <2>4 DEF CleanupId, Advance, CodeOrder
  <2>5. CASE CleanupOff
    BY <1>0, <2>5 DEF CleanupOff, TurnOff
  <2> QED
    BY <1>6, <2>1, <2>2, <2>3, <2>4, <2>5 DEF Cleanup
<1> QED
  BY <1>1, <1>2, <1>3, <1>4, <1>5, <1>6 DEF Next, CancelUnknown

(* For every client, whatever it cancels and when: a cancelled             *)
(* subscription that no cancellation found before its stream waited is off *)
(* for good.  (A handle given to removeRequest twice, which early          *)
(* cancellations make possible, is taken to do nobody else harm.)          *)
THEOREM CancellationSticks == Spec => []LateCancelSticks
<1>1. Init => TypeOK /\ VictimInv /\ StickInv
  BY Distinct DEF Init, TypeOK, VictimInv, StickInv, PC
<1>2. StickInv => LateCancelSticks
  BY DEF StickInv, LateCancelSticks
<1> QED
  BY <1>1, <1>2, TypeStep, StickStep, PTL DEF Spec

(* When every stream has returned, store, ids, loop threads and handles    *)
(* are gone.                                                               *)
THEOREM EmptyInTheEnd ==
  ASSUME EarlyCancel = FALSE
  PROVE  Spec => []NothingLeft
<1>1. IInv => NothingLeft
  <2> SUFFICES ASSUME IInv, \A s \in Stream : pc[s] = "done"
               PROVE  /\ \A i \in Ids : store[i] = None
                      /\ used = {} /\ bus = {}
                      /\ \A s \in Stream : subId[s] # NullId => removals[s] # 0
    BY DEF NothingLeft
  <2>1. \A s \in Stream : Over(s)
    BY DEF IInv, ActiveInv, Over
  <2>2. \A i \in Ids : store[i] = None
    BY <2>1 DEF IInv, TypeOK, StoredInv, InStore, Past
  <2>3. used = {} /\ bus = {}
    BY <2>1 DEF IInv, TypeOK, IdsInv, HoldsId, OwnInv, Past
  <2>4. \A s \in Stream : subId[s] # NullId => removals[s] # 0
    BY <2>1 DEF IInv, OwnInv, Past
  <2> QED
    BY <2>2, <2>3, <2>4
<1> QED
  BY <1>1, Invariant, PTL

-----------------------------------------------------------------------------
(* The refinement of Subscriptions.                                        *)

(* Ident(s) is the id the abstract subscription has.                       *)
Ident(s) == IF Life(s) = "none" THEN NullId ELSE subId[s]

(* A step that leaves the store, the ids of stored subscriptions and the   *)
(* lives alone is a stutter of Subscriptions.                              *)
LEMMA Stutter ==
  ASSUME store' = store,
         \A s \in Stream : Life(s)' = Life(s) /\ Ident(s)' = Ident(s)
  PROVE  UNCHANGED Subs!subVars
BY DEF Subs!subVars, Ident

(* Where a stream's life stands, from its program point.                   *)
LEMMA LifeIs ==
  ASSUME IInv, NEW s \in Stream
  PROVE  /\ Life(s) = "stored" <=> subId[s] # NullId /\ InStore(s)
         /\ Life(s) = "none" <=> pc[s] \in {"idle", "allocated"} \/ subId[s] = NullId
         /\ Life(s) = "deleted" <=> pc[s] = "done" /\ subId[s] # NullId
         /\ Life(s) \in {"none", "stored", "erased", "deleted"}
<1>1. (\E i \in Ids : store[i] = s) <=> subId[s] # NullId /\ InStore(s)
  BY Distinct DEF IInv, TypeOK, StoredInv
<1>2. subId[s] # NullId /\ InStore(s) => pc[s] \notin {"idle", "allocated", "done"}
  BY DEF InStore, Past, Over, IInv, ActiveInv
<1> QED
  BY <1>1, <1>2 DEF Life
(* createSubscription enters the store under a free id.                    *)
LEMMA CreateEnters ==
  ASSUME IInv, TypeOK', NEW s \in Stream, CreateSubscription(s)
  PROVE  \E i \in Subs!Ids : Subs!Enter(s, i)
<1> USE Distinct DEF CreateSubscription, Goto, IInv, TypeOK
<1>1. subId[s] \in Ids /\ subId[s] # NullId /\ ~InStore(s)
  BY DEF OwnInv, InStore
<1>2. store[subId[s]] = None
  BY <1>1 DEF StoredInv, IdsInv, HoldsId, InStore, LockInv, Past, Over
<1>3. Life(s) = "none" /\ Life(s)' = "stored"
  <2>1. store'[subId[s]] = s
    BY <1>1
  <2> QED
    BY <1>1, <2>1, LifeIs DEF Life
<1>4. \A t \in Stream \ {s} : Life(t)' = Life(t) /\ Ident(t)' = Ident(t)
  <2>1. \A t \in Stream \ {s}, i \in Ids : store'[i] = t <=> store[i] = t
    BY <1>2
  <2>2. \A t \in Stream \ {s} : pc'[t] = pc[t] /\ subId'[t] = subId[t]
    OBVIOUS
  <2> QED
    BY <2>1, <2>2 DEF Life, Ident
<1>5. Ident(s)' = subId[s]
  BY <1>3 DEF Ident
<1>6. [t \in Stream |-> Life(t)']
        = [[t \in Stream |-> Life(t)] EXCEPT ![s] = "stored"]
  BY <1>3, <1>4
<1>7. [t \in Stream |-> Ident(t)']
        = [[t \in Stream |-> Ident(t)] EXCEPT ![s] = subId[s]]
  BY <1>4, <1>5
<1>8. PICK i \in Ids : i = subId[s]
  BY <1>1
<1>9. Subs!Enter(s, i)
  BY <1>2, <1>3, <1>6, <1>7, <1>8 DEF Subs!Enter, Ident
<1> QED
  BY <1>9 DEF Ids, Subs!Ids

(* The cleanup erases the victim's entry, and no other.                    *)
LEMMA CleanupErases ==
  ASSUME IInv, TypeOK', CleanupStore
  PROVE  Subs!Erase(victim)
<1> USE Distinct DEF CleanupStore, Advance, CodeOrder, IInv, TypeOK
<1>1. /\ victim \in Stream /\ InStore(victim)
      /\ subId[victim] \in Ids /\ subId[victim] # NullId
  BY DEF LockInv, ActiveInv, OwnInv, InStore, Past, Over
<1>2. \A i \in Ids : store[i] = victim <=> i = subId[victim]
  BY <1>1 DEF StoredInv
<1>3. Life(victim) = "stored"
  BY <1>1, LifeIs
<1>4. Life(victim)' = "erased"
  <2>1. ~\E i \in Ids : store'[i] = victim
    BY <1>1, <1>2
  <2>2. pc[victim] \notin {"idle", "allocated", "done"}
    BY <1>1 DEF LockInv
  <2> QED
    BY <1>1, <2>1, <2>2 DEF Life
<1>5. \A t \in Stream \ {victim} : Life(t)' = Life(t)
  <2>1. \A t \in Stream \ {victim}, i \in Ids : store'[i] = t <=> store[i] = t
    BY <1>1, <1>2
  <2> QED
    BY <2>1 DEF Life
<1>6. Ident(victim) = subId[victim] /\ \A t \in Stream : Ident(t)' = Ident(t)
  BY <1>1, <1>3, <1>4, <1>5 DEF Ident
<1>7. [t \in Stream |-> Life(t)']
        = [[t \in Stream |-> Life(t)] EXCEPT ![victim] = "erased"]
  BY <1>1, <1>4, <1>5
<1>8. [t \in Stream |-> Ident(t)'] = [t \in Stream |-> Ident(t)]
  BY <1>6
<1> QED
  BY <1>1, <1>3, <1>6, <1>7, <1>8 DEF Subs!Erase, Ident

(* The stream's thread deletes what was erased before.                     *)
LEMMA DeleteDeletes ==
  ASSUME IInv, TypeOK', NEW s \in Stream, DeleteObjects(s)
  PROVE  Subs!Delete(s)
<1> USE Distinct DEF DeleteObjects, Goto, IInv, TypeOK
<1>1. subId[s] # NullId /\ ~InStore(s)
  BY DEF OwnInv, ActiveInv, InStore, Past, Over
<1>2. ~\E i \in Ids : store[i] = s
  BY <1>1 DEF StoredInv
<1>3. Life(s) = "erased" /\ Life(s)' = "deleted"
  BY <1>1, <1>2 DEF Life
<1>4. \A t \in Stream \ {s} : Life(t)' = Life(t)
  BY DEF Life
<1>5. \A t \in Stream : Ident(t)' = Ident(t)
  BY <1>3, <1>4 DEF Ident
<1>6. [t \in Stream |-> Life(t)']
        = [[t \in Stream |-> Life(t)] EXCEPT ![s] = "deleted"]
  BY <1>3, <1>4
<1>7. [t \in Stream |-> Ident(t)'] = [t \in Stream |-> Ident(t)]
  BY <1>5
<1> QED
  BY <1>3, <1>6, <1>7 DEF Subs!Delete, Ident

(* Every other step of a stream leaves what the store shows alone.         *)
LEMMA StreamStutters ==
  ASSUME IInv, TypeOK', NEW s \in Stream,
         \/ Refuse(s) \/ Allocated(s) \/ SendMetaData(s) \/ Enable(s)
         \/ SetActive(s) \/ LeaveWait(s) \/ LockStream(s)
         \/ LimitReached(s) \/ ClientDisconnects(s)
  PROVE  UNCHANGED Subs!subVars
<1> USE DEF IInv, TypeOK, Goto, cleanupVars
<1>1. store' = store /\ \A t \in Stream \ {s} : pc'[t] = pc[t] /\ subId'[t] = subId[t]
  BY DEF Refuse, Allocated, SendMetaData, Enable, SetActive, LeaveWait,
         LockStream, LimitReached, ClientDisconnects
<1>2. \/ pc[s] = "idle" /\ subId[s] = NullId /\ pc'[s] = "done" /\ subId'[s] = NullId
      \/ pc[s] = "idle" /\ pc'[s] = "allocated"
      \/ /\ subId'[s] = subId[s]
         /\ \/ pc'[s] = pc[s]
            \/ /\ pc[s] \notin {"idle", "allocated", "done"}
               /\ pc'[s] \notin {"idle", "allocated", "done"}
  BY DEF OwnInv, Refuse, Allocated, SendMetaData, Enable, SetActive,
         LeaveWait, LockStream, LimitReached, ClientDisconnects
<1>3. \A t \in Stream \ {s} : Life(t)' = Life(t) /\ Ident(t)' = Ident(t)
  BY <1>1 DEF Life, Ident
<1>4. Life(s)' = Life(s) /\ Ident(s)' = Ident(s)
  <2>1. pc[s] = "idle" => ~\E i \in Ids : store[i] = s
    BY DEF StoredInv, InStore
  <2>2. Life(s)' = Life(s)
    BY <1>1, <1>2, <2>1 DEF Life
  <2> QED
    BY <1>2, <2>1, <2>2 DEF Life, Ident
<1> QED
  BY <1>1, <1>3, <1>4, Stutter

(* So do a cancellation's beginning and the other steps of a cleanup.      *)
LEMMA CleanupStutters ==
  ASSUME IInv, TypeOK',
         \/ \E c \in Canceller, id \in Ids : CancelFound(c, id)
         \/ CleanupBus \/ CleanupSystem \/ CleanupId \/ CleanupOff
         \/ UNCHANGED vars
  PROVE  UNCHANGED Subs!subVars
<1>1. store' = store /\ subId' = subId
  BY DEF CancelFound, CleanupBus, CleanupSystem, CleanupId, CleanupOff, vars
<1>2. \A t \in Stream :
        \/ pc'[t] = pc[t]
        \/ /\ pc[t] \notin {"idle", "allocated", "done"}
           /\ pc'[t] \notin {"idle", "allocated", "done"}
  BY DEF CancelFound, CleanupBus, CleanupSystem, CleanupId, CleanupOff, vars,
         Goto, IInv, TypeOK
<1>3. \A t \in Stream : Life(t)' = Life(t) /\ Ident(t)' = Ident(t)
  BY <1>1, <1>2 DEF Life, Ident
<1> QED
  BY <1>1, <1>3, Stutter

(* The detailed server implements the abstract subscriptions: each step    *)
(* enters, erases or deletes one subscription, or none is touched.         *)
THEOREM ServerImplements ==
  ASSUME EarlyCancel = FALSE
  PROVE  Spec => ImplementsSubscriptions
<1>1. Init => Subs!SubInit
  <2> SUFFICES ASSUME Init PROVE Subs!SubInit
    OBVIOUS
  <2>1. \A s \in Stream : Life(s) = "none"
    BY Distinct DEF Init, Life
  <2> QED
    BY <2>1 DEF Subs!SubInit, Init, Ids, NullId, Subs!Ids, Subs!NullId
<1>2. IInv /\ [Next]_vars => [Subs!SubNext]_(Subs!subVars)
  <2> SUFFICES ASSUME IInv, [Next]_vars
               PROVE  Subs!SubNext \/ UNCHANGED Subs!subVars
    OBVIOUS
  <2>0. TypeOK'
    BY StepInv DEF IInv
  <2>1. ASSUME NEW s \in Stream, Refuse(s) \/ Step(s) \/ LimitReached(s)
                                  \/ ClientDisconnects(s)
        PROVE  Subs!SubNext \/ UNCHANGED Subs!subVars
    <3>1. CASE CreateSubscription(s)
      BY <2>0, <3>1, CreateEnters DEF Subs!SubNext
    <3>2. CASE DeleteObjects(s)
      BY <2>0, <3>2, DeleteDeletes DEF Subs!SubNext
    <3> QED
      BY <2>0, <2>1, <3>1, <3>2, StreamStutters DEF Step
  <2>2. CASE CleanupStore
    <3>1. victim \in Stream
      BY <2>2 DEF CleanupStore, Advance, IInv, LockInv, TypeOK
    <3> QED
      BY <2>0, <2>2, <3>1, CleanupErases DEF Subs!SubNext
  <2>3. CASE \/ \E c \in Canceller, id \in Ids : CancelFound(c, id)
             \/ CleanupBus \/ CleanupSystem \/ CleanupId \/ CleanupOff
             \/ UNCHANGED vars
    BY <2>0, <2>3, CleanupStutters
  <2> QED
    BY <2>1, <2>2, <2>3 DEF Next, Cleanup, CancelUnknown
<1> QED
  BY <1>1, <1>2, Invariant, PTL DEF Spec, ImplementsSubscriptions, Subs!SubSpec
=============================================================================
