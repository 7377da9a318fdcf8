------------------------- MODULE SubscriptionsProofs -------------------------
(***************************************************************************)
(* The two models that have the abstract Subscriptions as their server,    *)
(* the client's commands and the RPCs that list subscriptions, for any     *)
(* number of clients, names, threads and ids.                              *)
(***************************************************************************)
EXTENDS AgentClient, Listing, IdManagerProofs

(* The server's part: the store has a subscription under its id while it   *)
(* is stored, and a subscription has an id once it was entered.            *)
SubTypeOK ==
  /\ store \in [Ids -> Stream \cup {None}]
  /\ life \in [Stream -> {"none", "stored", "erased", "deleted"}]
  /\ ident \in [Stream -> Ids \cup {NullId}]

SubInv ==
  /\ SubTypeOK
  /\ \A i \in Ids, c \in Stream :
       store[i] = c <=> life[c] = "stored" /\ ident[c] = i
  /\ \A c \in Stream : ident[c] = NullId <=> life[c] = "none"

(* A client that has not called has no subscription, and one that has left *)
(* the loop for good has none any more, or its call has failed.            *)
CallInv ==
  \A c \in Stream :
    /\ cpc[c] \in {"none", "free"} => life[c] = "none"
    /\ cpc[c] \in {"parse", "read", "finish"} => valid[c]
    /\ cpc[c] \in {"delete", "deleted"} => Over(c) /\ (valid[c] \/ c \in broken)
    /\ cpc[c] # "none" => name[c] \in Name
    /\ sid[c] \in {NullId, ident[c]}

(* What an unsubscribe thread carries from one step to the next: the id it *)
(* sends is no other client's at the time, and stays the one its target    *)
(* was given.                                                              *)
CarryInv ==
  \A u \in Unsubscriber :
    /\ upc[u] = "idle" => target[u] = None
    /\ upc[u] # "idle" => target[u] \in Stream
    /\ upc[u] # "success" => hit[u] = None
    /\ uid[u] \in Ids => target[u] \in Stream /\ uid[u] = ident[target[u]]

(* The inductive invariant of the client.                                  *)
ClientInv ==
  TypeOK /\ SubInv /\ TableCurrent /\ CallInv /\ CarryInv /\ CancelsOwn

-----------------------------------------------------------------------------
(* The null id is none of the ids, and None names nobody.                  *)
LEMMA Distinct == NullId \notin Ids /\ None \notin Stream /\ None \notin Name
<1>1. NullId \notin Ids
  BY IdAssumption DEF Ids, NullId
<1> QED
  BY <1>1, ClientAssumption

(* What the steps of the abstract server do to one subscription: its life  *)
(* goes on, its id stays, and the store follows.  First its entry.         *)
LEMMA EnterStep ==
  ASSUME SubInv, NEW c \in Stream, NEW i \in Ids, Enter(c, i)
  PROVE  /\ SubInv'
         /\ life'[c] = "stored"
         /\ \A d \in Stream \ {c} : life'[d] = life[d] /\ ident'[d] = ident[d]
         /\ ident[c] = NullId
<1>1. SubTypeOK' /\ store'[i] = c /\ life'[c] = "stored" /\ ident'[c] = i
  BY DEF SubInv, SubTypeOK, Enter
<1>2. \A d \in Stream \ {c} : life'[d] = life[d] /\ ident'[d] = ident[d]
  BY DEF SubInv, SubTypeOK, Enter
<1>3. \A j \in Ids \ {i} : store'[j] = store[j]
  BY DEF SubInv, SubTypeOK, Enter
<1>4. store[i] = None /\ life[c] = "none"
  BY DEF Enter
<1>5. ASSUME NEW j \in Ids, NEW d \in Stream
      PROVE  store'[j] = d <=> life'[d] = "stored" /\ ident'[d] = j
  BY <1>1, <1>2, <1>3, <1>4, Distinct DEF SubInv
<1>6. ASSUME NEW d \in Stream
      PROVE  ident'[d] = NullId <=> life'[d] = "none"
  BY <1>1, <1>2, Distinct DEF SubInv
<1> QED
  BY <1>1, <1>2, <1>4, <1>5, <1>6 DEF SubInv

(* A subscription that leaves the store takes its entry with it.           *)
LEMMA EraseStep ==
  ASSUME SubInv, NEW c \in Stream, Erase(c)
  PROVE  /\ SubInv'
         /\ life[c] = "stored" /\ life'[c] = "erased"
         /\ \A d \in Stream \ {c} : life'[d] = life[d]
         /\ ident' = ident
<1>1. /\ SubTypeOK' /\ life[c] = "stored" /\ life'[c] = "erased"
      /\ ident' = ident /\ ident[c] \in Ids /\ store[ident[c]] = c
  BY Distinct DEF SubInv, SubTypeOK, Erase
<1>2. \A d \in Stream \ {c} : life'[d] = life[d]
  BY DEF SubInv, SubTypeOK, Erase
<1>3. /\ store'[ident[c]] = None
      /\ \A j \in Ids \ {ident[c]} : store'[j] = store[j]
  BY <1>1 DEF SubInv, SubTypeOK, Erase
<1>4. ASSUME NEW j \in Ids, NEW d \in Stream
      PROVE  store'[j] = d <=> life'[d] = "stored" /\ ident'[d] = j
  BY <1>1, <1>2, <1>3, Distinct DEF SubInv
<1>5. ASSUME NEW d \in Stream
      PROVE  ident'[d] = NullId <=> life'[d] = "none"
  BY <1>1, <1>2 DEF SubInv
<1> QED
  BY <1>1, <1>2, <1>4, <1>5 DEF SubInv

(* The deletion of an object leaves the store alone.                       *)
LEMMA DeleteStep ==
  ASSUME SubInv, NEW c \in Stream, Delete(c)
  PROVE  /\ SubInv'
         /\ life[c] = "erased" /\ life'[c] = "deleted"
         /\ \A d \in Stream \ {c} : life'[d] = life[d]
         /\ store' = store /\ ident' = ident
BY DEF SubInv, SubTypeOK, Delete

-----------------------------------------------------------------------------
(* One lemma per action or pair of actions.                                *)
(* The name is kept before the object is entered under it.                 *)
LEMMA SubscribeInv ==
  ASSUME ClientInv, NEW c \in Stream, NEW n \in Name, Subscribe(c, n)
  PROVE  ClientInv'
<1> USE Distinct DEF ClientInv, TypeOK, Subscribe, Goto,
        clientVars, cancelVars, subVars
<1>1. SubInv'
  BY DEF SubInv, SubTypeOK
<1>2. TypeOK'
  BY <1>1 DEF SubInv, SubTypeOK
<1>3. TableCurrent'
  BY DEF TableCurrent, CallInv
<1>4. CallInv'
  BY DEF CallInv, Over, SubInv, SubTypeOK
<1>5. CarryInv'
  BY DEF CarryInv, CallInv, SubInv, SubTypeOK
<1>6. CancelsOwn'
  BY DEF CancelsOwn, CarryInv, SubInv, SubTypeOK
<1> QED
  BY <1>1, <1>2, <1>3, <1>4, <1>5, <1>6

(* A new object takes its name's entry, whoever had it.                    *)
LEMMA CreateInv ==
  ASSUME ClientInv, NEW c \in Stream, Create(c)
  PROVE  ClientInv'
<1> USE Distinct DEF ClientInv, TypeOK, Create, Goto, ResetId,
        clientVars, cancelVars, subVars
<1>1. SubInv'
  BY DEF SubInv, SubTypeOK
<1>2. TypeOK'
  BY <1>1 DEF SubInv, SubTypeOK
<1>3. TableCurrent'
  BY DEF TableCurrent, CallInv
<1>4. CallInv'
  BY DEF CallInv, Over, SubInv, SubTypeOK
<1>5. CarryInv'
  BY DEF CarryInv, CallInv, SubInv, SubTypeOK
<1>6. CancelsOwn'
  BY DEF CancelsOwn, CarryInv, SubInv, SubTypeOK
<1> QED
  BY <1>1, <1>2, <1>3, <1>4, <1>5, <1>6

(* The server's new subscription is the calling client's.                  *)
LEMMA ServeInv ==
  ASSUME ClientInv, NEW c \in Stream, NEW i \in Ids, Serve(c, i)
  PROVE  ClientInv'
<1> USE Distinct DEF ClientInv, TypeOK, Serve, Goto,
        clientVars, cancelVars, subVars
<1>1. SubInv'
  BY EnterStep
<1>2. TypeOK'
  BY <1>1 DEF SubInv, SubTypeOK
<1>3. TableCurrent'
  BY DEF TableCurrent, CallInv
<1>4. CallInv'
  <2>1. \A d \in Stream \ {c} : life'[d] = life[d] /\ ident'[d] = ident[d]
    BY EnterStep
  <2>2. cpc[c] \notin {"none", "free"} /\ ident[c] = NullId
    BY EnterStep
  <2>3. cpc[c] \in {"delete", "deleted"} => c \in broken
    BY DEF CallInv
  <2> QED
    BY <2>1, <2>2, <2>3 DEF CallInv, Over
<1>5. CarryInv'
  BY EnterStep DEF CarryInv, CallInv, SubInv, SubTypeOK
<1>6. CancelsOwn'
  BY EnterStep DEF CancelsOwn, CarryInv, SubInv, SubTypeOK
<1> QED
  BY <1>1, <1>2, <1>3, <1>4, <1>5, <1>6

(* An answer, or none, changes where the client is; only a call that has   *)
(* failed leaves a subscription behind.                                    *)
LEMMA CallEndsInv ==
  ASSUME ClientInv, NEW c \in Stream,
         Metadata(c) \/ Refuse(c) \/ NoMetadata(c) \/ Break(c)
  PROVE  ClientInv'
<1> USE Distinct DEF ClientInv, TypeOK, Metadata, Refuse, NoMetadata, Break, Goto,
        clientVars, cancelVars, subVars
<1>1. SubInv'
  BY DEF SubInv, SubTypeOK
<1>2. TypeOK'
  BY <1>1 DEF SubInv, SubTypeOK
<1>3. TableCurrent'
  BY DEF TableCurrent, CallInv
<1>4. CallInv'
  BY DEF CallInv, Over, SubInv, SubTypeOK
<1>5. CarryInv'
  BY DEF CarryInv, CallInv, SubInv, SubTypeOK
<1>6. CancelsOwn'
  BY DEF CancelsOwn, CarryInv, SubInv, SubTypeOK
<1> QED
  BY <1>1, <1>2, <1>3, <1>4, <1>5, <1>6

(* The id that is parsed is the one of the client's subscription.          *)
LEMMA MetadataInv ==
  ASSUME ClientInv, NEW c \in Stream, SetValid(c) \/ ParseId(c)
  PROVE  ClientInv'
<1> USE Distinct DEF ClientInv, TypeOK, SetValid, ParseId, SubscriptionId, Goto,
        clientVars, cancelVars, subVars
<1>1. SubInv'
  BY DEF SubInv, SubTypeOK
<1>2. TypeOK'
  <2>1. CASE SetValid(c)
    BY <2>1
  <2>2. CASE ParseId(c)
    BY <2>2 DEF SubInv, SubTypeOK
  <2> QED
    BY <2>1, <2>2
<1>3. TableCurrent'
  BY DEF TableCurrent, CallInv
<1>4. CallInv'
  BY DEF CallInv, Over, SubInv, SubTypeOK
<1>5. CarryInv'
  BY DEF CarryInv, CallInv, SubInv, SubTypeOK
<1>6. CancelsOwn'
  BY DEF CancelsOwn, CarryInv, SubInv, SubTypeOK
<1> QED
  BY <1>1, <1>2, <1>3, <1>4, <1>5, <1>6

(* Finish comes back when the server's side is over.                       *)
LEMMA LeaveInv ==
  ASSUME ClientInv, NEW c \in Stream, LeaveLoop(c) \/ Finish(c)
  PROVE  ClientInv'
<1> USE Distinct DEF ClientInv, TypeOK, LeaveLoop, Finish, Goto,
        clientVars, cancelVars, subVars
<1>1. SubInv'
  BY DEF SubInv, SubTypeOK
<1>2. TypeOK'
  BY <1>1 DEF SubInv, SubTypeOK
<1>3. TableCurrent'
  BY DEF TableCurrent, CallInv
<1>4. CallInv'
  BY DEF CallInv, Over, SubInv, SubTypeOK
<1>5. CarryInv'
  BY DEF CarryInv, CallInv, SubInv, SubTypeOK
<1>6. CancelsOwn'
  BY DEF CancelsOwn, CarryInv, SubInv, SubTypeOK
<1> QED
  BY <1>1, <1>2, <1>3, <1>4, <1>5, <1>6

(* The destructor leaves no entry that leads to its object.                *)
LEMMA DestroyInv ==
  ASSUME ClientInv, NEW c \in Stream, Destroy(c)
  PROVE  ClientInv'
<1> USE Distinct DEF ClientInv, TypeOK, Destroy, EraseEntry, Goto,
        clientVars, cancelVars, subVars
<1>1. SubInv'
  BY DEF SubInv, SubTypeOK
<1>2. TypeOK'
  BY <1>1 DEF SubInv, SubTypeOK
<1>3. TableCurrent'
  BY DEF TableCurrent, CallInv
<1>4. CallInv'
  BY DEF CallInv, Over, SubInv, SubTypeOK
<1>5. CarryInv'
  BY DEF CarryInv, CallInv, SubInv, SubTypeOK
<1>6. CancelsOwn'
  BY DEF CancelsOwn, CarryInv, SubInv, SubTypeOK
<1> QED
  BY <1>1, <1>2, <1>3, <1>4, <1>5, <1>6

(* unsubscribe finds an object that exists.                                *)
LEMMA FindInv ==
  ASSUME ClientInv, NEW u \in Unsubscriber, NEW n \in Name, Find(u, n)
  PROVE  ClientInv'
<1> USE Distinct DEF ClientInv, TypeOK, Find, UGoto,
        clientVars, cancelVars, subVars
<1>1. SubInv'
  BY DEF SubInv, SubTypeOK
<1>2. TypeOK'
  BY <1>1 DEF SubInv, SubTypeOK
<1>3. TableCurrent'
  BY DEF TableCurrent, CallInv
<1>4. CallInv'
  BY DEF CallInv, Over, SubInv, SubTypeOK
<1>5. CarryInv'
  BY DEF CarryInv, CallInv, SubInv, SubTypeOK
<1>6. CancelsOwn'
  BY DEF CancelsOwn, CarryInv, SubInv, SubTypeOK
<1> QED
  BY <1>1, <1>2, <1>3, <1>4, <1>5, <1>6

(* The id that is sent is the target's, or none.                           *)
LEMMA SendCancelInv ==
  ASSUME ClientInv, NEW u \in Unsubscriber, SendCancel(u)
  PROVE  ClientInv'
<1> USE Distinct DEF ClientInv, TypeOK, SendCancel, Return, UGoto,
        clientVars, cancelVars, subVars
<1>1. SubInv'
  BY DEF SubInv, SubTypeOK
<1>2. TypeOK'
  <2>1. CASE Return(u, "found")
    BY <2>1
  <2>2. CASE ~Return(u, "found")
    BY <2>2 DEF CarryInv
  <2> QED
    BY <2>1, <2>2
<1>3. TableCurrent'
  BY DEF TableCurrent, CallInv
<1>4. CallInv'
  BY DEF CallInv, Over, SubInv, SubTypeOK
<1>5. CarryInv'
  BY DEF CarryInv, CallInv, SubInv, SubTypeOK
<1>6. CancelsOwn'
  BY DEF CancelsOwn, CarryInv, SubInv, SubTypeOK
<1> QED
  BY <1>1, <1>2, <1>3, <1>4, <1>5, <1>6

(* The server removes the target's subscription, or the target had lost    *)
(* its id.                                                                 *)
LEMMA CancelFoundInv ==
  ASSUME ClientInv, NEW u \in Unsubscriber, CancelFound(u)
  PROVE  ClientInv'
<1> USE Distinct DEF ClientInv, TypeOK, CancelFound, UGoto,
        clientVars, cancelVars, subVars
<1>0. PICK v \in Stream : v = store[uid[u]] /\ Erase(v)
  <2>1. PICK v \in Stream : v = store[uid[u]]
    BY DEF SubInv, SubTypeOK
  <2>2. Erase(v)
    BY <2>1 DEF Erase
  <2> QED
    BY <2>1, <2>2
<1>1. SubInv'
  BY <1>0, EraseStep
<1>2. TypeOK'
  BY <1>0
<1>3. TableCurrent'
  BY DEF TableCurrent, CallInv
<1>4. CallInv'
  BY <1>0, EraseStep DEF CallInv, Over, SubInv, SubTypeOK
<1>5. CarryInv'
  BY <1>0, EraseStep DEF CarryInv, CallInv, SubInv, SubTypeOK
<1>6. CancelsOwn'
  BY <1>0, EraseStep DEF CancelsOwn, CarryInv, SubInv, SubTypeOK
<1> QED
  BY <1>1, <1>2, <1>3, <1>4, <1>5, <1>6

(* A cancellation that removed nothing changes nothing.                    *)
LEMMA CancelEndInv ==
  ASSUME ClientInv, NEW u \in Unsubscriber, CancelUnknown(u) \/ CancelFails(u)
  PROVE  ClientInv'
<1> USE Distinct DEF ClientInv, TypeOK, CancelUnknown, CancelFails, Return, UGoto,
        clientVars, cancelVars, subVars
<1>1. SubInv'
  BY DEF SubInv, SubTypeOK
<1>2. TypeOK'
  BY <1>1 DEF SubInv, SubTypeOK
<1>3. TableCurrent'
  BY DEF TableCurrent, CallInv
<1>4. CallInv'
  BY DEF CallInv, Over, SubInv, SubTypeOK
<1>5. CarryInv'
  BY DEF CarryInv, CallInv, SubInv, SubTypeOK
<1>6. CancelsOwn'
  BY DEF CancelsOwn, CarryInv, SubInv, SubTypeOK
<1> QED
  BY <1>1, <1>2, <1>3, <1>4, <1>5, <1>6

(* The answer of a cancellation changes a flag, perhaps another object's.  *)
LEMMA SucceedInv ==
  ASSUME ClientInv, NEW u \in Unsubscriber, Succeed(u)
  PROVE  ClientInv'
<1> USE Distinct DEF ClientInv, TypeOK, Succeed, SetInactive, Return, UGoto,
        clientVars, cancelVars, subVars
<1>1. SubInv'
  BY DEF SubInv, SubTypeOK
<1>2. TypeOK'
  <2>1. target[u] \in Stream
    BY DEF CarryInv
  <2>2. active' \in [Stream -> BOOLEAN]
    BY <2>1
  <2> QED
    BY <2>2
<1>3. TableCurrent'
  BY DEF TableCurrent, CallInv
<1>4. CallInv'
  BY DEF CallInv, Over, SubInv, SubTypeOK
<1>5. CarryInv'
  BY DEF CarryInv, CallInv, SubInv, SubTypeOK
<1>6. CancelsOwn'
  BY DEF CancelsOwn, CarryInv, SubInv, SubTypeOK
<1> QED
  BY <1>1, <1>2, <1>3, <1>4, <1>5, <1>6

(* The server's own steps only take subscriptions towards their end.       *)
LEMMA ServerInv ==
  ASSUME ClientInv, NEW c \in Stream, Expire(c) \/ ServerDelete(c)
  PROVE  ClientInv'
<1> USE Distinct DEF ClientInv, TypeOK, Expire, ServerDelete,
        clientVars, cancelVars, subVars
<1>1. SubInv'
  BY EraseStep, DeleteStep
<1>2. TypeOK'
  BY <1>1 DEF SubInv, SubTypeOK
<1>3. TableCurrent'
  BY DEF TableCurrent, CallInv
<1>4. CallInv'
  BY EraseStep, DeleteStep DEF CallInv, Over, SubInv, SubTypeOK
<1>5. CarryInv'
  BY EraseStep, DeleteStep DEF CarryInv, CallInv, SubInv, SubTypeOK
<1>6. CancelsOwn'
  BY EraseStep, DeleteStep DEF CancelsOwn, CarryInv, SubInv, SubTypeOK
<1> QED
  BY <1>1, <1>2, <1>3, <1>4, <1>5, <1>6
-----------------------------------------------------------------------------
(* Every step keeps the invariant.                                         *)
LEMMA StepInv == ClientInv /\ [Next]_vars => ClientInv'
<1> SUFFICES ASSUME ClientInv, [Next]_vars PROVE ClientInv'
  OBVIOUS
<1>1. CASE UNCHANGED vars
  BY <1>1 DEF vars, subVars, clientVars, cancelVars, ClientInv, TypeOK, SubInv,
              SubTypeOK, TableCurrent, CallInv, CarryInv, CancelsOwn, Over
<1>2. ASSUME NEW c \in Stream,
             \/ \E n \in Name : Subscribe(c, n)
             \/ Create(c) \/ Metadata(c) \/ Refuse(c) \/ NoMetadata(c)
             \/ Break(c) \/ ClientStep(c)
             \/ \E i \in Ids : Serve(c, i)
             \/ Expire(c) \/ ServerDelete(c)
      PROVE  ClientInv'
  BY <1>2, SubscribeInv, CreateInv, ServeInv, CallEndsInv, MetadataInv,
     LeaveInv, DestroyInv, ServerInv DEF ClientStep
<1>3. ASSUME NEW u \in Unsubscriber, CancelStep(u) \/ \E n \in Name : Find(u, n)
      PROVE  ClientInv'
  BY <1>3, FindInv, SendCancelInv, CancelFoundInv, CancelEndInv, SucceedInv
     DEF CancelStep
<1> QED
  BY <1>1, <1>2, <1>3 DEF Next

(* The inductive invariant holds throughout.                               *)
THEOREM ClientInvariant == Spec => []ClientInv
<1>1. Init => ClientInv
  <2> SUFFICES ASSUME Init PROVE ClientInv
    OBVIOUS
  <2> USE Distinct DEF Init, SubInit
  <2>1. TypeOK
    BY DEF TypeOK
  <2>2. SubInv
    BY DEF SubInv, SubTypeOK
  <2>3. TableCurrent /\ CallInv
    BY DEF TableCurrent, CallInv
  <2>4. CarryInv /\ CancelsOwn
    BY DEF CarryInv, CancelsOwn
  <2> QED
    BY <2>1, <2>2, <2>3, <2>4 DEF ClientInv
<1> QED
  BY <1>1, StepInv, PTL DEF Spec

(* A name leads to an object that exists, although two objects may have    *)
(* been created under one name.                                            *)
THEOREM TableStaysCurrent == Spec => []TableInv
<1>1. ClientInv => TableInv
  BY DEF ClientInv, TableInv
<1> QED
  BY <1>1, ClientInvariant, PTL

(* When every client is gone, no name is taken, and only subscriptions     *)
(* whose call has failed are stored.                                       *)
THEOREM EmptyInTheEnd == Spec => []NothingLeft
<1>1. ClientInv => NothingLeft
  BY DEF ClientInv, TypeOK, TableCurrent, CallInv, Over, SubInv, SubTypeOK,
         NothingLeft
<1> QED
  BY <1>1, ClientInvariant, PTL

(* A cancellation hits another client's subscription only when the one     *)
(* that was meant was gone before.                                         *)
THEOREM CancelsOnlyOwn == Spec => []CancelsOwn
<1>1. ClientInv => CancelsOwn
  BY DEF ClientInv
<1> QED
  BY <1>1, ClientInvariant, PTL

-----------------------------------------------------------------------------
(* Listings.                                                               *)

(* A null pointer is no entry of a subscription.                           *)
NullsInv == \A i \in nulls : store[i] = None

(* What a lister knows of its own walk.                                    *)
ListerInv ==
  \A l \in Lister :
    /\ at[l] # None => lpc[l] = "walk" /\ life[at[l]] # "none"
    /\ \A s \in listed[l] : life[s] # "none"
    /\ present[l] \subseteq Stored
    /\ lpc[l] = "counted" => ask[l] \in Ids

(* The walk of a lister has listed every subscription that was there all   *)
(* the time, or is at it, or will come to it; and it is behind what it has *)
(* listed, in the order of ids.                                            *)
WalkSound(l) ==
  /\ at[l] # None =>
       /\ life[at[l]] # "deleted"
       /\ \A s \in present[l] : \/ s \in listed[l] \/ s = at[l]
                                \/ ident[s] > ident[at[l]]
       /\ \A s \in listed[l] : ident[s] < ident[at[l]]
  /\ at[l] = None /\ lpc[l] \in {"walk", "replied"} =>
       present[l] \subseteq listed[l]

(* Every walk that was not disturbed is sound.                             *)
WalkInv == \A l \in Lister : l \notin disturbed => WalkSound(l)

(* The inductive invariant of the listings.                                *)
ListInv == ListTypeOK /\ SubInv /\ NullsInv /\ ListerInv /\ WalkInv

-----------------------------------------------------------------------------
(* The front of a part of the map: the subscription with the least id, or  *)
(* None, which is the end of the map or a null pointer.                    *)
LEMMA FrontIs ==
  ASSUME ListTypeOK, SubInv, NEW ids \in SUBSET Ids
  PROVE  /\ Front(ids) \in Stream \cup {None}
         /\ ids = {} => Front(ids) = None
         /\ Front(ids) # None =>
              /\ life[Front(ids)] = "stored"
              /\ ident[Front(ids)] \in ids
              /\ \A j \in ids : ident[Front(ids)] <= j
<1>1. CASE ids = {}
  BY <1>1 DEF Front
<1>2. CASE ids # {}
  <2>1. ids \in SUBSET Nat
    BY IdAssumption DEF Ids
  <2>2. \E i \in ids : \A j \in ids : i <= j
    BY <1>2, <2>1, LeastNatural, Zenon
  <2>3. PICK i \in ids : (\A j \in ids : i <= j) /\ Front(ids) = store[i]
    BY <1>2, <2>2 DEF Front
  <2> QED
    BY <1>2, <2>3 DEF ListTypeOK, SubInv, SubTypeOK, NullsInv
<1> QED
  BY <1>1, <1>2

(* The entry of a stored subscription is in the map.                       *)
LEMMA EntryOfStored ==
  ASSUME ListTypeOK, SubInv, NEW s \in Stored
  PROVE  s \in Stream /\ ident[s] \in Ids /\ store[ident[s]] = s /\ ident[s] \in Entries
BY ListingAssumption DEF ListTypeOK, SubInv, SubTypeOK, NullsInv, Stored, Entries

(* A step of one lister leaves the walks of the others as they are.        *)
LEMMA OtherWalks ==
  ASSUME WalkInv, UNCHANGED <<life, ident>>, NEW l \in Lister,
         \A k \in Lister \ {l} :
           /\ at'[k] = at[k] /\ lpc'[k] = lpc[k]
           /\ present'[k] = present[k] /\ listed'[k] = listed[k]
           /\ k \notin disturbed' => k \notin disturbed,
         l \notin disturbed' => WalkSound(l)'
  PROVE  WalkInv'
<1>1. ASSUME NEW k \in Lister, k \notin disturbed', k # l
      PROVE  WalkSound(k)'
  <2>1. WalkSound(k)
    BY <1>1 DEF WalkInv
  <2> QED
    BY <1>1, <2>1 DEF WalkSound
<1> QED
  BY <1>1 DEF WalkInv

(* A walk that begins is in front of every subscription.                   *)
LEMMA ListAllInv ==
  ASSUME ListInv, NEW l \in Lister, ListAll(l)
  PROVE  ListInv'
<1> USE DEF ListInv
<1>1. Entries \in SUBSET Ids
  BY DEF Entries, ListTypeOK
<1>2. PICK E : E = Entries
  OBVIOUS
<1>3. PICK f : f = Front(E)
  OBVIOUS
<1>4. /\ f \in Stream \cup {None}
      /\ E = {} => f = None
      /\ f # None => /\ life[f] = "stored"
                     /\ ident[f] \in E
                     /\ \A j \in E : ident[f] <= j
  BY <1>1, <1>2, <1>3, FrontIs
<1>5. /\ lpc[l] = "idle" /\ lpc' = [lpc EXCEPT ![l] = "walk"]
      /\ at' = [at EXCEPT ![l] = f]
      /\ listed' = [listed EXCEPT ![l] = {}]
      /\ present' = [present EXCEPT ![l] = Stored]
      /\ disturbed' = IF E # {} /\ f = None THEN disturbed \cup {l} ELSE disturbed
      /\ UNCHANGED <<ask, nulls, removed, store, life, ident>>
  BY <1>2, <1>3 DEF ListAll, LGoto, GetFirst, MeetsNull, subVars
<1>6. ListTypeOK' /\ SubInv' /\ NullsInv'
  BY <1>4, <1>5 DEF ListTypeOK, SubInv, SubTypeOK, NullsInv, Stored
<1>7. ListerInv'
  BY <1>4, <1>5 DEF ListTypeOK, ListerInv, Stored
<1>8. ASSUME l \notin disturbed' PROVE WalkSound(l)'
  <2>1. f = None => E = {}
    BY <1>5, <1>8
  <2>2. ASSUME NEW s \in Stored
        PROVE  /\ s \in Stream
               /\ ident[s] \in Ids /\ store[ident[s]] = s /\ ident[s] \in E
               /\ f # None => ident[f] \in Ids /\ store[ident[f]] = f
    BY <1>2, <1>4, EntryOfStored DEF SubInv, SubTypeOK, NullsInv
  <2>3. f # None => \A s \in Stored : s = f \/ ident[s] > ident[f]
    BY <1>4, <2>2, IdAssumption DEF Ids
  <2>4. f = None => Stored = {}
    BY <2>1, <2>2
  <2>5. at'[l] = f /\ listed'[l] = {} /\ present'[l] = Stored
    BY <1>5 DEF ListTypeOK
  <2> QED
    BY <1>4, <1>5, <2>3, <2>4, <2>5 DEF WalkSound
<1>9. WalkInv'
  BY <1>5, <1>8, OtherWalks DEF ListTypeOK
<1> QED
  BY <1>6, <1>7, <1>9

(* A walk that goes on passes over no subscription that was there all the  *)
(* time, and does not go back.                                             *)
LEMMA ListNextInv ==
  ASSUME ListInv, NEW l \in Lister, ListNext(l)
  PROVE  ListInv'
<1> USE DEF ListInv
<1>1. PICK a : a = at[l]
  OBVIOUS
<1>2. a \in Stream /\ lpc[l] = "walk" /\ life[a] # "none"
  BY <1>1 DEF ListNext, ListTypeOK, ListerInv
<1>3. PICK id \in IdOf(a) :
        /\ at' = [at EXCEPT ![l] = GetNext(id)]
        /\ disturbed' = IF MeetsNull(UpperBound(id)) THEN disturbed \cup {l}
                        ELSE disturbed
  BY <1>1 DEF ListNext
<1>4. UpperBound(id) \in SUBSET Ids
  BY DEF UpperBound, Entries, ListTypeOK
<1>5. PICK U : U = UpperBound(id)
  OBVIOUS
<1>6. PICK f : f = Front(U)
  OBVIOUS
<1>7. /\ f \in Stream \cup {None}
      /\ U = {} => f = None
      /\ f # None => /\ life[f] = "stored"
                     /\ ident[f] \in U
                     /\ \A j \in U : ident[f] <= j
  BY <1>4, <1>5, <1>6, FrontIs
<1>8. /\ at' = [at EXCEPT ![l] = f]
      /\ listed' = [listed EXCEPT ![l] = @ \cup {a}]
      /\ disturbed' = IF U # {} /\ f = None THEN disturbed \cup {l} ELSE disturbed
      /\ UNCHANGED <<lpc, ask, present, nulls, removed, store, life, ident>>
  BY <1>1, <1>3, <1>5, <1>6 DEF ListNext, GetNext, MeetsNull, subVars
<1>9. ListTypeOK' /\ SubInv' /\ NullsInv'
  BY <1>2, <1>7, <1>8 DEF ListTypeOK, SubInv, SubTypeOK, NullsInv, Stored
<1>10. ListerInv'
  BY <1>2, <1>7, <1>8 DEF ListTypeOK, ListerInv, Stored
<1>11. ASSUME l \notin disturbed' PROVE WalkSound(l)'
  <2>1. /\ f = None => U = {}
        /\ l \notin disturbed
    BY <1>8, <1>11
  <2>2. /\ life[a] # "deleted" /\ a # None
        /\ \A s \in present[l] : s \in listed[l] \/ s = a \/ ident[s] > ident[a]
        /\ \A s \in listed[l] : ident[s] < ident[a]
    BY <1>1, <1>2, <2>1, ListingAssumption DEF WalkInv, WalkSound
  <2>3. id = ident[a] /\ id \in Ids
    BY <1>2, <2>2 DEF IdOf, SubInv, SubTypeOK, NullsInv
  <2>4. ASSUME NEW s \in present[l], ident[s] > ident[a]
        PROVE  ident[s] \in U /\ ident[s] \in Ids /\ store[ident[s]] = s
    <3>1. s \in Stored
      BY DEF ListerInv
    <3> QED
      BY <1>5, <2>3, <2>4, <3>1, EntryOfStored DEF UpperBound
  <2>5. f # None => /\ ident[f] \in Ids /\ ident[f] > ident[a]
                    /\ store[ident[f]] = f
    BY <1>4, <1>5, <1>7, <2>3 DEF UpperBound, SubInv, SubTypeOK, NullsInv
  <2>6. ASSUME f # None, NEW s \in present[l]
        PROVE  s \in listed[l] \/ s = a \/ s = f \/ ident[s] > ident[f]
    <3>1. CASE ident[s] > ident[a]
      <4>1. ident[f] <= ident[s]
        BY <1>7, <2>4, <2>6, <3>1
      <4>2. ident[f] = ident[s] => s = f
        BY <2>4, <2>5, <2>6, <3>1
      <4> QED
        BY <2>4, <2>5, <2>6, <3>1, <4>1, <4>2, IdAssumption DEF Ids
    <3> QED
      BY <2>2, <3>1
  <2>7. ASSUME f # None, NEW s \in listed[l] \cup {a}
        PROVE  ident[s] < ident[f]
    <3>1. ident[s] \in Ids \cup {NullId}
      BY <1>2 DEF ListTypeOK
    <3> QED
      BY <2>2, <2>3, <2>5, <2>7, <3>1, IdAssumption DEF Ids, NullId
  <2>8. ASSUME f = None, NEW s \in present[l]
        PROVE  s \in listed[l] \cup {a}
    BY <2>1, <2>2, <2>4, <2>8
  <2>9. at'[l] = f /\ listed'[l] = listed[l] \cup {a} /\ present'[l] = present[l]
    BY <1>8 DEF ListTypeOK
  <2> QED
    BY <1>7, <1>8, <2>6, <2>7, <2>8, <2>9 DEF WalkSound
<1>12. WalkInv'
  BY <1>8, <1>11, OtherWalks DEF ListTypeOK
<1> QED
  BY <1>9, <1>10, <1>12

(* The other steps of a lister change nothing the walks rest on.           *)
LEMMA ListerStepInv ==
  ASSUME ListInv, NEW l \in Lister,
         \/ Dangle(l) \/ ListEnd(l) \/ Fetch(l) \/ ListReturn(l)
         \/ \E id \in Ids : Count(l, id)
  PROVE  ListInv'
<1> USE DEF ListInv, LGoto, subVars
<1>1. CASE ListEnd(l)
  <2>1. ListTypeOK' /\ SubInv' /\ NullsInv' /\ ListerInv'
    BY <1>1 DEF ListEnd, ListTypeOK, SubInv, SubTypeOK, NullsInv, ListerInv, Stored
  <2>2. l \notin disturbed' => WalkSound(l)'
    BY <1>1 DEF ListEnd, ListTypeOK, WalkInv, WalkSound
  <2>3. WalkInv'
    BY <1>1, <2>2, OtherWalks DEF ListEnd, ListTypeOK
  <2> QED
    BY <2>1, <2>3
<1>2. CASE Fetch(l)
  <2>1. ListTypeOK' /\ SubInv' /\ NullsInv' /\ ListerInv'
    BY <1>2 DEF Fetch, ListTypeOK, SubInv, SubTypeOK, NullsInv, ListerInv, Stored
  <2>2. l \notin disturbed' => WalkSound(l)'
    BY <1>2 DEF Fetch, ListTypeOK, ListerInv, WalkInv, WalkSound
  <2>3. WalkInv'
    BY <1>2, <2>2, OtherWalks DEF Fetch, ListTypeOK
  <2> QED
    BY <2>1, <2>3
<1>3. CASE ListReturn(l)
  <2>1. ListTypeOK' /\ SubInv' /\ NullsInv' /\ ListerInv'
    BY <1>3 DEF ListReturn, ListTypeOK, SubInv, SubTypeOK, NullsInv, ListerInv, Stored
  <2>2. l \notin disturbed' => WalkSound(l)'
    BY <1>3 DEF ListReturn, ListTypeOK, ListerInv, WalkInv, WalkSound
  <2>3. WalkInv'
    BY <1>3, <2>2, OtherWalks DEF ListReturn, ListTypeOK
  <2> QED
    BY <2>1, <2>3
<1>4. CASE \E id \in Ids : Count(l, id)
  <2>1. ListTypeOK' /\ SubInv' /\ NullsInv' /\ ListerInv'
    BY <1>4 DEF Count, ListTypeOK, SubInv, SubTypeOK, NullsInv, ListerInv, Stored
  <2>2. l \notin disturbed' => WalkSound(l)'
    BY <1>4 DEF Count, ListTypeOK, ListerInv, WalkInv, WalkSound
  <2>3. WalkInv'
    BY <1>4, <2>2, OtherWalks DEF Count, ListTypeOK
  <2> QED
    BY <2>1, <2>3
<1>5. CASE Dangle(l)
  <2>1. ListTypeOK' /\ SubInv' /\ NullsInv' /\ ListerInv'
    BY <1>5 DEF Dangle, ListTypeOK, SubInv, SubTypeOK, NullsInv, ListerInv, Stored
  <2>2. l \notin disturbed' => WalkSound(l)'
    BY <1>5 DEF Dangle, ListTypeOK, WalkSound
  <2>3. WalkInv'
    BY <1>5, <2>2, OtherWalks DEF Dangle, ListTypeOK
  <2> QED
    BY <2>1, <2>3
<1> QED
  BY <1>1, <1>2, <1>3, <1>4, <1>5

(* The deletion of a handle touches nothing the walks rest on.             *)
LEMMA RemoveHandleInv ==
  ASSUME ListInv, NEW s \in Stream, RemoveHandle(s)
  PROVE  ListInv'
BY DEF RemoveHandle, ListInv, ListTypeOK, SubInv, SubTypeOK, NullsInv,
       ListerInv, WalkInv, WalkSound, Stored, subVars

(* A subscription that comes, goes or is deleted under the listers: what   *)
(* was there all the time only shrinks, ids do not change, and the walk    *)
(* that looks at the deleted object is disturbed.                          *)
LEMMA ServerStepInv ==
  ASSUME ListInv, ServerStep
  PROVE  ListInv'
<1> USE DEF ListInv
<1>1. /\ nulls' = {i \in nulls : store'[i] = None}
      /\ present' = [l \in Lister |-> {s \in present[l] : life'[s] = "stored"}]
      /\ disturbed' = disturbed \cup
           {l \in Lister : at[l] # None /\ life'[at[l]] = "deleted"}
      /\ UNCHANGED <<lpc, at, ask, listed, removed>>
  BY DEF ServerStep
<1>2. PICK s \in Stream : Erase(s) \/ Delete(s) \/ \E i \in Ids : Enter(s, i)
  BY DEF ServerStep, SubNext
<1>3. /\ life' \in [Stream -> {"none", "stored", "erased", "deleted"}]
      /\ store' \in [Ids -> Stream \cup {None}]
      /\ ident' \in [Stream -> Ids \cup {NullId}]
      /\ \A t \in Stream : life[t] # "none" => ident'[t] = ident[t] /\ life'[t] # "none"
  BY <1>2 DEF Erase, Delete, Enter, ListTypeOK
<1>4. ListTypeOK'
  BY <1>1, <1>3 DEF ListTypeOK
<1>5. SubInv'
  BY <1>2, EnterStep, EraseStep, DeleteStep
<1>6. NullsInv'
  BY <1>1 DEF NullsInv
<1>7. ListerInv'
  BY <1>1, <1>3 DEF ListTypeOK, ListerInv, Stored
<1>8. ASSUME NEW l \in Lister, l \notin disturbed'
      PROVE  WalkSound(l)'
  <2>1. /\ l \notin disturbed
        /\ at[l] # None => life'[at[l]] # "deleted"
    BY <1>1, <1>8
  <2>2. WalkSound(l)
    BY <2>1 DEF WalkInv
  <2>3. /\ \A t \in present[l] : ident'[t] = ident[t]
        /\ \A t \in listed[l] : ident'[t] = ident[t]
        /\ at[l] # None => ident'[at[l]] = ident[at[l]]
    BY <1>3 DEF ListTypeOK, ListerInv, Stored
  <2>4. present'[l] \subseteq present[l]
    BY <1>1
  <2> QED
    BY <1>1, <2>1, <2>2, <2>3, <2>4 DEF WalkSound
<1> QED
  BY <1>4, <1>5, <1>6, <1>7, <1>8 DEF WalkInv

-----------------------------------------------------------------------------
(* The invariant of the listings.                                          *)
THEOREM ListInvariant == ListSpec => []ListInv
<1>1. ListInit => ListInv
  <2> SUFFICES ASSUME ListInit PROVE ListInv
    OBVIOUS
  <2>1. SubInv
    BY Distinct DEF ListInit, SubInit, SubInv, SubTypeOK
  <2>2. ListTypeOK /\ NullsInv /\ ListerInv /\ WalkInv
    BY DEF ListInit, SubInit, ListTypeOK, NullsInv, ListerInv, WalkInv,
           WalkSound, Stored
  <2> QED
    BY <2>1, <2>2 DEF ListInv
<1>2. ListInv /\ [ListNextAll]_allVars => ListInv'
  <2> SUFFICES ASSUME ListInv, [ListNextAll]_allVars PROVE ListInv'
    OBVIOUS
  <2>1. CASE ServerStep
    BY <2>1, ServerStepInv
  <2>2. CASE \E l \in Lister : ListStep(l) \/ ListReturn(l)
                               \/ \E id \in Ids : Count(l, id)
    BY <2>2, ListAllInv, ListNextInv, ListerStepInv DEF ListStep
  <2>3. CASE \E s \in Stream : RemoveHandle(s)
    BY <2>3, RemoveHandleInv
  <2>4. CASE UNCHANGED allVars
    BY <2>4 DEF ListInv, ListTypeOK, SubInv, SubTypeOK, NullsInv, ListerInv, WalkInv, WalkSound,
                Stored, allVars, listVars, subVars
  <2> QED
    BY <2>1, <2>2, <2>3, <2>4 DEF ListNextAll
<1> QED
  BY <1>1, <1>2, PTL DEF ListSpec

(* A listing names every subscription that was there all the time, and     *)
(* none twice, over a store that other threads change between its steps,   *)
(* unless the object it was looking at was deleted or a null pointer ended *)
(* its walk: getFirst and getNext of the subscription store.               *)
THEOREM ListingsRight == ListSpec => []ListingRight
<1>1. ListInv => ListingRight
  <2> SUFFICES ASSUME ListInv PROVE ListingRight
    OBVIOUS
  <2>1. ASSUME NEW l \in Lister, lpc[l] = "replied", l \notin disturbed
        PROVE  present[l] \subseteq listed[l]
    BY <2>1 DEF ListInv, ListerInv, WalkInv, WalkSound
  <2>2. ASSUME NEW l \in Lister, at[l] \in Stored, l \notin disturbed
        PROVE  \A s \in listed[l] : ident[s] < ident[at[l]]
    BY <2>2, ListingAssumption DEF ListInv, WalkInv, WalkSound, Stored
  <2> QED
    BY <2>1, <2>2 DEF ListInv, ListingRight, ListsExisting, WalkAdvances
<1> QED
  BY <1>1, ListInvariant, PTL
=============================================================================
