------------------------------- MODULE Listing -------------------------------
(***************************************************************************)
(* The RPCs that read the store of subscriptions while other threads       *)
(* change it: getTelemetrySubscriptions and getTelemetryOperationalState,  *)
(* for one id (findSubscription) or for all of them (getFirst, then        *)
(* getNext).  They take no lock, and use the subscription they were given, *)
(* its id included, without one.  What the other threads do to the store   *)
(* is the abstract Subscriptions, which AgentServer implements.            *)
(*                                                                         *)
(* findSubscription looks into the std::map twice: count, then operator[], *)
(* which makes an entry with a null pointer if there is none any more.     *)
(* getTelemetrySubscriptions also reads the subscription's consolidator    *)
(* handle, which a cleanup deletes before it erases the store's entry.     *)
(***************************************************************************)
EXTENDS Subscriptions

CONSTANT Lister   \* threads that run a reading RPC

ASSUME ListingAssumption == None \notin Stream

VARIABLES
  lpc,        \* where a lister is
  at,         \* sub, the subscription it looks at
  ask,        \* the id findSubscription was asked for
  listed,     \* the subscriptions it has put into its reply
  present,    \* those that have been in the store since it began
  nulls,      \* ids whose entry in the store is a null pointer
  removed,    \* subscriptions whose consolidator handle was deleted
  disturbed   \* history: listers that looked at an object when it was
              \* deleted, or whose walk met a null pointer

listVars == <<lpc, at, ask, listed, present, nulls, removed, disturbed>>
allVars == <<subVars, listVars>>

Stored == {s \in Stream : life[s] = "stored"}

ListInit ==
  /\ SubInit
  /\ lpc = [l \in Lister |-> "idle"]
  /\ at = [l \in Lister |-> None]
  /\ ask = [l \in Lister |-> NullId]
  /\ listed = [l \in Lister |-> {}]
  /\ present = [l \in Lister |-> {}]
  /\ nulls = {}
  /\ removed = {}
  /\ disturbed = {}

-----------------------------------------------------------------------------
(* The store as the std::map it is: an entry's id, and what it points to.  *)
Entries == {i \in Ids : store[i] # None} \cup nulls

(* Mutated forms: the entry of the id itself is found again, and one is    *)
(* skipped.                                                                *)
LowerBound(id) == {i \in Entries : i >= id}
BoundAbove(id) == {i \in Entries : i > id + 1}

(* upper_bound: the entry behind an id, which need not be there any more.  *)
UpperBound(id) == {i \in Entries : i > id}

Front(ids) ==
  IF ids = {} THEN None
  ELSE store[CHOOSE i \in ids : \A j \in ids : i <= j]

GetFirst == Front(Entries)
GetNext(id) == Front(UpperBound(id))

(* sub->getId() of an object that may have been deleted is any number.     *)
IdOf(s) == IF life[s] = "deleted" THEN Ids \cup {NullId} ELSE {ident[s]}

(* A null pointer in front reads as the end of the map.                    *)
MeetsNull(ids) == ids # {} /\ Front(ids) = None

LGoto(l, from, to) == lpc[l] = from /\ lpc' = [lpc EXCEPT ![l] = to]

(* All subscriptions: the walk begins,                                     *)
ListAll(l) ==
  /\ LGoto(l, "idle", "walk")
  /\ at' = [at EXCEPT ![l] = GetFirst]
  /\ listed' = [listed EXCEPT ![l] = {}]
  /\ present' = [present EXCEPT ![l] = Stored]
  /\ disturbed' = IF MeetsNull(Entries) THEN disturbed \cup {l} ELSE disturbed
  /\ UNCHANGED <<ask, nulls, removed, subVars>>

(* puts the subscription into the reply and goes on to the next,           *)
ListNext(l) ==
  /\ lpc[l] = "walk" /\ at[l] # None
  /\ listed' = [listed EXCEPT ![l] = @ \cup {at[l]}]
  /\ \E id \in IdOf(at[l]) :
       /\ at' = [at EXCEPT ![l] = GetNext(id)]
       /\ disturbed' = IF MeetsNull(UpperBound(id)) THEN disturbed \cup {l}
                       ELSE disturbed
  /\ UNCHANGED <<lpc, ask, present, nulls, removed, subVars>>

(* unless it reads a handle that was deleted, which has no defined end,    *)
Dangle(l) ==
  /\ LGoto(l, "walk", "undefined")
  /\ at[l] \in removed
  /\ at' = [at EXCEPT ![l] = None]
  /\ UNCHANGED <<ask, listed, present, nulls, removed, disturbed, subVars>>

(* and ends with the reply.                                                *)
ListEnd(l) ==
  /\ LGoto(l, "walk", "replied")
  /\ at[l] = None
  /\ UNCHANGED <<at, ask, listed, present, nulls, removed, disturbed, subVars>>

(* One subscription: count,                                                *)
Count(l, id) ==
  /\ LGoto(l, "idle", IF id \in Entries THEN "counted" ELSE "idle")
  /\ ask' = [ask EXCEPT ![l] = id]
  /\ UNCHANGED <<at, listed, present, nulls, removed, disturbed, subVars>>

(* and operator[]; what the RPC then reads of the one subscription is part *)
(* of no property.                                                         *)
Fetch(l) ==
  /\ LGoto(l, "counted", "idle")
  /\ nulls' = IF store[ask[l]] = None THEN nulls \cup {ask[l]} ELSE nulls
  /\ UNCHANGED <<at, ask, listed, present, removed, disturbed, subVars>>

(* The RPC returns; the lister may be used again.                          *)
ListReturn(l) ==
  /\ LGoto(l, "replied", "idle")
  /\ listed' = [listed EXCEPT ![l] = {}]
  /\ present' = [present EXCEPT ![l] = {}]
  /\ disturbed' = disturbed \ {l}
  /\ UNCHANGED <<at, ask, nulls, removed, subVars>>

(* The first step of a cleanup: removeRequest.                             *)
RemoveHandle(s) ==
  /\ s \in Stored \ removed
  /\ removed' = removed \cup {s}
  /\ UNCHANGED <<lpc, at, ask, listed, present, nulls, disturbed, subVars>>

(* A step of the server: what leaves the store has lost its handle before, *)
(* and an entry that is given a subscription is no longer null.            *)
ServerStep ==
  /\ SubNext
  /\ \A s \in Stored \ removed : life'[s] = "stored"
  /\ nulls' = {i \in nulls : store'[i] = None}
  /\ present' = [l \in Lister |->
                   {s \in present[l] : life'[s] = "stored"}]
  /\ disturbed' = disturbed \cup
       {l \in Lister : at[l] # None /\ life'[at[l]] = "deleted"}
  /\ UNCHANGED <<lpc, at, ask, listed, removed>>

ListStep(l) ==
  ListAll(l) \/ ListNext(l) \/ Dangle(l) \/ ListEnd(l) \/ Fetch(l)

ListNextAll ==
  \/ ServerStep \/ \E s \in Stream : RemoveHandle(s)
  \/ \E l \in Lister : ListStep(l) \/ ListReturn(l) \/ \E id \in Ids : Count(l, id)

ListSpec == ListInit /\ [][ListNextAll]_allVars

(* A thread that runs an RPC goes on.                                      *)
ListFairSpec ==
  ListSpec /\ \A l \in Lister : WF_allVars(ListNext(l) \/ ListEnd(l))

-----------------------------------------------------------------------------
(* Properties.                                                             *)

(* Every variable has its type.                                            *)
ListTypeOK ==
  /\ store \in [Ids -> Stream \cup {None}]
  /\ life \in [Stream -> {"none", "stored", "erased", "deleted"}]
  /\ ident \in [Stream -> Ids \cup {NullId}]
  /\ lpc \in [Lister -> {"idle", "walk", "replied", "counted",
                        "undefined"}]
  /\ at \in [Lister -> Stream \cup {None}]
  /\ ask \in [Lister -> Ids \cup {NullId}]
  /\ listed \in [Lister -> SUBSET Stream]
  /\ present \in [Lister -> SUBSET Stream]
  /\ nulls \in SUBSET Ids
  /\ removed \in SUBSET Stream
  /\ disturbed \in SUBSET Lister

(* "This command returns a list of existing subscriptions": a reply names  *)
(* every subscription that was there from the RPC's first step to its      *)
(* last, whatever was subscribed and cancelled meanwhile, unless the       *)
(* object it was looking at was deleted or a null pointer ended its walk.  *)
(* An RPC that read a deleted handle (Dangle) may have no reply at all.    *)
ListsExisting ==
  \A l \in Lister : lpc[l] = "replied" =>
    present[l] \subseteq listed[l] \/ l \in disturbed

(* The walk is behind every subscription it has listed and that is still   *)
(* in the store: it lists none twice, with the same exceptions.            *)
WalkAdvances ==
  \A l \in Lister : at[l] \in Stored /\ l \notin disturbed =>
    \A s \in listed[l] : s \in Stored => ident[s] < ident[at[l]]

(* A listing is complete and without repetition, over a store that others  *)
(* change between its steps.                                               *)
ListingRight == ListTypeOK /\ ListsExisting /\ WalkAdvances

(* A listing comes to its end, although subscriptions come and go, unless  *)
(* it reads a deleted handle.                                              *)
WalkEnds ==
  \A l \in Lister : lpc[l] = "walk" ~> lpc[l] \in {"replied", "undefined"}
=============================================================================
