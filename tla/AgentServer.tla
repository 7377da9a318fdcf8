---------------------------- MODULE AgentServer ----------------------------
(***************************************************************************)
(* The life of a client subscription in AgentServer: telemetrySubscribe    *)
(* (one gRPC thread per stream), cancelTelemetrySubscription (one gRPC     *)
(* thread per call), the MQTT loop thread of the subscription's message    *)
(* bus, and the cleanup they share under _delete_initiate_mutex.           *)
(*                                                                         *)
(* A stream s stands for one call of telemetrySubscribe and for the        *)
(* objects it creates: the AgentSubscription, its transport, and the       *)
(* AgentConsolidatorHandle that addRequest returned.  addRequest and       *)
(* removeRequest are the atomic calls that Consolidator shows them to be.  *)
(* The build without the UDP receiver (udp_server_module off) is modelled, *)
(* and a call on the store, a std::map no lock guards, is one step.        *)
(***************************************************************************)
EXTENDS IdManager

CONSTANTS
  Stream,       \* calls of telemetrySubscribe
  Canceller,    \* threads that run cancelTelemetrySubscription
  None,         \* no stream, no thread, no reply
  EarlyCancel   \* may a client cancel before its stream waits (see CancelFound)

ASSUME ServerAssumption ==
  /\ IsFiniteSet(Stream)
  /\ None \notin Stream \cup Canceller \cup Ids \cup {NullId}
  /\ Stream \cap Canceller = {}
  /\ EarlyCancel \in BOOLEAN

VARIABLES
  pc,            \* where telemetrySubscribe is
  subId,         \* id, and AgentSubscription::_id
  used,          \* _id_manager
  store,         \* id -> subscription
  reply,         \* the subscription id sent as initial metadata
  active,        \* AgentSubscription::_active
  expired,       \* Mqtt::_limits_reached
  disconnected,  \* ServerContext::IsCancelled
  bus,           \* the subscriptions whose MQTT loop thread runs
  removals,      \* how often removeRequest was given the stream's handle
  cancelled,     \* streams whose cancellation was answered SUCCESS
  early,         \* streams a cancellation found before they waited
  mutex,         \* who holds _delete_initiate_mutex
  victim,        \* the subscription that _cleanupSubscription works on
  phase          \* and how far it is

vars == <<pc, subId, used, store, reply, active, expired, disconnected, bus,
          removals, cancelled, early, mutex, victim, phase>>

cleanupVars == <<mutex, victim, phase>>

-----------------------------------------------------------------------------
Init ==
  /\ pc = [s \in Stream |-> "idle"]
  /\ subId = [s \in Stream |-> NullId]
  /\ used = {}
  /\ store = [i \in Ids |-> None]
  /\ reply = [s \in Stream |-> None]
  /\ active = [s \in Stream |-> FALSE]
  /\ expired = {}
  /\ disconnected = {}
  /\ bus = {}
  /\ removals = [s \in Stream |-> 0]
  /\ cancelled = {}
  /\ early = {}
  /\ mutex = None
  /\ victim = None
  /\ phase = "none"

Goto(s, from, to) == pc[s] = from /\ pc' = [pc EXCEPT ![s] = to]

(* An empty path list, or no free id: the null id is the reply.            *)
Refuse(s) ==
  /\ Goto(s, "idle", "done")
  /\ reply' = [reply EXCEPT ![s] = NullId]
  /\ UNCHANGED <<subId, used, store, active, expired, disconnected, bus,
                 removals, cancelled, early, cleanupVars>>

Allocated(s) ==
  /\ Goto(s, "idle", "allocated")
  /\ NextId(used) # NullId
  /\ subId' = [subId EXCEPT ![s] = NextId(used)]
  /\ used' = Allocate(used)
  /\ UNCHANGED <<store, reply, active, expired, disconnected, bus, removals,
                 cancelled, early, cleanupVars>>

(* addRequest, whose handle is never null, and createSubscription: the     *)
(* constructor leaves _active as the memory was.                           *)
CreateSubscription(s) ==
  /\ Goto(s, "allocated", "stored")
  /\ store' = [store EXCEPT ![subId[s]] = s]
  /\ \E garbage \in BOOLEAN : active' = [active EXCEPT ![s] = garbage]
  /\ UNCHANGED <<subId, used, reply, expired, disconnected, bus, removals,
                 cancelled, early, cleanupVars>>

SendMetaData(s) ==
  /\ Goto(s, "stored", "replied")
  /\ reply' = [reply EXCEPT ![s] = subId[s]]
  /\ UNCHANGED <<subId, used, store, active, expired, disconnected, bus,
                 removals, cancelled, early, cleanupVars>>

(* enable: BusConnect starts the loop thread, whose callbacks read the     *)
(* consolidator handle and write to the transport.                         *)
Enable(s) ==
  /\ Goto(s, "replied", "enabled")
  /\ bus' = bus \cup {s}
  /\ UNCHANGED <<subId, used, store, reply, active, expired, disconnected,
                 removals, cancelled, early, cleanupVars>>

SetActive(s) ==
  /\ Goto(s, "enabled", "wait")
  /\ active' = [active EXCEPT ![s] = TRUE]
  /\ UNCHANGED <<subId, used, store, reply, expired, disconnected, bus,
                 removals, cancelled, early, cleanupVars>>

(* on_message, for the message that reaches a limit.                       *)
LimitReached(s) ==
  /\ s \in bus
  /\ expired' = expired \cup {s}
  /\ UNCHANGED <<pc, subId, used, store, reply, active, disconnected, bus,
                 removals, cancelled, early, cleanupVars>>

(* The client goes away.                                                   *)
ClientDisconnects(s) ==
  /\ pc[s] \notin {"idle", "done"}
  /\ disconnected' = disconnected \cup {s}
  /\ UNCHANGED <<pc, subId, used, store, reply, active, expired, bus,
                 removals, cancelled, early, cleanupVars>>

Ended(s) == s \in expired \cup disconnected

(* The wait loop, left for any of its three reasons.                       *)
LeaveWait(s) ==
  /\ Goto(s, "wait", "ending")
  /\ Ended(s) \/ ~active[s]
  /\ UNCHANGED <<subId, used, store, reply, active, expired, disconnected,
                 bus, removals, cancelled, early, cleanupVars>>

(* Is the subscription this thread's to clean up?  And a form that forgets *)
(* that a cancellation may have been first.                                *)
MustCleanUpAnyway(s) == Ended(s)
MustCleanUp(s) == active[s] /\ Ended(s)

LockStream(s) ==
  /\ mutex = None
  /\ mutex' = s
  /\ IF MustCleanUp(s)
     THEN Goto(s, "ending", "cleanup") /\ victim' = s /\ phase' = "bus"
     ELSE Goto(s, "ending", "delete") /\ UNCHANGED <<victim, phase>>
  /\ UNCHANGED <<subId, used, store, reply, active, expired, disconnected,
                 bus, removals, cancelled, early>>

(* The end of telemetrySubscribe: the objects are deleted, then the guard  *)
(* of the mutex is.                                                        *)
DeleteObjects(s) ==
  /\ Goto(s, "delete", "done")
  /\ mutex = s /\ mutex' = None
  /\ UNCHANGED <<subId, used, store, reply, active, expired, disconnected,
                 bus, removals, cancelled, early, victim, phase>>

-----------------------------------------------------------------------------
(* cancelTelemetrySubscription for an id that no subscription has.         *)
CancelUnknown(c, id) ==
  /\ mutex = None
  /\ store[id] = None
  /\ UNCHANGED vars

(* ... and for one that has: the cleanup starts.  A client learns the id   *)
(* from the metadata, and may list it before that; EarlyCancel = FALSE     *)
(* stands for clients that cancel only what has begun to stream.           *)
Beginning(s) == pc[s] \in {"stored", "replied", "enabled"}

CancelFound(c, id) ==
  /\ mutex = None
  /\ store[id] # None
  /\ mutex' = c
  /\ victim' = store[id]
  /\ phase' = "bus"
  /\ IF Beginning(store[id])
     THEN EarlyCancel /\ early' = early \cup {store[id]}
     ELSE UNCHANGED early
  /\ UNCHANGED <<pc, subId, used, store, reply, active, expired,
                 disconnected, bus, removals, cancelled>>

-----------------------------------------------------------------------------
(* _cleanupSubscription, by whoever holds the mutex, in the order of the   *)
(* code (after an order that looks equivalent and is not).                 *)
IdBeforeStore == [bus |-> "system", system |-> "id", id |-> "store", store |-> "off"]
CodeOrder == [bus |-> "system", system |-> "store", store |-> "id", id |-> "off"]

Advance(from) == phase = from /\ phase' = CodeOrder[from]

(* Mutated form: the loop thread is not waited for.                        *)
CleanupBusNoJoin ==
  /\ Advance("bus")
  /\ UNCHANGED <<pc, subId, used, store, reply, active, expired,
                 disconnected, bus, removals, cancelled, early, mutex, victim>>

(* disable, disconnect and loop_stop(true), which joins the loop thread.   *)
CleanupBus ==
  /\ Advance("bus")
  /\ bus' = bus \ {victim}
  /\ UNCHANGED <<pc, subId, used, store, reply, active, expired,
                 disconnected, removals, cancelled, early, mutex, victim>>

(* removeRequest, which deletes the handle.                                *)
CleanupSystem ==
  /\ Advance("system")
  /\ removals' = [removals EXCEPT ![victim] = @ + 1]
  /\ UNCHANGED <<pc, subId, used, store, reply, active, expired,
                 disconnected, bus, cancelled, early, mutex, victim>>

CleanupStore ==
  /\ Advance("store")
  /\ store' = [store EXCEPT ![subId[victim]] = None]
  /\ UNCHANGED <<pc, subId, used, reply, active, expired, disconnected, bus,
                 removals, cancelled, early, mutex, victim>>

(* Mutated form: the id is kept.                                           *)
CleanupIdLeak ==
  /\ Advance("id")
  /\ UNCHANGED <<pc, subId, used, store, reply, active, expired,
                 disconnected, bus, removals, cancelled, early, mutex, victim>>

CleanupId ==
  /\ Advance("id")
  /\ used' = Deallocate(used, subId[victim])
  /\ UNCHANGED <<pc, subId, store, reply, active, expired, disconnected, bus,
                 removals, cancelled, early, mutex, victim>>

(* setActive(false), and the form without it.                              *)
StaysOn(s) == active' = active
TurnOff(s) == active' = [active EXCEPT ![s] = FALSE]

(* The cleanup is over: the stream goes on to delete its objects; the      *)
(* cancelling thread answers SUCCESS and leaves them to the stream.        *)
CleanupOff ==
  /\ phase = "off" /\ phase' = "none"
  /\ TurnOff(victim)
  /\ victim' = None
  /\ IF mutex \in Stream
     THEN Goto(mutex, "cleanup", "delete") /\ UNCHANGED <<mutex, cancelled>>
     ELSE mutex' = None /\ cancelled' = cancelled \cup {victim} /\ UNCHANGED pc
  /\ UNCHANGED <<subId, used, store, reply, expired, disconnected, bus,
                 removals, early>>

Cleanup ==
  CleanupBus \/ CleanupSystem \/ CleanupStore \/ CleanupId \/ CleanupOff

-----------------------------------------------------------------------------
(* The steps of a stream's thread; the wait loop's exit is one.            *)
Step(s) ==
  \/ Allocated(s) \/ CreateSubscription(s) \/ SendMetaData(s)
  \/ Enable(s) \/ SetActive(s) \/ LeaveWait(s) \/ LockStream(s)
  \/ DeleteObjects(s)

Next ==
  \/ \E s \in Stream :
       Refuse(s) \/ Step(s) \/ LimitReached(s) \/ ClientDisconnects(s)
  \/ \E c \in Canceller, id \in Ids : CancelUnknown(c, id) \/ CancelFound(c, id)
  \/ Cleanup

Spec == Init /\ [][Next]_vars

(* A thread that can run does.  Finitely many streams compete for the      *)
(* mutex, so weak fairness is enough for each to get it.                   *)
FairSpec ==
  /\ Spec
  /\ \A s \in Stream : WF_vars(Step(s))
  /\ WF_vars(Cleanup)

-----------------------------------------------------------------------------
(* Properties.                                                             *)

PC == {"idle", "allocated", "stored", "replied", "enabled", "wait", "ending",
       "cleanup", "delete", "done"}

(* Every variable has its type.                                            *)
TypeOK ==
  /\ pc \in [Stream -> PC]
  /\ subId \in [Stream -> Ids \cup {NullId}]
  /\ used \in SUBSET Ids
  /\ store \in [Ids -> Stream \cup {None}]
  /\ reply \in [Stream -> Ids \cup {NullId, None}]
  /\ active \in [Stream -> BOOLEAN]
  /\ expired \in SUBSET Stream
  /\ disconnected \in SUBSET Stream
  /\ bus \in SUBSET Stream
  /\ removals \in [Stream -> Nat]
  /\ cancelled \in SUBSET Stream
  /\ early \in SUBSET Stream
  /\ mutex \in Stream \cup Canceller \cup {None}
  /\ victim \in Stream \cup {None}
  /\ phase \in {"none", "bus", "system", "store", "id", "off"}

(* The stream has its subscription object, and nobody has removed it.      *)
Subscribed(s) ==
  pc[s] \notin {"idle", "allocated", "done"} /\ removals[s] = 0

(* "Unique id for the subscription": a subscription that is not being      *)
(* cleaned up is the one the store has for its id, so a cancellation by id *)
(* reaches it and no other, although ids are used again at once.           *)
FoundById ==
  \A s \in Stream : Subscribed(s) => store[subId[s]] = s

(* Whatever threads do at once, the server's variables stay well-formed    *)
(* and its store and ids agree.                                            *)
StoreInv == TypeOK /\ FoundById

(* removeRequest deletes the handle it is given: no handle is given to it  *)
(* twice, although a cancellation, a limit and the client's departure may  *)
(* end the same subscription together.                                     *)
RemovedOnce == \A s \in Stream : removals[s] <= 1

(* While the loop thread can call back, the client has the metadata, the   *)
(* handle it reads is not deleted, and neither are subscription and        *)
(* transport.                                                              *)
CallbacksSafe ==
  \A s \in bus : reply[s] = subId[s] /\ Subscribed(s)

(* "Subscription cancel was already handled": a subscription whose         *)
(* cancellation was answered SUCCESS is off for good.  The code does not   *)
(* keep this for a cancellation that meets a beginning stream.             *)
CancelSticks == \A s \in cancelled : ~active[s] /\ s \notin bus

(* It does for every other one, whatever else the clients cancel early: a  *)
(* subscription that no cancellation found before its stream waited, and   *)
(* whose cancellation was answered SUCCESS, is off for good.               *)
LateCancelSticks ==
  \A s \in cancelled \ early : ~active[s] /\ s \notin bus

(* When the last stream has returned nothing is left of any: no store      *)
(* entry, no id, no loop thread, no handle that was never removed.         *)
NothingLeft ==
  (\A s \in Stream : pc[s] = "done") =>
    /\ \A i \in Ids : store[i] = None
    /\ used = {} /\ bus = {}
    /\ \A s \in Stream : subId[s] # NullId => removals[s] # 0

(* A subscription that was cancelled, reached a limit or lost its client   *)
(* ends: its thread leaves the wait loop and returns.                      *)
StreamEnds ==
  \A s \in Stream : s \in cancelled \cup expired \cup disconnected ~> pc[s] = "done"

-----------------------------------------------------------------------------
(* The abstract subscriptions that this specification implements.          *)
Life(s) ==
  IF \E i \in Ids : store[i] = s THEN "stored"
  ELSE IF pc[s] \in {"idle", "allocated"} \/ subId[s] = NullId THEN "none"
  ELSE IF pc[s] = "done" THEN "deleted" ELSE "erased"

Subs == INSTANCE Subscriptions
  WITH life <- [s \in Stream |-> Life(s)],
       ident <- [s \in Stream |-> IF Life(s) = "none" THEN NullId ELSE subId[s]]

(* A subscription enters the store under an id that is free, a cleanup,    *)
(* whoever runs it, erases that entry and no other, and only then does the *)
(* stream's thread delete the object.                                      *)
ImplementsSubscriptions == Subs!SubSpec
=============================================================================
