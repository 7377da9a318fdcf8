----------------------------- MODULE UdpReceiver -----------------------------
(***************************************************************************)
(* Telemetry over UDP: the receiver thread of UdpReceiver, its two tables  *)
(* (internal sensor id -> external subscription ids, external id ->        *)
(* worker), the workers of UdpWorker, and the branches of                  *)
(* telemetrySubscribe and of the cleanup that create and end them          *)
(* (udp_server_module on).                                                 *)
(*                                                                         *)
(* A worker w also names the stream it serves.  addRequest and             *)
(* removeRequest are the atomic calls that Consolidator shows them to be,  *)
(* which promise one sensor per path in use (SharedSensors); new paths get *)
(* the lowest free internal ids.  Who starts a cleanup, the stream or a    *)
(* cancellation, and the MQTT side of both are the subject of AgentServer. *)
(*                                                                         *)
(* Left out: a cancellation that finds the worker before the metadata were *)
(* sent, whose cleanup runs beside the stream's own add_mapping loop, and  *)
(* the second cleanup of a stream that setActive(true) turned on again     *)
(* after a cancellation (the run server_early).  Both use a consolidator   *)
(* handle that removeRequest has deleted.                                  *)
(***************************************************************************)
EXTENDS IdManager, UdpWorker

CONSTANTS
  Path,         \* paths a client may ask for
  Sensor,       \* internal ids
  Requests,     \* bound: the path lists clients send
  MaxPackets    \* bound: packets the receiver gets

ASSUME ReceiverAssumption ==
  /\ IsFiniteSet(Worker) /\ IsFiniteSet(Sensor)
  /\ None \notin Worker /\ None \notin Path /\ None \notin Sensor
  /\ None # "receiver"
  /\ Sensor \subseteq Nat
  /\ Requests \subseteq Seq(Path) /\ MaxPackets \in Nat

VARIABLES
  spc,          \* where the stream of a worker is
  subId,        \* its external id
  used,         \* AgentServer's id manager
  handle,       \* the internal ids behind its consolidator handle, in order
  sensor,       \* internal id -> path, the consolidator's
  next,         \* how many mappings its loop has added or deleted
  store2,       \* external id -> worker object
  workerStore,  \* _ext_id_worker_store
  extList,      \* _int_to_ext_list_store; no entry is the empty list
  rmutex,       \* who holds _udpreceiver_mutex
  dmutex,       \* who holds _delete_initiate_mutex
  rpc,          \* where the receiver's thread is
  packet,       \* _request: the packet it has in hand, its number and
                \* its internal id
  todo,         \* the external ids its loop has not reached
  received      \* _total_pkts_received

streamVars == <<spc, subId, used, handle, sensor, next, store2, dmutex>>
tableVars  == <<workerStore, extList>>
threadVars == <<rpc, packet, todo, received>>
vars == <<streamVars, tableVars, threadVars, rmutex, workerVars>>

NoPacket == [n |-> 0, id |-> None]
Packet == [n : 0 .. MaxPackets, id : Sensor \cup {None}]
Receiver == "receiver"

Count(seq, x) == Cardinality({k \in DOMAIN seq : seq[k] = x})
Members(seq) == {seq[k] : k \in DOMAIN seq}

Init ==
  /\ WorkerInit
  /\ spc = [w \in Worker |-> "idle"]
  /\ subId = [w \in Worker |-> NullId]
  /\ used = {}
  /\ handle = [w \in Worker |-> <<>>]
  /\ sensor = [i \in Sensor |-> None]
  /\ next = [w \in Worker |-> 0]
  /\ store2 = [e \in Ids |-> None]
  /\ workerStore = [e \in Ids |-> None]
  /\ extList = [i \in Sensor |-> <<>>]
  /\ rmutex = None
  /\ dmutex = None
  /\ rpc = "recv"
  /\ packet = NoPacket /\ todo = <<>> /\ received = 0

Goto(w, from, to) == spc[w] = from /\ spc' = [spc EXCEPT ![w] = to]

-----------------------------------------------------------------------------
(* telemetrySubscribe up to createSubscriptionUdpWorker: an external id, a *)
(* sensor for every path, a path in use keeping the one it has, and the    *)
(* worker, whose thread runs at once.                                      *)
Subscribe(w, paths) ==
  /\ Goto(w, "idle", "created")
  /\ NextId(used) # NullId
  /\ subId' = [subId EXCEPT ![w] = NextId(used)]
  /\ used' = Allocate(used)
  /\ \E id \in [Members(paths) -> Sensor] :
       /\ \A p \in Members(paths) :
            \/ sensor[id[p]] = p
            \/ sensor[id[p]] = None /\ p \notin Members(sensor)
       /\ \A p1, p2 \in Members(paths) : id[p1] = id[p2] => p1 = p2
       /\ \A p \in Members(paths), i \in Sensor :
            sensor[i] = None /\ i < id[p] => i \in Members(id)
       /\ handle' = [handle EXCEPT ![w] = [k \in DOMAIN paths |-> id[paths[k]]]]
       /\ sensor' = [i \in Sensor |->
                       IF \E p \in Members(paths) : id[p] = i
                       THEN CHOOSE p \in Members(paths) : id[p] = i
                       ELSE sensor[i]]
  /\ StartThread(w)
  /\ store2' = [store2 EXCEPT ![NextId(used)] = w]
  /\ UNCHANGED <<next, dmutex, tableVars, threadVars, rmutex, dontTerminate,
                 q, m, out>>

(* add_worker: an entry that is there already stays.                       *)
AddWorker(w) ==
  /\ Goto(w, "created", "mapping")
  /\ rmutex = None
  /\ workerStore' = IF workerStore[subId[w]] # None THEN workerStore
                    ELSE [workerStore EXCEPT ![subId[w]] = w]
  /\ UNCHANGED <<subId, used, handle, sensor, next, store2, dmutex, extList,
                 threadVars, rmutex, workerVars>>

(* add_mapping: one more entry of the list.                                *)
PushBack(list, ext) == Append(list, ext)

AddMapping(w) ==
  /\ spc[w] = "mapping" /\ UNCHANGED spc
  /\ rmutex = None
  /\ next[w] < Len(handle[w])
  /\ next' = [next EXCEPT ![w] = @ + 1]
  /\ extList' = [extList EXCEPT ![handle[w][next[w] + 1]] = PushBack(@, subId[w])]
  /\ UNCHANGED <<subId, used, handle, sensor, store2, dmutex, workerStore,
                 threadVars, rmutex, workerVars>>

(* The metadata is sent.  enable and setActive, which follow, touch        *)
(* neither tables nor worker: a stream serves from here on.                *)
SendMetaData(w) ==
  /\ Goto(w, "mapping", "serving")
  /\ next[w] = Len(handle[w])
  /\ UNCHANGED <<subId, used, handle, sensor, next, store2, dmutex,
                 tableVars, threadVars, rmutex, workerVars>>

-----------------------------------------------------------------------------
(* The cleanup, under _delete_initiate_mutex: first the UDP worker.  It    *)
(* may begin before the stream has set its subscription active.            *)
BeginCleanup(w) ==
  /\ Goto(w, "serving", "unmapping")
  /\ dmutex = None /\ dmutex' = w
  /\ next' = [next EXCEPT ![w] = 0]
  /\ UNCHANGED <<subId, used, handle, sensor, store2, tableVars, threadVars,
                 rmutex, workerVars>>

(* del_mapping: every entry of the id leaves the list.                     *)
RemoveAll(list, ext) ==
  LET kept[k \in 0 .. Len(list)] ==
        IF k = 0 THEN <<>>
        ELSE IF list[k] = ext THEN kept[k - 1]
        ELSE Append(kept[k - 1], list[k])
  IN  kept[Len(list)]

DelMapping(w) ==
  /\ spc[w] = "unmapping" /\ UNCHANGED spc
  /\ rmutex = None
  /\ next[w] < Len(handle[w])
  /\ next' = [next EXCEPT ![w] = @ + 1]
  /\ extList' = [extList EXCEPT ![handle[w][next[w] + 1]] = RemoveAll(@, subId[w])]
  /\ UNCHANGED <<subId, used, handle, sensor, store2, dmutex, workerStore,
                 threadVars, rmutex, workerVars>>

EraseEntry(ext) == workerStore' = [workerStore EXCEPT ![ext] = None]

(* del_worker follows the last del_mapping; in a mutated form the first.   *)
WorkerFirst(w) == next[w] <= Len(handle[w])
Unmapped(w) == next[w] = Len(handle[w])

DelWorker(w) ==
  /\ Goto(w, "unmapping", "terminate")
  /\ rmutex = None
  /\ Unmapped(w)
  /\ EraseEntry(subId[w])
  /\ UNCHANGED <<subId, used, handle, sensor, next, store2, dmutex, extList,
                 threadVars, rmutex, workerVars>>

SetTerminate(w) ==
  /\ Goto(w, "terminate", "notify")
  /\ ClearFlag(w)
  /\ UNCHANGED <<subId, used, handle, sensor, next, store2, dmutex,
                 tableVars, threadVars, rmutex, wpc, q, m, out>>

NotifyTerminate(w) ==
  /\ Goto(w, "notify", "join")
  /\ NotifyOne(w)
  /\ UNCHANGED <<subId, used, handle, sensor, next, store2, dmutex,
                 tableVars, threadVars, rmutex, dontTerminate, q, m, out>>

(* Mutated form: the thread is not waited for.                             *)
Detached(w) == wpc[w] # "none"
Joined(w) == wpc[w] = "done"

(* join, and the worker leaves store2.                                     *)
Join(w) ==
  /\ Goto(w, "join", "joined")
  /\ Joined(w)
  /\ store2' = [store2 EXCEPT ![subId[w]] = None]
  /\ UNCHANGED <<subId, used, handle, sensor, next, dmutex, tableVars,
                 threadVars, rmutex, workerVars>>

(* _cleanupSubscription: the MQTT loop thread is joined, removeRequest     *)
(* takes the sensors no other request has, the id is free, and the stream  *)
(* deletes its objects.                                                    *)
RemoveRequest(w) ==
  /\ Goto(w, "joined", "done")
  /\ sensor' = [i \in Sensor |->
                  IF \E v \in Worker \ {w} :
                       spc[v] # "done" /\ i \in Members(handle[v])
                  THEN sensor[i] ELSE None]
  /\ used' = Deallocate(used, subId[w])
  /\ dmutex' = None
  /\ UNCHANGED <<subId, handle, next, store2, tableVars, threadVars, rmutex,
                 workerVars>>

-----------------------------------------------------------------------------
(* The receiver's thread: recvfrom, for a sensor that is provisioned.      *)
Receive(i) ==
  /\ rpc = "recv" /\ rpc' = "lookup"
  /\ sensor[i] # None
  /\ received < MaxPackets /\ received' = received + 1
  /\ packet' = [n |-> received + 1, id |-> i]
  /\ UNCHANGED <<todo, streamVars, tableVars, rmutex, workerVars>>

(* The list of the packet's internal id, under the mutex from here on.     *)
Lookup ==
  /\ rpc = "lookup"
  /\ rmutex = None
  /\ LET list == extList[packet.id]
     IN  IF list = <<>>
         THEN /\ rpc' = "recv" /\ packet' = NoPacket
              /\ UNCHANGED <<todo, rmutex>>
         ELSE /\ rpc' = "fan" /\ todo' = list /\ rmutex' = Receiver
              /\ UNCHANGED packet
  /\ UNCHANGED <<received, streamVars, tableVars, workerVars>>

(* The next external id: its worker gets the packet; an id without one     *)
(* (_worker_not_found) is passed over.                                     *)
PushPacket ==
  /\ rpc = "fan" /\ todo # <<>>
  /\ LET w == workerStore[Head(todo)]
     IN  IF w = None
         THEN todo' = Tail(todo) /\ UNCHANGED <<rpc, q>>
         ELSE Push(w, packet) /\ rpc' = "notify" /\ UNCHANGED todo
  /\ UNCHANGED <<packet, received, streamVars, tableVars, rmutex, wpc,
                 dontTerminate, m, out>>

(* Mutated form: the push is not announced.                                *)
Silent(w) == wpc' = wpc
Announce(w) == NotifyOne(w)

NotifyPacket ==
  /\ rpc = "notify" /\ rpc' = "fan"
  /\ Announce(workerStore[Head(todo)])
  /\ todo' = Tail(todo)
  /\ UNCHANGED <<packet, received, streamVars, tableVars, rmutex,
                 dontTerminate, q, m, out>>

(* The guard of _udpreceiver_mutex ends with the packet.                   *)
FanDone ==
  /\ rpc = "fan" /\ todo = <<>>
  /\ rpc' = "recv" /\ rmutex' = None /\ packet' = NoPacket
  /\ UNCHANGED <<todo, received, streamVars, tableVars, workerVars>>

ReceiverStep ==
  Lookup \/ PushPacket \/ NotifyPacket \/ FanDone

-----------------------------------------------------------------------------
Rest == <<streamVars, tableVars, threadVars, rmutex>>

(* A stream's thread, or the one that cancels it.                          *)
StreamStep(w) ==
  \/ AddWorker(w) \/ AddMapping(w) \/ SendMetaData(w)
  \/ DelMapping(w) \/ DelWorker(w) \/ SetTerminate(w) \/ NotifyTerminate(w)
  \/ Join(w) \/ RemoveRequest(w)

Next ==
  \/ \E w \in Worker :
       \/ \E paths \in Requests : Subscribe(w, paths)
       \/ StreamStep(w) \/ BeginCleanup(w)
       \/ (WorkerStep(w) \/ SpuriousWakeup(w)) /\ UNCHANGED Rest
  \/ \E i \in Sensor : Receive(i)
  \/ ReceiverStep

Spec == Init /\ [][Next]_vars

(* Threads that can run do.  Nothing says that a write returns: it waits   *)
(* for a client that is connected and does not read.  Mutexes are no more  *)
(* than weakly fair; nobody need subscribe, cancel or send.                *)
FairSpec ==
  /\ Spec
  /\ \A w \in Worker :
       /\ WF_vars(StreamStep(w))
       /\ WF_vars(WorkerStep(w) /\ wpc[w] # "write" /\ UNCHANGED Rest)
  /\ WF_vars(ReceiverStep)

-----------------------------------------------------------------------------
(* Properties.                                                             *)

(* Every variable has its type.                                            *)
TypeOK ==
  /\ WorkerTypeOK(Packet)
  /\ spc \in [Worker -> {"idle", "created", "mapping", "serving",
                         "unmapping", "terminate", "notify", "join", "joined",
                         "done"}]
  /\ subId \in [Worker -> Ids \cup {NullId}]
  /\ used \in SUBSET Ids
  /\ handle \in [Worker -> Seq(Sensor)]
  /\ sensor \in [Sensor -> Path \cup {None}]
  /\ next \in [Worker -> Nat]
  /\ store2 \in [Ids -> Worker \cup {None}]
  /\ workerStore \in [Ids -> Worker \cup {None}]
  /\ extList \in [Sensor -> Seq(Ids)]
  /\ rmutex \in {None, Receiver} /\ dmutex \in Worker \cup {None}
  /\ rpc \in {"recv", "lookup", "fan", "notify"}
  /\ packet \in Packet /\ todo \in Seq(Ids)
  /\ received \in 0 .. MaxPackets

(* A worker that the receiver can reach runs, is not told to terminate,    *)
(* and is the one store2 has for its id, although external ids are used    *)
(* again at once: no packet is pushed into a worker that was or is being   *)
(* deleted, and add_worker never finds an entry ("already found").         *)
ReachableRuns ==
  \A e \in Ids :
    LET w == workerStore[e]
    IN  w # None => /\ wpc[w] \notin {"none", "done"}
                    /\ dontTerminate[w]
                    /\ subId[w] = e /\ store2[e] = w

(* Every external id of a fan-out has its worker, between any two steps of *)
(* it and of the threads that add and delete: _worker_not_found stays 0.   *)
FanFinds ==
  rpc \in {"fan", "notify"} =>
    \A k \in DOMAIN todo : workerStore[todo[k]] # None

(* A client is only sent packets that carry an internal id of its own     *)
(* handle, although external ids change hands at once.                     *)
OnlyMapped ==
  \A w \in Worker : \A k \in DOMAIN (out[w] \o q[w]) :
    (out[w] \o q[w])[k].id \in Members(handle[w])

(* A stream that serves is listed for each internal id exactly as often as *)
(* its handle names it; one that does not is not listed.                   *)
MappedExactly ==
  \A i \in Sensor :
    /\ \A w \in Worker :
         spc[w] = "serving" =>
           Count(extList[i], subId[w]) = Count(handle[w], i)
    /\ \A e \in Members(extList[i]) : e \in used /\
         \E w \in Worker : subId[w] = e /\ spc[w] \in {"mapping", "serving", "unmapping"}

(* The receiver's tables agree with the workers, the streams and a fan-out *)
(* under way, at every step of each.                                       *)
TablesSound == TypeOK /\ ReachableRuns /\ FanFinds /\ MappedExactly

(* A client gets packets in the order they were received, and each as      *)
(* often as it listed the path.  The packet a worker writes is still at    *)
(* the front of its queue.                                                 *)
Delivery(w) ==
  out[w] \o (IF wpc[w] = "write" THEN Tail(q[w]) ELSE q[w])

InOrder ==
  \A w \in Worker : LET d == Delivery(w) IN
    /\ \A k \in 1 .. Len(d) - 1 : d[k].n <= d[k + 1].n
    /\ \A k \in DOMAIN d : Count(d, d[k]) <= Count(handle[w], d[k].id)

(* What a client gets: its own ids only, in order, and as often as listed. *)
DeliveredRight == OnlyMapped /\ InOrder

(* What is still to come of the fan-out under way.                         *)
ToCome == IF rpc = "notify" THEN Tail(todo) ELSE todo

(* No serving client misses a packet, or one of its copies: at any time of *)
(* a fan-out, what its worker was given and what is still to come of it    *)
(* is what it listed, although streams begin to serve and to end during    *)
(* the fan-out, and the worker writes and waits.                           *)
FanReachesAll ==
  rpc \in {"fan", "notify"} =>
    \A w \in Worker : spc[w] = "serving" =>
      Count(Delivery(w), packet) + Count(ToCome, subId[w])
        = Count(handle[w], packet.id)

(* What a worker was given it writes, in that order and without leaving    *)
(* anything out, until it is told to end.                                  *)
KeepsAll(d, e) == \A k \in DOMAIN d : k \in DOMAIN e /\ e[k] = d[k]
NothingLost ==
  [][\A w \in Worker : dontTerminate'[w] => KeepsAll(Delivery(w), Delivery(w)')]_vars

(* A worker sleeps on a packet only from the packet's push to the          *)
(* notification that is to follow: no wakeup is lost between the worker's  *)
(* test and its wait, and no packet is stranded in a queue.                *)
NeverStranded ==
  \A w \in Worker : wpc[w] \in {"wait", "waiting"} /\ q[w] # <<>> =>
    wpc[w] = "waiting" /\ rpc = "notify" /\ workerStore[Head(todo)] = w

(* Every packet reaches the queues it is for, and a worker that looks.     *)
PacketsReach == FanReachesAll /\ NeverStranded

(* When every stream has returned, no thread, table entry, id or sensor of *)
(* theirs is left.                                                         *)
NothingLeft ==
  (\A w \in Worker : spc[w] = "done") =>
    /\ \A w \in Worker : wpc[w] = "done"
    /\ \A e \in Ids : store2[e] = None /\ workerStore[e] = None
    /\ \A i \in Sensor : extList[i] = <<>> /\ sensor[i] = None
    /\ used = {}

(* How far a worker's life is, for the abstract subscriptions that the     *)
(* streams' side implements with store2.                                   *)
Life(w) ==
  IF spc[w] = "idle" THEN "none"
  ELSE IF spc[w] = "joined" THEN "erased"
  ELSE IF spc[w] = "done" THEN "deleted" ELSE "stored"

Workers == INSTANCE Subscriptions
  WITH Stream <- Worker, store <- store2, ident <- subId,
       life <- [w \in Worker |-> Life(w)]

(* A worker enters store2 under an id that is free, although ids are used  *)
(* again at once, leaves it once, by its own entry, after its thread was   *)
(* joined, and only then are its objects deleted.                          *)
WorkersAreSubscriptions == Workers!SubSpec

(* The worker's client reads, so that no write of it lasts for ever; and   *)
(* the worker's wait does not return for no reason again and again.        *)
ClientReads(w) == []<>(wpc[w] # "write")
SleepsSoundly(w) == <>[][~SpuriousWakeup(w)]_vars

(* A queued packet is written, or the worker told to end, if the worker's  *)
(* own client reads, whatever others do.  The receiver, which takes every  *)
(* worker's mutex while it has its own, comes back to recvfrom if all      *)
(* clients read: nothing but a client that does not holds it up, although  *)
(* mutexes are only weakly fair.                                           *)
PacketsFlow ==
  /\ \A w \in Worker :
       ClientReads(w) => (q[w] # <<>> ~> q[w] = <<>> \/ ~dontTerminate[w])
  /\ (\A w \in Worker : ClientReads(w) /\ SleepsSoundly(w))
       => (rpc # "recv" ~> rpc = "recv")

(* "Loop until not asked to terminate": a worker that was asked to does,   *)
(* and the join returns, as long as its client reads.                      *)
WorkerEnds ==
  \A w \in Worker : ClientReads(w) => (spc[w] = "join" ~> wpc[w] = "done")
=============================================================================
