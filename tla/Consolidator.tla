---------------------------- MODULE Consolidator ----------------------------
(***************************************************************************)
(* The consolidator of the gRPC agent: AgentConsolidator (one request per  *)
(* client subscription), AgentConsolidatorSystemHandle (one reference      *)
(* counted handle per distinct path, kept in sysdb) and the two commands   *)
(* it sends to the device, systemAdd and systemRemove.                     *)
(*                                                                         *)
(* A request r stands for one AgentConsolidatorHandle: the subscription    *)
(* thread calls addRequest, and whoever ends the subscription calls        *)
(* removeRequest once.  Both run under _consolidator_mutex; the steps in   *)
(* between are those at which another thread or the device can look: one   *)
(* path of the loop, and the command to the device, which may fail, be     *)
(* carried out although the agent saw an error, or reach the device after  *)
(* the agent's deadline for it.                                            *)
(***************************************************************************)
EXTENDS IdManager, Sequences

CONSTANTS
  Request,    \* client subscriptions (AgentConsolidatorHandle)
  Path,       \* paths as sysdb keys them: the text of the whole Path message
  Obj,        \* memory for AgentConsolidatorSystemHandle objects
  None,       \* no request, no path, no object
  MaxPaths,   \* bound: paths in one request
  MaxFaults   \* bound: commands to the device that fail or are late

ASSUME ConsolidatorAssumption ==
  /\ IsFiniteSet(Request)
  /\ None \notin Request /\ None \notin Path /\ None \notin Obj
  /\ MaxPaths \in Nat
  /\ MaxFaults \in Nat

VARIABLES
  mutex,      \* the request whose thread holds _consolidator_mutex, or None
  pc,         \* where each request is
  todo,       \* addRequest: the paths its loop has not reached
  handle,     \* _consolidatorsyshandles: the objects of a request, in order
  done,       \* removeRequest: how many of them its loop has destroyed
  sysdb,      \* path -> object
  objPath,    \* AgentConsolidatorSystemHandle::_path
  objId,      \* ..._internal_subscription_id
  refcount,   \* ..._refcount
  used,       \* InternalIdGenerator
  device,     \* the sensor_<id> entries of the device's configuration
  late,       \* commands under way whose deadline has passed
  touched,    \* history: ids whose entry was last changed by such a command
  balance,    \* _add_count - _remove_count
  underflow,  \* _error_count_underflow is not 0
  faults      \* commands that failed or were late so far

vars == <<mutex, pc, todo, handle, done, sysdb, objPath, objId, refcount,
          used, device, late, touched, balance, underflow, faults>>

objVars  == <<sysdb, objPath, objId, refcount, used>>
sysVars  == <<device, late, touched, faults>>

-----------------------------------------------------------------------------
(* A command is carried out and acknowledged; not carried out; carried out *)
(* although the caller saw an error; or still under way at its deadline.   *)
Outcome == {"ok", "refused", "unacknowledged", "late"}

(* _sendJunosMessagetoMgd: true only on an acknowledged SUCCESS.           *)
Succeeds(out) == out = "ok"

Carried(out) == out \in {"ok", "unacknowledged"}

CountFault(out) ==
  IF Succeeds(out) THEN faults' = faults
  ELSE faults < MaxFaults /\ faults' = faults + 1

(* The sensor_<id> entry a command writes: a path, or None for a delete.   *)
Send(id, entry, out) ==
  /\ CountFault(out)
  /\ IF Carried(out)
     THEN /\ device' = [device EXCEPT ![id] = entry]
          /\ touched' = touched \ {id}
     ELSE UNCHANGED <<device, touched>>
  /\ late' = IF out = "late" THEN late \cup {[id |-> id, entry |-> entry]}
             ELSE late

(* systemAdd writes the sensor named after the id, over any older one;     *)
(* systemRemove deletes the sensor of that name, whatever its path.        *)
SystemAdd(id, p, out) == Send(id, p, out)

(* Mutated form: the delete payload is sent as if it were empty.           *)
SystemRemoveEmpty(id, out) ==
  CountFault(out) /\ UNCHANGED <<device, late, touched>>

SystemRemove(id, out) == Send(id, None, out)

-----------------------------------------------------------------------------
(* _refcount: incRef, decRef behind destroy's underflow check, and the     *)
(* test for the last reference; after each, a mutated form.                *)
IncRefForgotten(o) == refcount' = refcount
IncRef(o) == refcount' = [refcount EXCEPT ![o] = @ + 1]

DecRefForgotten(o) == refcount' = refcount
DecRef(o) == refcount' = [refcount EXCEPT ![o] = IF @ = 0 THEN 0 ELSE @ - 1]

AnyRef(o) == refcount[o] >= 1
LastRef(o) == refcount[o] = 1

(* InternalIdGenerator.deallocate, and the form that leaks the id.         *)
LeakId(o) == UNCHANGED used
ReturnId(o) == used' = Deallocate(used, objId[o])

-----------------------------------------------------------------------------
PathLists == UNION {[1 .. n -> Path] : n \in 0 .. MaxPaths}

Lock(r)   == mutex = None /\ mutex' = r
Unlock(r) == mutex = r /\ mutex' = None

Goto(r, from, to) == pc[r] = from /\ pc' = [pc EXCEPT ![r] = to]

Init ==
  /\ mutex = None
  /\ pc = [r \in Request |-> "none"]
  /\ todo = [r \in Request |-> <<>>]
  /\ handle = [r \in Request |-> <<>>]
  /\ done = [r \in Request |-> 0]
  /\ sysdb = [p \in Path |-> None]
  /\ objPath = [o \in Obj |-> None]
  /\ objId = [o \in Obj |-> NullId]
  /\ refcount = [o \in Obj |-> 0]
  /\ used = {}
  /\ device = [i \in Ids \cup {NullId} |-> None]
  /\ late = {}
  /\ touched = {}
  /\ balance = 0
  /\ underflow = FALSE
  /\ faults = 0

(* addRequest: new AgentConsolidatorHandle, then the guard.                *)
AddRequest(r, paths) ==
  /\ Goto(r, "none", "create")
  /\ Lock(r)
  /\ todo' = [todo EXCEPT ![r] = paths]
  /\ handle' = [handle EXCEPT ![r] = <<>>]
  /\ UNCHANGED <<done, objVars, sysVars, balance, underflow>>

(* create, the path is in sysdb: one more reference to its object.         *)
CreateShared(r) ==
  /\ Goto(r, "create", "create")
  /\ mutex = r
  /\ todo[r] # <<>>
  /\ LET o == sysdb[Head(todo[r])]
     IN  /\ o # None
         /\ IncRef(o)
         /\ handle' = [handle EXCEPT ![r] = Append(@, o)]
  /\ todo' = [todo EXCEPT ![r] = Tail(@)]
  /\ UNCHANGED <<mutex, done, sysdb, objPath, objId, used, sysVars, balance,
                 underflow>>

(* A shared_ptr's object is free memory when nothing points to it.         *)
Allocated(o) ==
  \/ \E p \in Path : sysdb[p] = o
  \/ \E r \in Request : \E i \in DOMAIN handle[r] : handle[r][i] = o

(* create, the path is new: a new object with one reference and the next   *)
(* internal id (which nobody compares with the null identifier), entered   *)
(* in sysdb before the device is asked.                                    *)
CreateReserve(r, o) ==
  /\ Goto(r, "create", "add")
  /\ mutex = r
  /\ todo[r] # <<>>
  /\ sysdb[Head(todo[r])] = None
  /\ ~Allocated(o)
  /\ refcount' = [refcount EXCEPT ![o] = 1]
  /\ objPath' = [objPath EXCEPT ![o] = Head(todo[r])]
  /\ objId' = [objId EXCEPT ![o] = NextId(used)]
  /\ used' = Allocate(used)
  /\ sysdb' = [sysdb EXCEPT ![Head(todo[r])] = o]
  /\ UNCHANGED <<mutex, todo, handle, done, sysVars, balance, underflow>>

(* insert, systemAdd answered: the object joins the request; or it is      *)
(* detached from sysdb, its id is returned and the loop goes on.           *)
CreateAnswer(r, out) ==
  /\ Goto(r, "add", "create")
  /\ mutex = r
  /\ LET p == Head(todo[r])
         o == sysdb[p]
     IN  /\ SystemAdd(objId[o], p, out)
         /\ IF Succeeds(out)
            THEN /\ handle' = [handle EXCEPT ![r] = Append(@, o)]
                 /\ UNCHANGED <<sysdb, used>>
            ELSE /\ sysdb' = [sysdb EXCEPT ![p] = None]
                 /\ ReturnId(o)
                 /\ UNCHANGED handle
  /\ todo' = [todo EXCEPT ![r] = Tail(@)]
  /\ UNCHANGED <<mutex, done, objPath, objId, refcount, balance, underflow>>

(* Mutated form: the block under #if 0 is compiled in, and a request with  *)
(* no accepted path calls removeRequest with the mutex held.               *)
AddReturnRelock(r) ==
  /\ Goto(r, "create", "live")
  /\ todo[r] = <<>>
  /\ handle[r] = <<>> => mutex = None
  /\ Unlock(r)
  /\ balance' = balance + 1
  /\ UNCHANGED <<todo, handle, done, objVars, sysVars, underflow>>

(* addRequest returns the handle, even one no path was accepted for.       *)
AddReturn(r) ==
  /\ Goto(r, "create", "live")
  /\ todo[r] = <<>>
  /\ Unlock(r)
  /\ balance' = balance + 1
  /\ UNCHANGED <<todo, handle, done, objVars, sysVars, underflow>>

-----------------------------------------------------------------------------
(* removeRequest: the guard, then the loop over the handles.               *)
RemoveRequest(r) ==
  /\ Goto(r, "live", "destroy")
  /\ Lock(r)
  /\ UNCHANGED <<todo, handle, done, objVars, sysVars, balance, underflow>>

(* destroy, not the last reference: count down, or note the underflow.     *)
DestroyShared(r) ==
  /\ Goto(r, "destroy", "destroy")
  /\ mutex = r
  /\ done[r] < Len(handle[r])
  /\ LET o == handle[r][done[r] + 1]
     IN  /\ ~LastRef(o)
         /\ DecRef(o)
         /\ underflow' = (underflow \/ refcount[o] = 0)
  /\ done' = [done EXCEPT ![r] = @ + 1]
  /\ UNCHANGED <<mutex, todo, handle, sysdb, objPath, objId, used, sysVars,
                 balance>>

(* destroy, the last reference: remove starts its command to the device.   *)
DestroyLast(r) ==
  /\ Goto(r, "destroy", "remove")
  /\ mutex = r
  /\ done[r] < Len(handle[r])
  /\ LET o == handle[r][done[r] + 1]
     IN  /\ LastRef(o)
         /\ DecRef(o)
  /\ UNCHANGED <<mutex, todo, handle, done, sysdb, objPath, objId, used,
                 sysVars, balance, underflow>>

(* remove, the entry sysdb has for the path (not the object itself): the   *)
(* command's failure is only logged, the id is returned and the entry      *)
(* erased either way.  A path sysdb does not know is left alone.           *)
DestroyAnswer(r, out) ==
  /\ Goto(r, "remove", "destroy")
  /\ mutex = r
  /\ LET p == objPath[handle[r][done[r] + 1]]
         o == sysdb[p]
     IN  IF o = None THEN UNCHANGED <<objVars, sysVars>>
         ELSE /\ SystemRemove(objId[o], out)
              /\ ReturnId(o)
              /\ sysdb' = [sysdb EXCEPT ![p] = None]
              /\ UNCHANGED <<objPath, objId, refcount>>
  /\ done' = [done EXCEPT ![r] = @ + 1]
  /\ UNCHANGED <<mutex, todo, handle, balance, underflow>>

(* removeRequest: the handle is deleted.                                   *)
RemoveReturn(r) ==
  /\ Goto(r, "destroy", "none")
  /\ done[r] = Len(handle[r])
  /\ Unlock(r)
  /\ handle' = [handle EXCEPT ![r] = <<>>]
  /\ done' = [done EXCEPT ![r] = 0]
  /\ balance' = balance - 1
  /\ UNCHANGED <<todo, objVars, sysVars, underflow>>

-----------------------------------------------------------------------------
(* A command whose deadline has passed reaches the device, whoever has the *)
(* id by then; one that never does stays under way.                        *)
Arrive(cmd) ==
  /\ late' = late \ {cmd}
  /\ device' = [device EXCEPT ![cmd.id] = cmd.entry]
  /\ touched' = touched \cup {cmd.id}
  /\ UNCHANGED <<mutex, pc, todo, handle, done, objVars, balance, underflow,
                 faults>>

(* The steps of the thread inside the critical section.                    *)
Step(r) ==
  \/ CreateShared(r)
  \/ \E o \in Obj : CreateReserve(r, o)
  \/ \E out \in Outcome : CreateAnswer(r, out)
  \/ AddReturn(r)
  \/ DestroyShared(r)
  \/ DestroyLast(r)
  \/ \E out \in Outcome : DestroyAnswer(r, out)
  \/ RemoveReturn(r)

Next ==
  \/ \E r \in Request :
       \/ \E paths \in PathLists : AddRequest(r, paths)
       \/ RemoveRequest(r)
       \/ Step(r)
  \/ \E cmd \in late : Arrive(cmd)

Spec == Init /\ [][Next]_vars

-----------------------------------------------------------------------------
(* Properties.                                                             *)

Critical == {"create", "add", "destroy", "remove"}

(* Every variable has its type.                                            *)
TypeOK ==
  /\ mutex \in Request \cup {None}
  /\ pc \in [Request -> Critical \cup {"none", "live"}]
  /\ todo \in [Request -> Seq(Path)]
  /\ handle \in [Request -> Seq(Obj)]
  /\ done \in [Request -> Nat]
  /\ sysdb \in [Path -> Obj \cup {None}]
  /\ objPath \in [Obj -> Path \cup {None}]
  /\ objId \in [Obj -> Ids \cup {NullId}]
  /\ refcount \in [Obj -> Nat]
  /\ used \in SUBSET Ids
  /\ device \in [Ids \cup {NullId} -> Path \cup {None}]
  /\ late \in SUBSET [id : Ids \cup {NullId}, entry : Path \cup {None}]
  /\ touched \in SUBSET (Ids \cup {NullId})
  /\ balance \in Int
  /\ underflow \in BOOLEAN
  /\ faults \in Nat

(* The references to o that requests still hold: the positions of their    *)
(* handle vectors that removeRequest has not destroyed.                    *)
Refs(o) ==
  {x \in Request \X (1 .. MaxPaths) :
     /\ x[2] \in DOMAIN handle[x[1]]
     /\ x[2] > done[x[1]]
     /\ handle[x[1]][x[2]] = o}

(* o is between its entry in sysdb and the answer of systemAdd; or between *)
(* its last decRef and the answer of systemRemove.                         *)
BeingAdded(o) ==
  \E r \in Request : pc[r] = "add" /\ sysdb[Head(todo[r])] = o

BeingRemoved(o) ==
  \E r \in Request : pc[r] = "remove" /\ handle[r][done[r] + 1] = o

(* Every object a request still refers to is the one sysdb has for its     *)
(* path: destroy, which looks the path up again, never removes another     *)
(* request's sensor, and never misses its own.                             *)
HandlesCurrent ==
  \A o \in Obj : Refs(o) # {} => objPath[o] \in Path /\ sysdb[objPath[o]] = o

(* sysdb and the handles agree, and every variable has its type.           *)
SysdbInv == TypeOK /\ HandlesCurrent

(* The reference count of every object in sysdb is the number of handle    *)
(* entries that refer to it, the same path twice in a request counted      *)
(* twice; it differs by the one in progress during a device command.       *)
RefcountExact ==
  \A p \in Path : sysdb[p] # None =>
    LET o == sysdb[p]
    IN  /\ objPath[o] = p
        /\ refcount[o] = IF BeingAdded(o) THEN 1
                         ELSE IF BeingRemoved(o) THEN 0
                         ELSE Cardinality(Refs(o))
        /\ BeingRemoved(o) => Cardinality(Refs(o)) = 1

(* _error_count_underflow stays 0 (the concurrent unit test asserts it).   *)
NoUnderflow == ~underflow

(* Two paths never share an internal id, unless the id space was full when *)
(* they were created; the ids in use are those of sysdb, so none leaks.    *)
IdsAccounted ==
  /\ \A p, q \in Path :
       /\ p # q
       /\ sysdb[p] # None /\ sysdb[q] # None
       /\ objId[sysdb[p]] = objId[sysdb[q]]
       => objId[sysdb[p]] = NullId
  /\ used = {objId[sysdb[p]] : p \in {q \in Path : sysdb[q] # None}} \ {NullId}

(* A path the agent accepted and has not given up is on the device under   *)
(* its sensor name: neither a failed command's orphan nor the reuse of an  *)
(* id disturbs a live sensor.  Only a command that reached the device      *)
(* after its deadline may have, until the next one for that id.            *)
LiveSensorConfigured ==
  \A p \in Path :
    LET o == sysdb[p]
    IN  o # None => \/ BeingAdded(o) \/ BeingRemoved(o)
                    \/ objId[o] = NullId
                    \/ objId[o] \in touched
                    \/ device[objId[o]] = p

(* While no command has failed the device has no other sensor: what is     *)
(* left behind on it is left by a command that failed or came late.        *)
NoOrphanWithoutFault ==
  faults = 0 =>
    \A i \in Ids : device[i] # None => \E p \in Path : /\ sysdb[p] # None
                                                       /\ objId[sysdb[p]] = i
                                                       /\ device[i] = p

(* When no subscription is left, nothing is: no entry in sysdb, no         *)
(* internal id, and _add_count = _remove_count (the concurrent unit test). *)
NothingLeft ==
  (\A r \in Request : pc[r] = "none") =>
    /\ \A p \in Path : sysdb[p] = None
    /\ used = {}
    /\ balance = 0

(* A request that a client was told of keeps its handles, objects and ids  *)
(* until its own removeRequest: no step of another request moves them.     *)
LiveRequestStable ==
  [][\A r \in Request :
       pc[r] = "live" /\ pc'[r] = "live" =>
         /\ handle'[r] = handle[r]
         /\ \A i \in DOMAIN handle[r] :
              LET o == handle[r][i]
              IN  /\ sysdb'[objPath[o]] = o
                  /\ objPath'[o] = objPath[o] /\ objId'[o] = objId[o]
    ]_vars

(* A thread inside the critical section waits for nobody, its own mutex    *)
(* included, and its loops are finite: addRequest and removeRequest give   *)
(* the mutex back, although commands to the device fail.                   *)
HolderNeverBlocks == \A r \in Request : mutex = r => ENABLED Step(r)

(* The promise: requests share one sensor per path.                        *)
Held(r) ==
  [i \in 1 .. (Len(handle[r]) - done[r]) |-> objPath[handle[r][done[r] + i]]]

Promise == INSTANCE SharedSensors WITH
  held <- [r \in Request |-> Held(r)],
  sensors <- {p \in Path : sysdb[p] # None /\ ~BeingAdded(sysdb[p])}

(* The consolidator implements sensor sharing: a path gets its sensor with *)
(* its first holder and loses it with its last.                            *)
SharesSensors == Promise!Spec
=============================================================================
