------------------------- MODULE ConsolidatorProofs -------------------------
(***************************************************************************)
(* The consolidator's invariants, for any number of requests, paths and    *)
(* ids and any number of failing or late device commands.                  *)
(***************************************************************************)
EXTENDS Consolidator, IdManagerProofs, FiniteSetTheorems, SequenceTheorems

(* A request is inside the critical section exactly while it has the lock. *)
LockInv == \A r \in Request : pc[r] \in Critical <=> mutex = r

(* What each program point knows of its own request.                       *)
ShapeInv ==
  \A r \in Request :
    /\ Len(handle[r]) + Len(todo[r]) <= MaxPaths
    /\ done[r] <= Len(handle[r])
    /\ pc[r] \notin {"destroy", "remove"} => done[r] = 0
    /\ pc[r] = "none" => handle[r] = <<>>
    /\ pc[r] \notin {"create", "add"} => todo[r] = <<>>
    /\ pc[r] = "add" => todo[r] # <<>> /\ sysdb[Head(todo[r])] # None
    /\ pc[r] = "remove" => done[r] < Len(handle[r])

(* sysdb keys every object by the object's own path.                       *)
DbInv == \A p \in Path : sysdb[p] # None => objPath[sysdb[p]] = p

(* An object of sysdb is being added and nobody refers to it yet; or it is *)
(* being removed and only the remover refers to it; or its count is the    *)
(* number of references, at least one.                                     *)
CountInv ==
  \A p \in Path : sysdb[p] # None =>
    LET o == sysdb[p]
    IN  /\ BeingAdded(o) => refcount[o] = 1 /\ Refs(o) = {}
        /\ BeingRemoved(o) => refcount[o] = 0 /\ Cardinality(Refs(o)) = 1
        /\ ~BeingAdded(o) /\ ~BeingRemoved(o) =>
             refcount[o] = Cardinality(Refs(o)) /\ Refs(o) # {}

(* The requests that were added and are not removed are those counted.     *)
Open == {r \in Request : pc[r] \in {"live", "destroy", "remove"}}

(* balance stands for _add_count - _remove_count.                          *)
BalanceInv == balance = Cardinality(Open)

(* A command is late only after one was not acknowledged.                  *)
FaultInv == late # {} => faults # 0

(* The part of the inductive invariant that needs no ids and no device.    *)
CoreInv == TypeOK /\ LockInv /\ ShapeInv /\ DbInv /\ HandlesCurrent /\ CountInv

(* The inductive invariant.                                                *)
IInv ==
  /\ CoreInv
  /\ NoUnderflow
  /\ IdsAccounted
  /\ LiveSensorConfigured
  /\ NoOrphanWithoutFault
  /\ FaultInv
  /\ BalanceInv

-----------------------------------------------------------------------------
(* How the steps move references.                                          *)

(* The references to an object are finitely many.                          *)
LEMMA RefsFinite == \A o : IsFiniteSet(Refs(o)) /\ Cardinality(Refs(o)) \in Nat
<1> SUFFICES ASSUME NEW o
             PROVE  IsFiniteSet(Refs(o)) /\ Cardinality(Refs(o)) \in Nat
  OBVIOUS
<1>1. IsFiniteSet(1 .. MaxPaths)
  BY ConsolidatorAssumption, FS_Interval
<1>2. IsFiniteSet(Request \X (1 .. MaxPaths))
  BY <1>1, ConsolidatorAssumption, FS_Product
<1>3. Refs(o) \in SUBSET (Request \X (1 .. MaxPaths))
  BY DEF Refs
<1> QED
  BY <1>2, <1>3, FS_Subset, FS_CardinalityType

(* addHandle adds one reference, to the object it is given.                *)
LEMMA RefsAppend ==
  ASSUME TypeOK, NEW r \in Request, NEW o \in Obj,
         Len(handle[r]) < MaxPaths, done[r] = 0,
         handle' = [handle EXCEPT ![r] = Append(@, o)], done' = done
  PROVE  /\ Refs(o)' = Refs(o) \cup {<<r, Len(handle[r]) + 1>>}
         /\ Cardinality(Refs(o)') = Cardinality(Refs(o)) + 1
         /\ \A q \in Obj \ {o} : Refs(q)' = Refs(q)
<1> DEFINE x0 == <<r, Len(handle[r]) + 1>>
<1>1. /\ handle[r] \in Seq(Obj) /\ Len(handle[r]) \in Nat /\ MaxPaths \in Nat
      /\ \A s \in Request : handle[s] \in Seq(Obj) /\ done[s] \in Nat
      /\ x0 \in Request \X (1 .. MaxPaths)
  BY ConsolidatorAssumption DEF TypeOK
<1>2. \A s \in Request : s # r => handle'[s] = handle[s]
  BY DEF TypeOK
<1>3. /\ handle'[r] = Append(handle[r], o)
      /\ DOMAIN handle'[r] = 1 .. (Len(handle[r]) + 1)
      /\ DOMAIN handle[r] = 1 .. Len(handle[r])
      /\ \A i \in 1 .. Len(handle[r]) : handle'[r][i] = handle[r][i]
      /\ handle'[r][Len(handle[r]) + 1] = o
  BY <1>1 DEF TypeOK
<1>4. ASSUME NEW q \in Obj, NEW x \in Request \X (1 .. MaxPaths)
      PROVE  x \in Refs(q)' <=> x \in Refs(q) \/ (q = o /\ x = x0)
  <2>1. CASE x[1] # r
    BY <2>1, <1>2, <1>4 DEF Refs
  <2>2. CASE x[1] = r
    <3>1. x = x0 <=> x[2] = Len(handle[r]) + 1
      BY <2>2, <1>4
    <3> QED
      BY <3>1, <2>2, <1>1, <1>3, <1>4 DEF Refs
  <2> QED
    BY <2>1, <2>2
<1>5. x0 \notin Refs(o)
  BY <1>1, <1>3 DEF Refs
<1>6. \A q : Refs(q) \subseteq Request \X (1 .. MaxPaths)
             /\ Refs(q)' \subseteq Request \X (1 .. MaxPaths)
  BY DEF Refs
<1>7. Refs(o)' = Refs(o) \cup {x0} /\ \A q \in Obj \ {o} : Refs(q)' = Refs(q)
  BY <1>1, <1>4, <1>6
<1>8. IsFiniteSet(Refs(o))
  BY RefsFinite
<1>9. Cardinality(Refs(o) \cup {x0}) = Cardinality(Refs(o)) + 1
  BY <1>5, <1>8, FS_AddElement
<1> QED
  BY <1>7, <1>9

(* destroy takes one reference away, from the object at the loop's index.  *)
LEMMA RefsDrop ==
  ASSUME TypeOK, NEW r \in Request, NEW o \in Obj,
         done[r] < Len(handle[r]), Len(handle[r]) <= MaxPaths,
         o = handle[r][done[r] + 1],
         handle' = handle, done' = [done EXCEPT ![r] = @ + 1]
  PROVE  /\ Refs(o)' = Refs(o) \ {<<r, done[r] + 1>>}
         /\ <<r, done[r] + 1>> \in Refs(o)
         /\ Cardinality(Refs(o)') = Cardinality(Refs(o)) - 1
         /\ \A q \in Obj \ {o} : Refs(q)' = Refs(q)
<1> DEFINE x0 == <<r, done[r] + 1>>
<1>1. /\ handle[r] \in Seq(Obj) /\ Len(handle[r]) \in Nat /\ MaxPaths \in Nat
      /\ \A s \in Request : handle[s] \in Seq(Obj) /\ done[s] \in Nat
      /\ x0 \in Request \X (1 .. MaxPaths)
      /\ DOMAIN handle[r] = 1 .. Len(handle[r])
  BY ConsolidatorAssumption DEF TypeOK
<1>2. /\ \A s \in Request : s # r => done'[s] = done[s]
      /\ done'[r] = done[r] + 1
  BY DEF TypeOK
<1>3. ASSUME NEW q \in Obj, NEW x \in Request \X (1 .. MaxPaths)
      PROVE  x \in Refs(q)' <=> x \in Refs(q) /\ x # x0
  <2>1. CASE x[1] # r
    BY <2>1, <1>2, <1>3 DEF Refs
  <2>2. CASE x[1] = r
    <3>1. x = x0 <=> x[2] = done[r] + 1
      BY <2>2, <1>3
    <3> QED
      BY <3>1, <2>2, <1>1, <1>2, <1>3 DEF Refs
  <2> QED
    BY <2>1, <2>2
<1>4. x0 \in Refs(o) /\ \A q \in Obj \ {o} : x0 \notin Refs(q)
  BY <1>1 DEF Refs
<1>5. \A q : Refs(q) \subseteq Request \X (1 .. MaxPaths)
             /\ Refs(q)' \subseteq Request \X (1 .. MaxPaths)
  BY DEF Refs
<1>6. Refs(o)' = Refs(o) \ {x0} /\ \A q \in Obj \ {o} : Refs(q)' = Refs(q)
  BY <1>3, <1>4, <1>5
<1>7. IsFiniteSet(Refs(o))
  BY RefsFinite
<1>8. Cardinality(Refs(o) \ {x0}) = Cardinality(Refs(o)) - 1
  BY <1>4, <1>7, FS_RemoveElement
<1> QED
  BY <1>4, <1>6, <1>8

(* The handle vector has room for every path still to be tried.            *)
LEMMA RoomLeft ==
  ASSUME TypeOK, ShapeInv, NEW r \in Request, todo[r] # <<>>
  PROVE  Len(handle[r]) < MaxPaths
<1>1. Len(handle[r]) + Len(todo[r]) <= MaxPaths
  BY DEF ShapeInv
<1>2. Len(handle[r]) \in Nat /\ Len(todo[r]) \in Nat /\ Len(todo[r]) >= 1
  BY DEF TypeOK
<1>3. MaxPaths \in Nat
  BY ConsolidatorAssumption
<1>4. \A a, b, m \in Nat : a + b <= m /\ b >= 1 => a < m
  OBVIOUS
<1> QED
  BY <1>1, <1>2, <1>3, <1>4

(* While r has the lock, the object being added or removed is r's.         *)
LEMMA OnlyHolder ==
  ASSUME LockInv, NEW r \in Request, mutex = r, NEW o
  PROVE  /\ BeingAdded(o) <=> pc[r] = "add" /\ sysdb[Head(todo[r])] = o
         /\ BeingRemoved(o) <=> pc[r] = "remove" /\ handle[r][done[r] + 1] = o
  BY DEF LockInv, Critical, BeingAdded, BeingRemoved

-----------------------------------------------------------------------------
(* The core invariant, action by action.                                   *)

(* A path list of a request is a sequence of at most MaxPaths paths.       *)
LEMMA PathListType ==
  ASSUME NEW paths \in PathLists
  PROVE  paths \in Seq(Path) /\ Len(paths) <= MaxPaths
<1>1. PICK n \in 0 .. MaxPaths : paths \in [1 .. n -> Path]
  BY DEF PathLists
<1>2. n \in Nat /\ n <= MaxPaths
  BY <1>1, ConsolidatorAssumption
<1> QED
  BY <1>1, <1>2, ConsolidatorAssumption

(* Taking the lock to add a request touches no object.                     *)
LEMMA AddRequestCore ==
  ASSUME CoreInv, NEW r \in Request, NEW paths \in PathLists,
         AddRequest(r, paths)
  PROVE  CoreInv'
<1> USE DEF AddRequest, Goto, Lock, objVars, sysVars
<1>0. TypeOK /\ LockInv /\ ShapeInv
  BY DEF CoreInv
<1>1. paths \in Seq(Path) /\ Len(paths) <= MaxPaths
  BY PathListType
<1>2. /\ mutex = None /\ mutex' = r /\ pc[r] = "none" /\ pc'[r] = "create"
      /\ \A s \in Request : pc[s] \notin Critical
      /\ \A s \in Request : s # r => pc'[s] = pc[s]
  BY <1>0, ConsolidatorAssumption DEF TypeOK, LockInv, Critical
<1>3. handle' = handle /\ done' = done
  BY <1>0, <1>2 DEF TypeOK, ShapeInv
<1>4. TypeOK'
  BY <1>0, <1>1 DEF TypeOK, Critical
<1>5. LockInv'
  BY <1>0, <1>2, ConsolidatorAssumption DEF LockInv, Critical
<1>6. ShapeInv'
  BY <1>0, <1>1, <1>2, <1>3 DEF ShapeInv, TypeOK, Critical
<1>7. DbInv'
  BY DEF DbInv, CoreInv
<1>8. \A o : Refs(o)' = Refs(o)
  BY <1>3 DEF Refs
<1>9. HandlesCurrent'
  BY <1>8 DEF HandlesCurrent, CoreInv
<1>10. \A o : /\ ~BeingAdded(o) /\ ~BeingRemoved(o)
              /\ ~BeingAdded(o)' /\ ~BeingRemoved(o)'
  BY <1>2 DEF BeingAdded, BeingRemoved, Critical
<1>11. CountInv'
  BY <1>8, <1>10 DEF CountInv, CoreInv
<1> QED
  BY <1>4, <1>5, <1>6, <1>7, <1>9, <1>11 DEF CoreInv

(* Sharing a handle: the count and the references grow by one each.        *)
LEMMA CreateSharedCore ==
  ASSUME CoreInv, NEW r \in Request, CreateShared(r)
  PROVE  CoreInv'
<1>0. TypeOK /\ LockInv /\ ShapeInv /\ DbInv /\ HandlesCurrent /\ CountInv
  BY DEF CoreInv
<1>a. PICK p \in Path : p = Head(todo[r])
  BY <1>0 DEF CreateShared, TypeOK
<1>b. PICK o \in Obj : o = sysdb[p]
  BY <1>0, <1>a DEF CreateShared, TypeOK
<1>c. /\ mutex = r /\ mutex' = r /\ pc[r] = "create" /\ done' = done
      /\ pc' = [pc EXCEPT ![r] = "create"]
      /\ todo[r] # <<>> /\ todo' = [todo EXCEPT ![r] = Tail(@)]
      /\ handle' = [handle EXCEPT ![r] = Append(@, o)]
      /\ refcount' = [refcount EXCEPT ![o] = @ + 1]
      /\ sysdb' = sysdb /\ objPath' = objPath /\ objId' = objId
      /\ used' = used
      /\ device' = device /\ late' = late /\ touched' = touched
      /\ faults' = faults
      /\ balance' = balance /\ underflow' = underflow
  BY <1>a, <1>b DEF CreateShared, Goto, IncRef, sysVars
<1>1. /\ todo[r] \in Seq(Path) /\ Len(todo[r]) \in Nat /\ Len(todo[r]) >= 1
      /\ Tail(todo[r]) \in Seq(Path) /\ Len(Tail(todo[r])) = Len(todo[r]) - 1
      /\ handle[r] \in Seq(Obj) /\ Len(handle[r]) \in Nat
      /\ Len(Append(handle[r], o)) = Len(handle[r]) + 1
      /\ Append(handle[r], o) \in Seq(Obj)
  BY <1>0, <1>c DEF TypeOK
<1>2. pc' = pc /\ done[r] = 0
  BY <1>0, <1>c DEF TypeOK, ShapeInv
<1>3. Len(handle[r]) < MaxPaths
  BY <1>0, <1>c, RoomLeft
<1>4. TypeOK'
  BY <1>0, <1>1, <1>2, <1>c DEF TypeOK
<1>5. LockInv'
  BY <1>0, <1>2, <1>c DEF LockInv
<1>6. ShapeInv'
  BY <1>0, <1>1, <1>2, <1>c DEF ShapeInv, TypeOK
<1>7. DbInv'
  BY <1>0, <1>c DEF DbInv
<1>8. /\ Refs(o)' = Refs(o) \cup {<<r, Len(handle[r]) + 1>>}
      /\ Cardinality(Refs(o)') = Cardinality(Refs(o)) + 1
      /\ \A q \in Obj \ {o} : Refs(q)' = Refs(q)
  BY <1>0, <1>2, <1>3, <1>c, RefsAppend
<1>9. HandlesCurrent'
  <2>1. objPath[o] = p
    BY <1>0, <1>b, ConsolidatorAssumption DEF DbInv
  <2> QED
    BY <2>1, <1>0, <1>b, <1>8, <1>c DEF HandlesCurrent
<1>10. \A q : /\ ~BeingAdded(q) /\ ~BeingRemoved(q)
              /\ ~BeingAdded(q)' /\ ~BeingRemoved(q)'
  BY <1>0, <1>2, <1>c DEF BeingAdded, BeingRemoved, LockInv, Critical
<1>11. CountInv'
  <2> SUFFICES ASSUME NEW q \in Path, sysdb[q] # None
               PROVE  /\ refcount'[sysdb[q]] = Cardinality(Refs(sysdb[q]))'
                      /\ Refs(sysdb[q])' # {}
    BY <1>10, <1>c DEF CountInv
  <2>1. sysdb[q] \in Obj /\ refcount[sysdb[q]] = Cardinality(Refs(sysdb[q]))
        /\ Refs(sysdb[q]) # {}
    BY <1>0, <1>10 DEF CountInv, TypeOK
  <2>2. CASE sysdb[q] = o
    BY <2>1, <2>2, <1>0, <1>8, <1>c DEF TypeOK
  <2>3. CASE sysdb[q] # o
    BY <2>1, <2>3, <1>0, <1>8, <1>c DEF TypeOK
  <2> QED
    BY <2>2, <2>3
<1> QED
  BY <1>4, <1>5, <1>6, <1>7, <1>9, <1>11 DEF CoreInv

(* Reserving a handle: the new object is in nobody's handle, and its id is *)
(* one that is free, or the null id.                                       *)
LEMMA CreateReserveCore ==
  ASSUME CoreInv, NEW r \in Request, NEW o \in Obj, CreateReserve(r, o)
  PROVE  CoreInv'
<1>0. TypeOK /\ LockInv /\ ShapeInv /\ DbInv /\ HandlesCurrent /\ CountInv
  BY DEF CoreInv
<1>a. PICK p \in Path : p = Head(todo[r])
  BY <1>0 DEF CreateReserve, TypeOK
<1>c. /\ mutex = r /\ mutex' = r /\ pc[r] = "create" /\ done' = done
      /\ pc' = [pc EXCEPT ![r] = "add"]
      /\ todo[r] # <<>> /\ todo' = todo /\ handle' = handle
      /\ refcount' = [refcount EXCEPT ![o] = 1]
      /\ sysdb[p] = None /\ sysdb' = [sysdb EXCEPT ![p] = o]
      /\ objPath' = [objPath EXCEPT ![o] = p]
      /\ objId' = [objId EXCEPT ![o] = NextId(used)]
      /\ used' = Allocate(used)
      /\ device' = device /\ late' = late /\ touched' = touched
      /\ faults' = faults
      /\ balance' = balance /\ underflow' = underflow
  BY <1>a DEF CreateReserve, Goto, sysVars
<1>1. /\ \A q \in Path : sysdb[q] # o
      /\ Refs(o) = {}
  BY <1>0 DEF CreateReserve, Allocated, Refs
<1>2. NextId(used) \in Ids \cup {NullId} /\ Allocate(used) \in SUBSET Ids
  BY <1>0, NextIdIsFree DEF Allocate, TypeOK
<1>3. /\ pc'[r] = "add" /\ \A s \in Request : s # r => pc'[s] = pc[s]
      /\ \A s \in Request : s # r => pc[s] \notin Critical
  BY <1>0, <1>c DEF TypeOK, LockInv
<1>4. TypeOK'
  BY <1>0, <1>2, <1>c DEF TypeOK, Critical
<1>5. LockInv'
  BY <1>0, <1>3, <1>c DEF LockInv, Critical
<1>6. ShapeInv'
  <2>1. sysdb'[p] = o /\ o # None
    BY <1>0, <1>c, ConsolidatorAssumption DEF TypeOK
  <2> QED
    BY <2>1, <1>0, <1>a, <1>3, <1>c DEF ShapeInv, Critical
<1>7. DbInv'
  BY <1>0, <1>1, <1>c DEF DbInv, TypeOK
<1>8. \A q : Refs(q)' = Refs(q)
  BY <1>c DEF Refs
<1>9. HandlesCurrent'
  <2> SUFFICES ASSUME NEW q \in Obj, Refs(q) # {}
               PROVE  objPath'[q] \in Path /\ sysdb'[objPath'[q]] = q
    BY <1>8 DEF HandlesCurrent
  <2>1. q # o /\ objPath[q] \in Path /\ sysdb[objPath[q]] = q
    BY <1>0, <1>1 DEF HandlesCurrent
  <2>2. objPath[q] # p
    BY <2>1, <1>c, ConsolidatorAssumption
  <2> QED
    BY <2>1, <2>2, <1>0, <1>c DEF TypeOK
<1>10. \A q : /\ ~BeingAdded(q) /\ ~BeingRemoved(q) /\ ~BeingRemoved(q)'
              /\ BeingAdded(q)' <=> q = o
  <2>1. sysdb'[Head(todo'[r])] = o
    BY <1>0, <1>a, <1>c DEF TypeOK
  <2> QED
    BY <2>1, <1>3, <1>c DEF BeingAdded, BeingRemoved, Critical
<1>11. CountInv'
  <2> SUFFICES ASSUME NEW q \in Path, NEW e, e = sysdb'[q], e # None
               PROVE  /\ e = o => refcount'[e] = 1 /\ Refs(e) = {}
                      /\ e # o => /\ refcount'[e] = Cardinality(Refs(e))
                                  /\ Refs(e) # {}
    BY <1>8, <1>10 DEF CountInv
  <2>1. CASE e = o
    BY <2>1, <1>0, <1>1, <1>c DEF TypeOK
  <2>2. CASE e # o
    <3>1. e = sysdb[q] /\ e \in Obj
      BY <2>2, <1>0, <1>c DEF TypeOK
    <3> QED
      BY <3>1, <2>2, <1>0, <1>10, <1>c DEF CountInv, TypeOK
  <2> QED
    BY <2>1, <2>2
<1> QED
  BY <1>4, <1>5, <1>6, <1>7, <1>9, <1>11 DEF CoreInv

(* A command's effect: on the device only if it is carried out, and only   *)
(* on the entry of its id; otherwise at most one more is under way.        *)
LEMMA SendEffect ==
  ASSUME NEW id \in Ids \cup {NullId}, NEW entry \in Path \cup {None},
         NEW out \in Outcome, TypeOK, Send(id, entry, out)
  PROVE  /\ device' \in [Ids \cup {NullId} -> Path \cup {None}]
         /\ late' \in SUBSET [id : Ids \cup {NullId}, entry : Path \cup {None}]
         /\ touched' \in SUBSET (Ids \cup {NullId})
         /\ faults' \in Nat
         /\ faults' = IF Succeeds(out) THEN faults ELSE faults + 1
         /\ \A i \in Ids \cup {NullId} :
              i # id => /\ device'[i] = device[i]
                        /\ i \in touched' <=> i \in touched
         /\ Carried(out) => device'[id] = entry
         /\ Succeeds(out) => Carried(out)
<1>1. /\ faults' = IF Succeeds(out) THEN faults ELSE faults + 1
      /\ faults' \in Nat
  BY DEF Send, CountFault, TypeOK
<1>2. late' \in SUBSET [id : Ids \cup {NullId}, entry : Path \cup {None}]
  BY DEF Send, TypeOK
<1>3. Succeeds(out) => Carried(out)
  BY DEF Succeeds, Carried
<1>4. CASE Carried(out)
  <2>1. device' = [device EXCEPT ![id] = entry] /\ touched' = touched \ {id}
    BY <1>4 DEF Send
  <2> QED
    BY <2>1, <1>1, <1>2, <1>3 DEF TypeOK
<1>5. CASE ~Carried(out)
  <2>1. device' = device /\ touched' = touched
    BY <1>5 DEF Send
  <2> QED
    BY <2>1, <1>1, <1>2, <1>3, <1>5 DEF TypeOK
<1> QED
  BY <1>4, <1>5

(* The answer to systemAdd: the object gets its first reference, or it     *)
(* leaves sysdb, where nobody had referred to it.                          *)
LEMMA CreateAnswerCore ==
  ASSUME CoreInv, NEW r \in Request, NEW out \in Outcome, CreateAnswer(r, out)
  PROVE  CoreInv'
<1>0. TypeOK /\ LockInv /\ ShapeInv /\ DbInv /\ HandlesCurrent /\ CountInv
  BY DEF CoreInv
<1>z. pc[r] = "add" /\ todo[r] # <<>> /\ mutex = r
  BY <1>0 DEF CreateAnswer, Goto, ShapeInv
<1>a. PICK p \in Path : p = Head(todo[r])
  BY <1>0, <1>z DEF TypeOK
<1>b. PICK o \in Obj : o = sysdb[p]
  BY <1>0, <1>a, <1>z DEF TypeOK, ShapeInv
<1>c. /\ mutex' = r /\ done' = done
      /\ pc' = [pc EXCEPT ![r] = "create"]
      /\ todo' = [todo EXCEPT ![r] = Tail(@)]
      /\ refcount' = refcount /\ objPath' = objPath /\ objId' = objId
      /\ balance' = balance /\ underflow' = underflow
      /\ Send(objId[o], p, out)
  BY <1>a, <1>b, <1>z DEF CreateAnswer, Goto, SystemAdd
<1>d. /\ Succeeds(out) => /\ handle' = [handle EXCEPT ![r] = Append(@, o)]
                          /\ sysdb' = sysdb /\ used' = used
      /\ ~Succeeds(out) => /\ handle' = handle
                           /\ sysdb' = [sysdb EXCEPT ![p] = None]
                           /\ used' = used \ {objId[o]}
  BY <1>a, <1>b DEF CreateAnswer, ReturnId, Deallocate
<1>1. /\ todo[r] \in Seq(Path) /\ Len(todo[r]) \in Nat /\ Len(todo[r]) >= 1
      /\ Tail(todo[r]) \in Seq(Path) /\ Len(Tail(todo[r])) = Len(todo[r]) - 1
      /\ handle[r] \in Seq(Obj) /\ Len(handle[r]) \in Nat
      /\ Len(Append(handle[r], o)) = Len(handle[r]) + 1
      /\ Append(handle[r], o) \in Seq(Obj)
  BY <1>0, <1>z DEF TypeOK
<1>2. /\ pc'[r] = "create" /\ \A s \in Request : s # r => pc'[s] = pc[s]
      /\ \A s \in Request : s # r => pc[s] \notin Critical
      /\ done[r] = 0
  BY <1>0, <1>c, <1>z DEF TypeOK, LockInv, ShapeInv
<1>3. Len(handle[r]) < MaxPaths
  BY <1>0, <1>z, RoomLeft
<1>4. TypeOK'
  <2>1. handle' \in [Request -> Seq(Obj)] /\ sysdb' \in [Path -> Obj \cup {None}]
        /\ used' \in SUBSET Ids
    BY <1>0, <1>1, <1>d DEF TypeOK
  <2>2. /\ device' \in [Ids \cup {NullId} -> Path \cup {None}]
        /\ late' \in SUBSET [id : Ids \cup {NullId}, entry : Path \cup {None}]
        /\ touched' \in SUBSET (Ids \cup {NullId})
        /\ faults' \in Nat
    <3>1. objId[o] \in Ids \cup {NullId}
      BY <1>0 DEF TypeOK
    <3> QED
      BY <3>1, <1>0, <1>c, SendEffect
  <2> QED
    BY <2>1, <2>2, <1>0, <1>1, <1>c DEF TypeOK, Critical
<1>5. LockInv'
  BY <1>0, <1>2, <1>c, <1>z DEF LockInv, Critical
<1>6. ShapeInv'
  <2>1. \A a, b, m \in Nat :
          b >= 1 /\ a + b <= m => a + 1 + (b - 1) <= m /\ a + (b - 1) <= m
    OBVIOUS
  <2>2. /\ Len(handle[r]) + 1 + (Len(todo[r]) - 1) <= MaxPaths
        /\ Len(handle[r]) + (Len(todo[r]) - 1) <= MaxPaths
    BY <2>1, <1>0, <1>1, ConsolidatorAssumption DEF ShapeInv
  <2>3. handle'[r] = handle[r] \/ handle'[r] = Append(handle[r], o)
    BY <1>0, <1>d DEF TypeOK
  <2>4. todo'[r] = Tail(todo[r]) /\ done'[r] = 0 /\ 0 <= Len(handle[r])
        /\ 0 <= Len(handle[r]) + 1
    BY <1>0, <1>1, <1>2, <1>c DEF TypeOK
  <2>5. /\ Len(handle'[r]) + Len(todo'[r]) <= MaxPaths
        /\ done'[r] <= Len(handle'[r])
    BY <2>2, <2>3, <2>4, <1>1
  <2>6. \A s \in Request : s # r =>
          handle'[s] = handle[s] /\ todo'[s] = todo[s] /\ done'[s] = done[s]
    BY <1>0, <1>c, <1>d DEF TypeOK
  <2>7. \A s \in Request : pc'[s] # "add" /\ pc'[s] # "remove"
    BY <1>2 DEF Critical
  <2> QED
    BY <2>4, <2>5, <2>6, <2>7, <1>0, <1>2 DEF ShapeInv
<1>7. DbInv'
  BY <1>0, <1>c, <1>d DEF DbInv, TypeOK
<1>8. /\ BeingAdded(o)
      /\ \A q : /\ BeingAdded(q) => q = o
                /\ ~BeingRemoved(q)
                /\ ~BeingAdded(q)' /\ ~BeingRemoved(q)'
  BY <1>2, <1>a, <1>b, <1>z DEF BeingAdded, BeingRemoved, Critical
<1>9. refcount[o] = 1 /\ Refs(o) = {} /\ o # None
  BY <1>0, <1>8, <1>b, ConsolidatorAssumption DEF CountInv
<1>10. CASE Succeeds(out)
  <2>1. /\ Refs(o)' = Refs(o) \cup {<<r, Len(handle[r]) + 1>>}
        /\ Cardinality(Refs(o)') = Cardinality(Refs(o)) + 1
        /\ \A q \in Obj \ {o} : Refs(q)' = Refs(q)
    BY <1>0, <1>2, <1>3, <1>c, <1>d, <1>10, RefsAppend
  <2>2. Cardinality(Refs(o)') = 1
    BY <2>1, <1>9, FS_EmptySet
  <2>3. HandlesCurrent'
    <3>1. objPath[o] = p
      BY <1>0, <1>b, <1>9 DEF DbInv
    <3> QED
      BY <3>1, <2>1, <1>0, <1>b, <1>c, <1>d, <1>10 DEF HandlesCurrent
  <2>4. CountInv'
    <3> SUFFICES ASSUME NEW q \in Path, NEW e, e = sysdb[q], e # None
                 PROVE  refcount[e] = Cardinality(Refs(e)') /\ Refs(e)' # {}
      BY <1>8, <1>c, <1>d, <1>10 DEF CountInv
    <3>1. CASE e = o
      BY <3>1, <2>1, <2>2, <1>9
    <3>2. CASE e # o
      BY <3>2, <2>1, <1>0, <1>8 DEF CountInv, TypeOK
    <3> QED
      BY <3>1, <3>2
  <2> QED
    BY <2>3, <2>4, <1>4, <1>5, <1>6, <1>7 DEF CoreInv
<1>11. CASE ~Succeeds(out)
  <2>1. \A q : Refs(q)' = Refs(q)
    BY <1>c, <1>d, <1>11 DEF Refs
  <2>2. HandlesCurrent'
    BY <2>1, <1>0, <1>9, <1>b, <1>c, <1>d, <1>11 DEF HandlesCurrent, TypeOK
  <2>3. CountInv'
    <3> SUFFICES ASSUME NEW q \in Path, NEW e, e = sysdb'[q], e # None
                 PROVE  refcount[e] = Cardinality(Refs(e)) /\ Refs(e) # {}
      BY <2>1, <1>8, <1>c DEF CountInv
    <3>1. q # p /\ e = sysdb[q]
      BY <1>0, <1>d, <1>11 DEF TypeOK
    <3>2. e # o
      BY <3>1, <1>0, <1>b, <1>9 DEF DbInv
    <3> QED
      BY <3>1, <3>2, <1>0, <1>8 DEF CountInv
  <2> QED
    BY <2>2, <2>3, <1>4, <1>5, <1>6, <1>7 DEF CoreInv
<1> QED
  BY <1>10, <1>11

(* Returning from addRequest touches no object.                            *)
LEMMA AddReturnCore ==
  ASSUME CoreInv, NEW r \in Request, AddReturn(r)
  PROVE  CoreInv'
<1>0. TypeOK /\ LockInv /\ ShapeInv /\ DbInv /\ HandlesCurrent /\ CountInv
  BY DEF CoreInv
<1>c. /\ mutex = r /\ mutex' = None /\ pc[r] = "create" /\ todo[r] = <<>>
      /\ pc' = [pc EXCEPT ![r] = "live"]
      /\ todo' = todo /\ handle' = handle /\ done' = done
      /\ sysdb' = sysdb /\ objPath' = objPath /\ objId' = objId
      /\ refcount' = refcount /\ used' = used
      /\ device' = device /\ late' = late /\ touched' = touched
      /\ faults' = faults /\ balance' = balance + 1 /\ underflow' = underflow
  BY DEF AddReturn, Goto, Unlock, objVars, sysVars
<1>1. /\ pc'[r] = "live" /\ \A s \in Request : s # r => pc'[s] = pc[s]
      /\ \A s \in Request : s # r => pc[s] \notin Critical
  BY <1>0, <1>c DEF TypeOK, LockInv
<1>2. TypeOK'
  BY <1>0, <1>c DEF TypeOK, Critical
<1>3. LockInv'
  BY <1>1, <1>c, ConsolidatorAssumption DEF LockInv, Critical
<1>4. ShapeInv'
  BY <1>0, <1>1, <1>c DEF ShapeInv
<1>5. \A q : Refs(q)' = Refs(q)
  BY <1>c DEF Refs
<1>6. \A q : /\ ~BeingAdded(q) /\ ~BeingRemoved(q)
             /\ ~BeingAdded(q)' /\ ~BeingRemoved(q)'
  BY <1>1, <1>c DEF BeingAdded, BeingRemoved, Critical
<1>7. DbInv' /\ HandlesCurrent' /\ CountInv'
  BY <1>0, <1>5, <1>6, <1>c DEF DbInv, HandlesCurrent, CountInv
<1> QED
  BY <1>2, <1>3, <1>4, <1>7 DEF CoreInv

(* Taking the lock to remove a request touches no object.                  *)
LEMMA RemoveRequestCore ==
  ASSUME CoreInv, NEW r \in Request, RemoveRequest(r)
  PROVE  CoreInv'
<1>0. TypeOK /\ LockInv /\ ShapeInv /\ DbInv /\ HandlesCurrent /\ CountInv
  BY DEF CoreInv
<1>c. /\ mutex = None /\ mutex' = r /\ pc[r] = "live"
      /\ pc' = [pc EXCEPT ![r] = "destroy"]
      /\ todo' = todo /\ handle' = handle /\ done' = done
      /\ sysdb' = sysdb /\ objPath' = objPath /\ objId' = objId
      /\ refcount' = refcount /\ used' = used
      /\ device' = device /\ late' = late /\ touched' = touched
      /\ faults' = faults /\ balance' = balance /\ underflow' = underflow
  BY DEF RemoveRequest, Goto, Lock, objVars, sysVars
<1>1. /\ pc'[r] = "destroy" /\ \A s \in Request : s # r => pc'[s] = pc[s]
      /\ \A s \in Request : pc[s] \notin Critical
  BY <1>0, <1>c, ConsolidatorAssumption DEF TypeOK, LockInv
<1>2. TypeOK'
  BY <1>0, <1>c DEF TypeOK, Critical
<1>3. LockInv'
  BY <1>1, <1>c, ConsolidatorAssumption DEF LockInv, Critical
<1>4. ShapeInv'
  BY <1>0, <1>1, <1>c DEF ShapeInv
<1>5. \A q : Refs(q)' = Refs(q)
  BY <1>c DEF Refs
<1>6. \A q : /\ ~BeingAdded(q) /\ ~BeingRemoved(q)
             /\ ~BeingAdded(q)' /\ ~BeingRemoved(q)'
  BY <1>1, <1>c DEF BeingAdded, BeingRemoved, Critical
<1>7. DbInv' /\ HandlesCurrent' /\ CountInv'
  BY <1>0, <1>5, <1>6, <1>c DEF DbInv, HandlesCurrent, CountInv
<1> QED
  BY <1>2, <1>3, <1>4, <1>7 DEF CoreInv

(* The object at the index of removeRequest's loop is in sysdb, under its  *)
(* own path, and its count is the number of references to it.              *)
LEMMA LoopObject ==
  ASSUME CoreInv, NEW r \in Request, mutex = r, pc[r] = "destroy",
         done[r] < Len(handle[r]),
         NEW o, o = handle[r][done[r] + 1]
  PROVE  /\ o \in Obj /\ objPath[o] \in Path /\ sysdb[objPath[o]] = o
         /\ refcount[o] = Cardinality(Refs(o)) /\ refcount[o] \in Nat \ {0}
         /\ Len(handle[r]) <= MaxPaths
<1>0. TypeOK /\ LockInv /\ ShapeInv /\ HandlesCurrent /\ CountInv
  BY DEF CoreInv
<1>1. /\ handle[r] \in Seq(Obj) /\ done[r] \in Nat /\ Len(handle[r]) \in Nat
      /\ MaxPaths \in Nat /\ done[r] + 1 \in DOMAIN handle[r] /\ o \in Obj
  BY <1>0, ConsolidatorAssumption DEF TypeOK
<1>2. Len(handle[r]) <= MaxPaths
  <2>1. todo[r] = <<>> /\ Len(handle[r]) + Len(todo[r]) <= MaxPaths
    BY <1>0 DEF ShapeInv
  <2>2. Len(todo[r]) = 0
    BY <2>1
  <2> QED
    BY <2>1, <2>2, <1>1
<1>3. <<r, done[r] + 1>> \in Refs(o)
  BY <1>1, <1>2 DEF Refs
<1>4. objPath[o] \in Path /\ sysdb[objPath[o]] = o /\ o # None
  BY <1>0, <1>1, <1>3, ConsolidatorAssumption DEF HandlesCurrent
<1>5. ~BeingAdded(o) /\ ~BeingRemoved(o)
  BY <1>0 DEF BeingAdded, BeingRemoved, LockInv, Critical
<1>6. refcount[o] = Cardinality(Refs(o)) /\ Refs(o) # {}
  BY <1>0, <1>4, <1>5 DEF CountInv
<1>7. IsFiniteSet(Refs(o)) /\ Cardinality(Refs(o)) \in Nat
  BY RefsFinite
<1>8. Cardinality(Refs(o)) # 0
  BY <1>6, <1>7, FS_EmptySet
<1> QED
  BY <1>1, <1>2, <1>4, <1>6, <1>7, <1>8

(* Dropping a shared reference: the count never was 0, so destroy does not *)
(* report an underflow, and one reference is left.                         *)
LEMMA DestroySharedCore ==
  ASSUME CoreInv, NEW r \in Request, DestroyShared(r)
  PROVE  CoreInv' /\ underflow' = underflow
<1>0. TypeOK /\ LockInv /\ ShapeInv /\ DbInv /\ HandlesCurrent /\ CountInv
  BY DEF CoreInv
<1>z. mutex = r /\ pc[r] = "destroy" /\ done[r] < Len(handle[r])
  BY DEF DestroyShared, Goto
<1>a. PICK o : o = handle[r][done[r] + 1]
  OBVIOUS
<1>b. /\ o \in Obj /\ objPath[o] \in Path /\ sysdb[objPath[o]] = o
      /\ refcount[o] = Cardinality(Refs(o)) /\ refcount[o] \in Nat \ {0}
      /\ Len(handle[r]) <= MaxPaths
  BY <1>z, <1>a, LoopObject
<1>c. /\ mutex' = r /\ pc' = [pc EXCEPT ![r] = "destroy"]
      /\ refcount[o] # 1 /\ refcount' = [refcount EXCEPT ![o] = @ - 1]
      /\ underflow' = (underflow \/ refcount[o] = 0)
      /\ todo' = todo /\ handle' = handle
      /\ done' = [done EXCEPT ![r] = @ + 1]
      /\ sysdb' = sysdb /\ objPath' = objPath /\ objId' = objId
      /\ used' = used
      /\ device' = device /\ late' = late /\ touched' = touched
      /\ faults' = faults /\ balance' = balance
  BY <1>a, <1>b, <1>z DEF DestroyShared, Goto, LastRef, DecRef, sysVars
<1>1. pc' = pc /\ underflow' = underflow
  BY <1>0, <1>z, <1>b, <1>c DEF TypeOK
<1>2. refcount[o] - 1 \in Nat \ {0} /\ refcount'[o] = refcount[o] - 1
      /\ \A q \in Obj : q # o => refcount'[q] = refcount[q]
  BY <1>0, <1>b, <1>c DEF TypeOK
<1>3. TypeOK'
  BY <1>0, <1>1, <1>2, <1>b, <1>c DEF TypeOK
<1>4. LockInv'
  BY <1>0, <1>1, <1>c, <1>z DEF LockInv
<1>5. ShapeInv'
  <2>1. done'[r] = done[r] + 1 /\ \A s \in Request : s # r => done'[s] = done[s]
    BY <1>0, <1>c DEF TypeOK
  <2>2. done[r] + 1 <= Len(handle[r])
    BY <1>0, <1>z DEF TypeOK
  <2> QED
    BY <2>1, <2>2, <1>0, <1>1, <1>c, <1>z, ZenonT(60) DEF ShapeInv
<1>6. /\ Cardinality(Refs(o)') = Cardinality(Refs(o)) - 1
      /\ Refs(o)' \subseteq Refs(o)
      /\ \A q \in Obj \ {o} : Refs(q)' = Refs(q)
  BY <1>0, <1>a, <1>b, <1>c, <1>z, RefsDrop
<1>7. Refs(o)' # {}
  BY <1>2, <1>6, <1>b, FS_EmptySet
<1>8. \A q : /\ ~BeingAdded(q) /\ ~BeingRemoved(q)
             /\ ~BeingAdded(q)' /\ ~BeingRemoved(q)'
  BY <1>0, <1>1, <1>z DEF BeingAdded, BeingRemoved, LockInv, Critical
<1>9. DbInv' /\ HandlesCurrent'
  BY <1>0, <1>6, <1>b, <1>c DEF DbInv, HandlesCurrent
<1>10. CountInv'
  <2> SUFFICES ASSUME NEW q \in Path, NEW e, e = sysdb[q], e # None
               PROVE  refcount'[e] = Cardinality(Refs(e)') /\ Refs(e)' # {}
    BY <1>8, <1>c DEF CountInv
  <2>1. CASE e = o
    BY <2>1, <1>2, <1>6, <1>7, <1>b
  <2>2. CASE e # o
    BY <2>2, <1>0, <1>2, <1>6, <1>8 DEF CountInv, TypeOK
  <2> QED
    BY <2>1, <2>2
<1> QED
  BY <1>1, <1>3, <1>4, <1>5, <1>9, <1>10 DEF CoreInv

(* Dropping the last reference: the object is still in sysdb, and only the *)
(* remover refers to it.                                                   *)
LEMMA DestroyLastCore ==
  ASSUME CoreInv, NEW r \in Request, DestroyLast(r)
  PROVE  CoreInv'
<1>0. TypeOK /\ LockInv /\ ShapeInv /\ DbInv /\ HandlesCurrent /\ CountInv
  BY DEF CoreInv
<1>z. mutex = r /\ pc[r] = "destroy" /\ done[r] < Len(handle[r])
  BY DEF DestroyLast, Goto
<1>a. PICK o : o = handle[r][done[r] + 1]
  OBVIOUS
<1>b. /\ o \in Obj /\ objPath[o] \in Path /\ sysdb[objPath[o]] = o
      /\ refcount[o] = Cardinality(Refs(o))
  BY <1>z, <1>a, LoopObject
<1>c. /\ mutex' = r /\ pc' = [pc EXCEPT ![r] = "remove"]
      /\ refcount[o] = 1 /\ refcount' = [refcount EXCEPT ![o] = 0]
      /\ todo' = todo /\ handle' = handle /\ done' = done
      /\ sysdb' = sysdb /\ objPath' = objPath /\ objId' = objId
      /\ used' = used
      /\ device' = device /\ late' = late /\ touched' = touched
      /\ faults' = faults /\ balance' = balance /\ underflow' = underflow
  BY <1>a, <1>b, <1>z DEF DestroyLast, Goto, LastRef, DecRef, sysVars
<1>1. /\ pc'[r] = "remove" /\ \A s \in Request : s # r => pc'[s] = pc[s]
      /\ \A s \in Request : s # r => pc[s] \notin Critical
  BY <1>0, <1>c, <1>z DEF TypeOK, LockInv
<1>2. TypeOK'
  BY <1>0, <1>c DEF TypeOK, Critical
<1>3. LockInv'
  BY <1>0, <1>1, <1>c DEF LockInv, Critical
<1>4. ShapeInv'
  BY <1>0, <1>1, <1>c, <1>z DEF ShapeInv
<1>5. \A q : Refs(q)' = Refs(q)
  BY <1>c DEF Refs
<1>6. DbInv' /\ HandlesCurrent'
  BY <1>0, <1>5, <1>c DEF DbInv, HandlesCurrent
<1>7. \A q : /\ ~BeingAdded(q) /\ ~BeingRemoved(q)
             /\ ~BeingAdded(q)' /\ (BeingRemoved(q)' <=> q = o)
  BY <1>1, <1>a, <1>c, <1>z DEF BeingAdded, BeingRemoved, Critical
<1>8. CountInv'
  <2> SUFFICES ASSUME NEW q \in Path, NEW e, e = sysdb[q], e # None
               PROVE  /\ e = o => refcount'[e] = 0 /\ Cardinality(Refs(e)) = 1
                      /\ e # o => /\ refcount'[e] = Cardinality(Refs(e))
                                  /\ Refs(e) # {}
    BY <1>5, <1>7, <1>c DEF CountInv
  <2>1. CASE e = o
    BY <2>1, <1>0, <1>b, <1>c DEF TypeOK
  <2>2. CASE e # o
    BY <2>2, <1>0, <1>7, <1>c DEF CountInv, TypeOK
  <2> QED
    BY <2>1, <2>2
<1> QED
  BY <1>2, <1>3, <1>4, <1>6, <1>8 DEF CoreInv

(* The object whose systemRemove is under way is the one sysdb has for its *)
(* path, and the remover's is the only reference to it.                    *)
LEMMA RemovedObject ==
  ASSUME CoreInv, NEW r \in Request, mutex = r, pc[r] = "remove",
         NEW o, o = handle[r][done[r] + 1]
  PROVE  /\ o \in Obj /\ objPath[o] \in Path /\ sysdb[objPath[o]] = o
         /\ Refs(o) = {<<r, done[r] + 1>>}
         /\ done[r] < Len(handle[r]) /\ Len(handle[r]) <= MaxPaths
<1>0. TypeOK /\ ShapeInv /\ HandlesCurrent /\ CountInv
  BY DEF CoreInv
<1>1. /\ handle[r] \in Seq(Obj) /\ done[r] \in Nat /\ Len(handle[r]) \in Nat
      /\ done[r] < Len(handle[r])
      /\ MaxPaths \in Nat /\ done[r] + 1 \in DOMAIN handle[r] /\ o \in Obj
  BY <1>0, ConsolidatorAssumption DEF TypeOK, ShapeInv
<1>2. Len(handle[r]) <= MaxPaths
  <2>1. todo[r] = <<>> /\ Len(handle[r]) + Len(todo[r]) <= MaxPaths
    BY <1>0 DEF ShapeInv
  <2>2. Len(todo[r]) = 0
    BY <2>1
  <2> QED
    BY <2>1, <2>2, <1>1
<1>3. <<r, done[r] + 1>> \in Refs(o)
  BY <1>1, <1>2 DEF Refs
<1>4. objPath[o] \in Path /\ sysdb[objPath[o]] = o /\ o # None
  BY <1>0, <1>1, <1>3, ConsolidatorAssumption DEF HandlesCurrent
<1>5. Cardinality(Refs(o)) = 1
  BY <1>0, <1>4 DEF CountInv, BeingRemoved
<1>6. IsFiniteSet(Refs(o))
  BY RefsFinite
<1>7. \E x : Refs(o) = {x}
  BY <1>5, <1>6, FS_Singleton
<1> QED
  BY <1>1, <1>2, <1>3, <1>4, <1>7

(* The answer to systemRemove: the object leaves sysdb with its reference. *)
LEMMA DestroyAnswerCore ==
  ASSUME CoreInv, NEW r \in Request, NEW out \in Outcome, DestroyAnswer(r, out)
  PROVE  CoreInv'
<1>0. TypeOK /\ LockInv /\ ShapeInv /\ DbInv /\ HandlesCurrent /\ CountInv
  BY DEF CoreInv
<1>z. mutex = r /\ pc[r] = "remove"
  BY DEF DestroyAnswer, Goto
<1>a. PICK o : o = handle[r][done[r] + 1]
  OBVIOUS
<1>b. /\ o \in Obj /\ objPath[o] \in Path /\ sysdb[objPath[o]] = o
      /\ Refs(o) = {<<r, done[r] + 1>>} /\ o # None
      /\ done[r] < Len(handle[r]) /\ Len(handle[r]) <= MaxPaths
  BY <1>z, <1>a, RemovedObject, ConsolidatorAssumption
<1>c. /\ mutex' = r /\ pc' = [pc EXCEPT ![r] = "destroy"]
      /\ todo' = todo /\ handle' = handle
      /\ done' = [done EXCEPT ![r] = @ + 1]
      /\ sysdb' = [sysdb EXCEPT ![objPath[o]] = None]
      /\ used' = used \ {objId[o]}
      /\ refcount' = refcount /\ objPath' = objPath /\ objId' = objId
      /\ balance' = balance /\ underflow' = underflow
  BY <1>a, <1>b, <1>z DEF DestroyAnswer, Goto, ReturnId, Deallocate
<1>d. Send(objId[o], None, out)
  BY <1>a, <1>b DEF DestroyAnswer, SystemRemove
<1>1. /\ pc'[r] = "destroy" /\ \A s \in Request : s # r => pc'[s] = pc[s]
      /\ \A s \in Request : s # r => pc[s] \notin Critical
  BY <1>0, <1>c, <1>z DEF TypeOK, LockInv
<1>2. TypeOK'
  <2>1. /\ device' \in [Ids \cup {NullId} -> Path \cup {None}]
        /\ late' \in SUBSET [id : Ids \cup {NullId}, entry : Path \cup {None}]
        /\ touched' \in SUBSET (Ids \cup {NullId})
        /\ faults' \in Nat
    <3>1. objId[o] \in Ids \cup {NullId}
      BY <1>0, <1>b DEF TypeOK
    <3> QED
      BY <3>1, <1>0, <1>d, SendEffect
  <2>2. /\ sysdb' \in [Path -> Obj \cup {None}] /\ used' \in SUBSET Ids
        /\ done' \in [Request -> Nat]
        /\ pc' \in [Request -> Critical \cup {"none", "live"}]
    BY <1>0, <1>b, <1>c DEF TypeOK, Critical
  <2> QED
    BY <2>1, <2>2, <1>0, <1>c DEF TypeOK
<1>3. LockInv'
  BY <1>0, <1>1, <1>c DEF LockInv, Critical
<1>4. ShapeInv'
  <2>1. done'[r] = done[r] + 1 /\ \A s \in Request : s # r => done'[s] = done[s]
    BY <1>0, <1>c DEF TypeOK
  <2>2. done[r] + 1 <= Len(handle[r])
    BY <1>0, <1>b DEF TypeOK
  <2> QED
    BY <2>1, <2>2, <1>0, <1>1, <1>c, <1>z, ZenonT(60) DEF ShapeInv, Critical
<1>5. /\ Refs(o)' = {}
      /\ \A q \in Obj \ {o} : Refs(q)' = Refs(q)
  BY <1>0, <1>a, <1>b, <1>c, RefsDrop
<1>6. \A q : /\ ~BeingAdded(q) /\ (BeingRemoved(q) <=> q = o)
             /\ ~BeingAdded(q)' /\ ~BeingRemoved(q)'
  BY <1>1, <1>a, <1>c, <1>z DEF BeingAdded, BeingRemoved, Critical
<1>7. DbInv'
  BY <1>0, <1>b, <1>c DEF DbInv, TypeOK
<1>8. HandlesCurrent'
  <2> SUFFICES ASSUME NEW q \in Obj, Refs(q)' # {}
               PROVE  objPath[q] \in Path /\ sysdb'[objPath[q]] = q
    BY <1>c DEF HandlesCurrent
  <2>1. q # o /\ objPath[q] \in Path /\ sysdb[objPath[q]] = q
    BY <1>0, <1>5 DEF HandlesCurrent
  <2> QED
    BY <2>1, <1>0, <1>b, <1>c DEF TypeOK
<1>9. CountInv'
  <2> SUFFICES ASSUME NEW q \in Path, NEW e, e = sysdb'[q], e # None
               PROVE  refcount[e] = Cardinality(Refs(e)') /\ Refs(e)' # {}
    BY <1>6, <1>c DEF CountInv
  <2>1. q # objPath[o] /\ e = sysdb[q] /\ e \in Obj
    BY <1>0, <1>b, <1>c DEF TypeOK
  <2>2. e # o
    BY <2>1, <1>0 DEF DbInv
  <2> QED
    BY <2>1, <2>2, <1>0, <1>5, <1>6 DEF CountInv
<1> QED
  BY <1>2, <1>3, <1>4, <1>7, <1>8, <1>9 DEF CoreInv

(* Deleting a handle all of whose references were destroyed.               *)
LEMMA RemoveReturnCore ==
  ASSUME CoreInv, NEW r \in Request, RemoveReturn(r)
  PROVE  CoreInv'
<1>0. TypeOK /\ LockInv /\ ShapeInv /\ DbInv /\ HandlesCurrent /\ CountInv
  BY DEF CoreInv
<1>c. /\ mutex = r /\ mutex' = None /\ pc[r] = "destroy"
      /\ pc' = [pc EXCEPT ![r] = "none"]
      /\ done[r] = Len(handle[r]) /\ todo' = todo
      /\ handle' = [handle EXCEPT ![r] = <<>>]
      /\ done' = [done EXCEPT ![r] = 0]
      /\ sysdb' = sysdb /\ objPath' = objPath /\ objId' = objId
      /\ refcount' = refcount /\ used' = used
      /\ device' = device /\ late' = late /\ touched' = touched
      /\ faults' = faults /\ balance' = balance - 1 /\ underflow' = underflow
  BY DEF RemoveReturn, Goto, Unlock, objVars, sysVars
<1>1. /\ pc'[r] = "none" /\ \A s \in Request : s # r => pc'[s] = pc[s]
      /\ \A s \in Request : s # r => pc[s] \notin Critical
      /\ handle'[r] = <<>> /\ done'[r] = 0
      /\ \A s \in Request : s # r => handle'[s] = handle[s] /\ done'[s] = done[s]
  BY <1>0, <1>c DEF TypeOK, LockInv
<1>2. TypeOK'
  BY <1>0, <1>c DEF TypeOK, Critical
<1>3. LockInv'
  BY <1>1, <1>c, ConsolidatorAssumption DEF LockInv, Critical
<1>4. ShapeInv'
  <2>1. todo'[r] = <<>>
    BY <1>0, <1>c DEF ShapeInv
  <2>2. Len(<<>>) = 0 /\ 0 + 0 <= MaxPaths /\ 0 <= 0
    BY ConsolidatorAssumption
  <2>3. Len(handle'[r]) + Len(todo'[r]) <= MaxPaths /\ done'[r] <= Len(handle'[r])
    BY <2>1, <2>2, <1>1
  <2> QED
    BY <2>1, <2>3, <1>0, <1>1, <1>c, ZenonT(60) DEF ShapeInv
<1>5. \A q : Refs(q)' = Refs(q)
  <2> SUFFICES ASSUME NEW q, NEW x \in Request \X (1 .. MaxPaths)
               PROVE  x \in Refs(q)' <=> x \in Refs(q)
    BY DEF Refs
  <2>1. CASE x[1] # r
    BY <2>1, <1>1 DEF Refs
  <2>2. CASE x[1] = r
    <3>1. handle[r] \in Seq(Obj) /\ DOMAIN handle[r] = 1 .. Len(handle[r])
          /\ Len(handle[r]) \in Nat /\ DOMAIN handle'[r] = {}
      BY <1>0, <1>1 DEF TypeOK
    <3> QED
      BY <3>1, <2>2, <1>1, <1>c DEF Refs
  <2> QED
    BY <2>1, <2>2
<1>6. \A q : /\ ~BeingAdded(q) /\ ~BeingRemoved(q)
             /\ ~BeingAdded(q)' /\ ~BeingRemoved(q)'
  BY <1>1, <1>c DEF BeingAdded, BeingRemoved, Critical
<1>7. DbInv' /\ HandlesCurrent' /\ CountInv'
  BY <1>0, <1>5, <1>6, <1>c DEF DbInv, HandlesCurrent, CountInv
<1> QED
  BY <1>2, <1>3, <1>4, <1>7 DEF CoreInv

-----------------------------------------------------------------------------
(* Ids and device: only three actions move them.                           *)

(* A command about the object is under way.                                *)
Busy(o) == BeingAdded(o) \/ BeingRemoved(o)

(* The part of the invariant that is about ids and the device.             *)
ResourceInv == IdsAccounted /\ LiveSensorConfigured /\ NoOrphanWithoutFault

(* A step that leaves sysdb, the ids and the device alone, and does not    *)
(* end a command, preserves what is said of them.                          *)
LEMMA ResourceFrame ==
  ASSUME ResourceInv, \A o : Busy(o) => Busy(o)',
         UNCHANGED <<sysdb, objId, used, device, touched, faults>>
  PROVE  ResourceInv'
<1>1. IdsAccounted'
  BY DEF ResourceInv, IdsAccounted
<1>2. LiveSensorConfigured'
  BY DEF ResourceInv, LiveSensorConfigured, Busy
<1>3. NoOrphanWithoutFault'
  BY DEF ResourceInv, NoOrphanWithoutFault
<1> QED
  BY <1>1, <1>2, <1>3 DEF ResourceInv

(* No command is under way while the lock is free or its holder is at the  *)
(* head of a loop.                                                         *)
LEMMA NotBusy ==
  ASSUME LockInv, NEW r \in Request,
         mutex = None \/ (mutex = r /\ pc[r] \in {"create", "destroy"})
  PROVE  \A o : ~Busy(o)
  BY ConsolidatorAssumption
     DEF LockInv, Critical, Busy, BeingAdded, BeingRemoved

(* A reserved id is new, so the ids stay distinct and accounted for.       *)
LEMMA CreateReserveResource ==
  ASSUME CoreInv, ResourceInv, NEW r \in Request, NEW o \in Obj,
         CreateReserve(r, o)
  PROVE  ResourceInv'
<1>0. TypeOK /\ LockInv /\ DbInv /\ IdsAccounted /\ LiveSensorConfigured
      /\ NoOrphanWithoutFault
  BY DEF CoreInv, ResourceInv
<1>a. PICK p \in Path : p = Head(todo[r])
  BY <1>0 DEF CreateReserve, TypeOK
<1>c. /\ mutex = r /\ pc[r] = "create" /\ pc' = [pc EXCEPT ![r] = "add"]
      /\ todo' = todo /\ sysdb[p] = None /\ sysdb' = [sysdb EXCEPT ![p] = o]
      /\ objId' = [objId EXCEPT ![o] = NextId(used)]
      /\ used' = used \cup ({NextId(used)} \ {NullId})
      /\ device' = device /\ late' = late /\ touched' = touched
      /\ faults' = faults
      /\ \A q \in Path : sysdb[q] # o
  BY <1>a DEF CreateReserve, Goto, sysVars, Allocate, Allocated
<1>1. /\ sysdb'[p] = o /\ o # None /\ objId'[o] = NextId(used)
      /\ \A q \in Path \ {p} : sysdb'[q] = sysdb[q]
      /\ \A q \in Path \ {p} : sysdb[q] # None =>
           objId'[sysdb[q]] = objId[sysdb[q]]
  BY <1>0, <1>c, ConsolidatorAssumption DEF TypeOK
<1>2. \A q \in Path : sysdb[q] # None /\ objId[sysdb[q]] # NullId =>
        objId[sysdb[q]] \in used
  BY <1>0 DEF IdsAccounted
<1>3. /\ NextId(used) \in Ids \cup {NullId}
      /\ NextId(used) # NullId => NextId(used) \notin used
  BY NextIdIsFree
<1>4. IdsAccounted'
  <2>1. ASSUME NEW q1 \in Path, NEW q2 \in Path, q1 # q2,
               sysdb'[q1] # None, sysdb'[q2] # None,
               objId'[sysdb'[q1]] = objId'[sysdb'[q2]]
        PROVE  objId'[sysdb'[q1]] = NullId
    <3>1. CASE q1 = p
      BY <2>1, <3>1, <1>1, <1>2, <1>3
    <3>2. CASE q2 = p
      BY <2>1, <3>2, <1>1, <1>2, <1>3
    <3>3. CASE q1 # p /\ q2 # p
      BY <2>1, <3>3, <1>0, <1>1 DEF IdsAccounted
    <3> QED
      BY <3>1, <3>2, <3>3
  <2>2. used = {objId[sysdb[q]] : q \in {x \in Path : sysdb[x] # None}}
               \ {NullId}
    BY <1>0 DEF IdsAccounted
  <2>3. used' = {objId'[sysdb'[q]] : q \in {x \in Path : sysdb'[x] # None}}
                \ {NullId}
    <3>1. ASSUME NEW i, i \in used'
          PROVE  i # NullId /\ \E q \in Path : sysdb'[q] # None /\ objId'[sysdb'[q]] = i
      <4>1. CASE i \in used
        <5>1. i # NullId
          BY <4>1, <2>2
        <5>2. PICK q \in Path : sysdb[q] # None /\ objId[sysdb[q]] = i
          BY <4>1, <2>2
        <5>3. q # p
          BY <5>2, <1>c
        <5> QED
          BY <5>1, <5>2, <5>3, <1>1
      <4>2. CASE i \notin used
        BY <4>2, <3>1, <1>1, <1>c
      <4> QED
        BY <4>1, <4>2
    <3>2. ASSUME NEW q \in Path, sysdb'[q] # None, objId'[sysdb'[q]] # NullId
          PROVE  objId'[sysdb'[q]] \in used'
      <4>1. CASE q = p
        BY <4>1, <3>2, <1>1, <1>c
      <4>2. CASE q # p
        BY <4>2, <3>2, <1>1, <1>2, <1>c
      <4> QED
        BY <4>1, <4>2
    <3> QED
      BY <3>1, <3>2
  <2> QED
    BY <2>1, <2>3 DEF IdsAccounted
<1>5. BeingAdded(o)'
  <2>1. pc'[r] = "add" /\ sysdb'[Head(todo'[r])] = o
    BY <1>0, <1>1, <1>a, <1>c DEF TypeOK
  <2> QED
    BY <2>1 DEF BeingAdded
<1>6. LiveSensorConfigured'
  <2>1. \A q \in Path : sysdb[q] # None =>
          \/ objId[sysdb[q]] = NullId \/ objId[sysdb[q]] \in touched
          \/ device[objId[sysdb[q]]] = q
    BY <1>0, <1>c, NotBusy DEF LiveSensorConfigured, Busy
  <2> QED
    BY <2>1, <1>1, <1>5, <1>c DEF LiveSensorConfigured
<1>7. NoOrphanWithoutFault'
  <2> SUFFICES ASSUME faults = 0, NEW i \in Ids, device[i] # None
               PROVE  \E q \in Path : /\ sysdb'[q] # None
                                      /\ objId'[sysdb'[q]] = i
                                      /\ device[i] = q
    BY <1>c DEF NoOrphanWithoutFault
  <2>1. PICK q \in Path : /\ sysdb[q] # None
                          /\ objId[sysdb[q]] = i
                          /\ device[i] = q
    BY <1>0 DEF NoOrphanWithoutFault
  <2>2. q # p
    BY <2>1, <1>c
  <2> QED
    BY <2>1, <2>2, <1>1
<1> QED
  BY <1>4, <1>6, <1>7 DEF ResourceInv

(* An entry leaves sysdb with its id.                                      *)
LEMMA IdsAfterErase ==
  ASSUME CoreInv, IdsAccounted, NEW p \in Path, sysdb[p] # None,
         sysdb' = [sysdb EXCEPT ![p] = None], objId' = objId,
         used' = used \ {objId[sysdb[p]]}
  PROVE  IdsAccounted'
<1>0. TypeOK
  BY DEF CoreInv
<1>1. sysdb'[p] = None /\ \A q \in Path \ {p} : sysdb'[q] = sysdb[q]
  BY <1>0 DEF TypeOK
<1>2. ASSUME NEW q1 \in Path, NEW q2 \in Path, q1 # q2,
             sysdb'[q1] # None, sysdb'[q2] # None,
             objId'[sysdb'[q1]] = objId'[sysdb'[q2]]
      PROVE  objId'[sysdb'[q1]] = NullId
  BY <1>1, <1>2 DEF IdsAccounted
<1>3. used' = {objId'[sysdb'[q]] : q \in {x \in Path : sysdb'[x] # None}}
              \ {NullId}
  <2>1. used = {objId[sysdb[q]] : q \in {x \in Path : sysdb[x] # None}}
               \ {NullId}
    BY DEF IdsAccounted
  <2>2. {x \in Path : sysdb'[x] # None} = {x \in Path : sysdb[x] # None} \ {p}
    BY <1>1
  <2>3. \A q \in {x \in Path : sysdb[x] # None} \ {p} :
          \/ objId[sysdb[q]] = NullId
          \/ objId[sysdb[q]] # objId[sysdb[p]]
    BY DEF IdsAccounted
  <2> QED
    BY <2>1, <2>2, <2>3, <1>1
<1> QED
  BY <1>2, <1>3 DEF IdsAccounted

(* The answer to systemAdd writes one sensor name, which no other live     *)
(* path uses.                                                              *)
LEMMA CreateAnswerResource ==
  ASSUME CoreInv, ResourceInv, NEW r \in Request, NEW out \in Outcome,
         CreateAnswer(r, out)
  PROVE  ResourceInv'
<1>0. TypeOK /\ LockInv /\ ShapeInv /\ DbInv /\ IdsAccounted
      /\ LiveSensorConfigured /\ NoOrphanWithoutFault
  BY DEF CoreInv, ResourceInv
<1>z. pc[r] = "add" /\ todo[r] # <<>> /\ mutex = r
  BY <1>0 DEF CreateAnswer, Goto, ShapeInv
<1>a. PICK p \in Path : p = Head(todo[r])
  BY <1>0, <1>z DEF TypeOK
<1>b. PICK o \in Obj : o = sysdb[p] /\ o # None
  BY <1>0, <1>a, <1>z DEF TypeOK, ShapeInv
<1>c. /\ objId' = objId /\ Send(objId[o], p, out)
      /\ Succeeds(out) => sysdb' = sysdb /\ used' = used
      /\ ~Succeeds(out) => /\ sysdb' = [sysdb EXCEPT ![p] = None]
                           /\ used' = used \ {objId[sysdb[p]]}
  BY <1>a, <1>b, <1>z DEF CreateAnswer, SystemAdd, ReturnId, Deallocate
<1>1. \A q \in Path \ {p} : sysdb[q] # None =>
        \/ objId[sysdb[q]] = NullId
        \/ /\ objId[sysdb[q]] # objId[o]
           /\ objId[sysdb[q]] \in touched \/ device[objId[sysdb[q]]] = q
  <2>1. \A e : Busy(e) => e = o
    BY <1>0, <1>a, <1>b, <1>z, OnlyHolder DEF Busy
  <2>2. \A q \in Path \ {p} : sysdb[q] # None => sysdb[q] # o
    BY <1>0, <1>b DEF DbInv
  <2> QED
    BY <2>1, <2>2, <1>0, <1>b DEF IdsAccounted, LiveSensorConfigured, Busy
<1>2. /\ objId[o] \in Ids \cup {NullId}
      /\ \A q \in Path : sysdb[q] # None => objId[sysdb[q]] \in Ids \cup {NullId}
  BY <1>0 DEF TypeOK
<1>5. /\ faults \in Nat
      /\ faults' = IF Succeeds(out) THEN faults ELSE faults + 1
      /\ \A i \in Ids \cup {NullId} :
           i # objId[o] => /\ device'[i] = device[i]
                           /\ i \in touched' <=> i \in touched
      /\ Succeeds(out) => device'[objId[o]] = p
  BY <1>0, <1>2, <1>c, SendEffect DEF TypeOK
<1>3. CASE Succeeds(out)
  <2>1. IdsAccounted'
    BY <1>0, <1>3, <1>c DEF IdsAccounted
  <2>2. LiveSensorConfigured'
    BY <1>0, <1>1, <1>2, <1>3, <1>5, <1>b, <1>c DEF LiveSensorConfigured
  <2>3. NoOrphanWithoutFault'
    BY <1>0, <1>2, <1>3, <1>5, <1>b, <1>c DEF NoOrphanWithoutFault
  <2> QED
    BY <2>1, <2>2, <2>3 DEF ResourceInv
<1>4. CASE ~Succeeds(out)
  <2>1. IdsAccounted'
    BY <1>0, <1>4, <1>b, <1>c, IdsAfterErase
  <2>2. sysdb'[p] = None /\ \A q \in Path \ {p} : sysdb'[q] = sysdb[q]
    BY <1>0, <1>4, <1>c DEF TypeOK
  <2>3. LiveSensorConfigured'
    BY <2>2, <1>1, <1>2, <1>5, <1>c DEF LiveSensorConfigured
  <2>4. NoOrphanWithoutFault'
    BY <1>4, <1>5 DEF NoOrphanWithoutFault
  <2> QED
    BY <2>1, <2>3, <2>4 DEF ResourceInv
<1> QED
  BY <1>3, <1>4

(* The answer to systemRemove deletes one sensor name, which no other live *)
(* path uses.                                                              *)
LEMMA DestroyAnswerResource ==
  ASSUME CoreInv, ResourceInv, NEW r \in Request, NEW out \in Outcome,
         DestroyAnswer(r, out)
  PROVE  ResourceInv'
<1>0. TypeOK /\ LockInv /\ DbInv /\ IdsAccounted
      /\ LiveSensorConfigured /\ NoOrphanWithoutFault
  BY DEF CoreInv, ResourceInv
<1>z. mutex = r /\ pc[r] = "remove"
  BY DEF DestroyAnswer, Goto
<1>a. PICK o : o = handle[r][done[r] + 1]
  OBVIOUS
<1>b. o \in Obj /\ objPath[o] \in Path /\ sysdb[objPath[o]] = o /\ o # None
  BY <1>z, <1>a, RemovedObject, ConsolidatorAssumption
<1>d. PICK p \in Path : p = objPath[o]
  BY <1>b
<1>c. /\ objId' = objId /\ Send(objId[o], None, out)
      /\ sysdb' = [sysdb EXCEPT ![p] = None]
      /\ used' = used \ {objId[sysdb[p]]}
  BY <1>a, <1>b, <1>d DEF DestroyAnswer, SystemRemove, ReturnId, Deallocate
<1>1. \A q \in Path \ {p} : sysdb[q] # None =>
        \/ objId[sysdb[q]] = NullId
        \/ /\ objId[sysdb[q]] # objId[o]
           /\ objId[sysdb[q]] \in touched \/ device[objId[sysdb[q]]] = q
  <2>1. \A e : Busy(e) => e = o
    BY <1>0, <1>a, <1>z, OnlyHolder DEF Busy
  <2>2. \A q \in Path \ {p} : sysdb[q] # None => sysdb[q] # o
    BY <1>0, <1>d DEF DbInv
  <2> QED
    BY <2>1, <2>2, <1>0, <1>b, <1>d DEF IdsAccounted, LiveSensorConfigured, Busy
<1>2. /\ objId[o] \in Ids \cup {NullId}
      /\ \A q \in Path : sysdb[q] # None => objId[sysdb[q]] \in Ids \cup {NullId}
  BY <1>0, <1>b DEF TypeOK
<1>7. /\ faults \in Nat
      /\ faults' = IF Succeeds(out) THEN faults ELSE faults + 1
      /\ \A i \in Ids \cup {NullId} :
           i # objId[o] => /\ device'[i] = device[i]
                           /\ i \in touched' <=> i \in touched
      /\ Succeeds(out) => device'[objId[o]] = None
  BY <1>0, <1>2, <1>c, SendEffect DEF TypeOK
<1>3. IdsAccounted'
  BY <1>0, <1>b, <1>c, <1>d, IdsAfterErase
<1>4. sysdb'[p] = None /\ \A q \in Path \ {p} : sysdb'[q] = sysdb[q]
  BY <1>0, <1>c DEF TypeOK
<1>5. LiveSensorConfigured'
  BY <1>1, <1>2, <1>4, <1>7, <1>c DEF LiveSensorConfigured
<1>6. NoOrphanWithoutFault'
  <2>1. CASE ~Succeeds(out)
    BY <2>1, <1>7 DEF NoOrphanWithoutFault
  <2>2. CASE Succeeds(out)
    <3> SUFFICES ASSUME faults = 0, NEW i \in Ids, device'[i] # None
                 PROVE  \E q \in Path : /\ sysdb'[q] # None
                                        /\ objId[sysdb'[q]] = i
                                        /\ device'[i] = q
      BY <2>2, <1>7, <1>c DEF NoOrphanWithoutFault
    <3>1. i # objId[o] /\ device'[i] = device[i]
      BY <2>2, <1>7
    <3>2. PICK q \in Path : sysdb[q] # None /\ objId[sysdb[q]] = i /\ device[i] = q
      BY <3>1, <1>0 DEF NoOrphanWithoutFault
    <3>3. q # p
      BY <3>1, <3>2, <1>b, <1>d
    <3> QED
      BY <3>1, <3>2, <3>3, <1>4
  <2> QED
    BY <2>1, <2>2
<1> QED
  BY <1>3, <1>5, <1>6 DEF ResourceInv

(* The steps that move neither sysdb nor the ids nor the device start when *)
(* no command is under way.                                                *)
LEMMA QuietResource ==
  ASSUME CoreInv, ResourceInv, NEW r \in Request,
         \/ \E paths \in PathLists : AddRequest(r, paths)
         \/ RemoveRequest(r) \/ CreateShared(r) \/ AddReturn(r)
         \/ DestroyShared(r) \/ DestroyLast(r) \/ RemoveReturn(r)
  PROVE  ResourceInv'
<1>1. LockInv
  BY DEF CoreInv
<1>2. /\ mutex = None \/ (mutex = r /\ pc[r] \in {"create", "destroy"})
      /\ UNCHANGED <<sysdb, objId, used, device, touched, faults>>
  BY DEF AddRequest, RemoveRequest, CreateShared, AddReturn, DestroyShared,
         DestroyLast, RemoveReturn, Goto, Lock, Unlock, objVars, sysVars
<1>3. \A o : ~Busy(o)
  BY <1>1, <1>2, NotBusy
<1> QED
  BY <1>2, <1>3, ResourceFrame

(* A late command changes one entry of the device, which is excepted from  *)
(* then on, and was under way because a command had not been acknowledged. *)
LEMMA ArriveResource ==
  ASSUME CoreInv, ResourceInv, FaultInv, NEW cmd \in late, Arrive(cmd)
  PROVE  CoreInv' /\ ResourceInv'
<1>0. TypeOK
  BY DEF CoreInv
<1>1. /\ UNCHANGED <<mutex, pc, todo, handle, done, sysdb, objPath, objId,
                     refcount, used, balance, underflow, faults>>
      /\ late' = late \ {cmd} /\ touched' = touched \cup {cmd.id}
      /\ device' = [device EXCEPT ![cmd.id] = cmd.entry]
  BY DEF Arrive, objVars
<1>2. cmd.id \in Ids \cup {NullId} /\ cmd.entry \in Path \cup {None}
  BY <1>0 DEF TypeOK
<1>3. TypeOK'
  BY <1>0, <1>1, <1>2 DEF TypeOK
<1>4. \A o : /\ Refs(o)' = Refs(o)
             /\ BeingAdded(o)' = BeingAdded(o)
             /\ BeingRemoved(o)' = BeingRemoved(o)
  BY <1>1 DEF Refs, BeingAdded, BeingRemoved
<1>5. LockInv' /\ ShapeInv' /\ DbInv'
  BY <1>1 DEF CoreInv, LockInv, ShapeInv, DbInv
<1>6. HandlesCurrent' /\ CountInv'
  BY <1>1, <1>4 DEF CoreInv, HandlesCurrent, CountInv
<1>7. IdsAccounted'
  BY <1>1 DEF ResourceInv, IdsAccounted
<1>8. LiveSensorConfigured'
  <2>1. \A i \in Ids \cup {NullId} : i \in touched' \/ device'[i] = device[i]
    BY <1>0, <1>1, <1>2 DEF TypeOK
  <2>2. \A q \in Path : sysdb[q] # None => objId[sysdb[q]] \in Ids \cup {NullId}
    BY <1>0 DEF TypeOK
  <2> QED
    BY <2>1, <2>2, <1>1, <1>4 DEF ResourceInv, LiveSensorConfigured
<1>9. NoOrphanWithoutFault'
  BY <1>1 DEF FaultInv, NoOrphanWithoutFault
<1> QED
  BY <1>3, <1>5, <1>6, <1>7, <1>8, <1>9 DEF CoreInv, ResourceInv

(* Commands are under way past their deadline only after a fault.          *)
LEMMA FaultStep ==
  ASSUME TypeOK, FaultInv, Next
  PROVE  FaultInv'
<1>1. ASSUME NEW id, NEW entry, NEW out \in Outcome, Send(id, entry, out)
      PROVE  FaultInv'
  <2>1. CASE out = "ok"
    BY <2>1, <1>1 DEF Send, CountFault, Succeeds, FaultInv
  <2>2. CASE out # "ok"
    BY <2>2, <1>1 DEF Send, CountFault, Succeeds, FaultInv, TypeOK
  <2> QED
    BY <2>1, <2>2
<1>2. ASSUME NEW r \in Request, NEW out \in Outcome,
             CreateAnswer(r, out) \/ DestroyAnswer(r, out)
      PROVE  FaultInv'
  <2>1. \/ \E id, entry : Send(id, entry, out)
        \/ late' = late /\ faults' = faults
    BY <1>2 DEF CreateAnswer, DestroyAnswer, SystemAdd, SystemRemove, sysVars
  <2> QED
    BY <2>1, <1>1 DEF FaultInv
<1>3. CASE \E cmd \in late : Arrive(cmd)
  BY <1>3 DEF Arrive, FaultInv
<1>4. CASE ~\E cmd \in late : Arrive(cmd)
  <2>1. PICK r \in Request :
          \/ \E paths \in PathLists : AddRequest(r, paths)
          \/ RemoveRequest(r) \/ Step(r)
    BY <1>4 DEF Next
  <2>2. CASE \E out \in Outcome : CreateAnswer(r, out) \/ DestroyAnswer(r, out)
    BY <2>2, <1>2
  <2>3. CASE ~\E out \in Outcome : CreateAnswer(r, out) \/ DestroyAnswer(r, out)
    BY <2>1, <2>3 DEF Step, AddRequest, RemoveRequest, CreateShared,
       CreateReserve, AddReturn, DestroyShared, DestroyLast, RemoveReturn,
       sysVars, FaultInv
  <2> QED
    BY <2>2, <2>3
<1> QED
  BY <1>3, <1>4

-----------------------------------------------------------------------------
(* _add_count - _remove_count.                                             *)

(* Finitely many requests are open.                                        *)
LEMMA OpenFinite == IsFiniteSet(Open) /\ Cardinality(Open) \in Nat
<1>1. Open \in SUBSET Request
  BY DEF Open
<1> QED
  BY <1>1, ConsolidatorAssumption, FS_Subset, FS_CardinalityType

(* addRequest's return counts its request, removeRequest's discounts it,   *)
(* and no other step opens or closes one.                                  *)
LEMMA BalanceStep ==
  ASSUME CoreInv, BalanceInv, NEW r \in Request,
         \/ \E paths \in PathLists : AddRequest(r, paths)
         \/ RemoveRequest(r)
         \/ Step(r)
  PROVE  BalanceInv'
<1>0. TypeOK
  BY DEF CoreInv
<1>1. CASE AddReturn(r)
  <2>1. pc[r] = "create" /\ pc' = [pc EXCEPT ![r] = "live"] /\ balance' = balance + 1
    BY <1>1 DEF AddReturn, Goto
  <2>2. Open' = Open \cup {r} /\ r \notin Open
    BY <2>1, <1>0 DEF Open, TypeOK
  <2> QED
    BY <2>1, <2>2, OpenFinite, FS_AddElement DEF BalanceInv
<1>2. CASE RemoveReturn(r)
  <2>1. pc[r] = "destroy" /\ pc' = [pc EXCEPT ![r] = "none"] /\ balance' = balance - 1
    BY <1>2 DEF RemoveReturn, Goto
  <2>2. Open' = Open \ {r} /\ r \in Open
    BY <2>1, <1>0 DEF Open, TypeOK
  <2>3. Cardinality(Open \ {r}) = Cardinality(Open) - 1
    BY <2>2, OpenFinite, FS_RemoveElement
  <2> QED
    BY <2>1, <2>2, <2>3 DEF BalanceInv
<1>3. CASE ~AddReturn(r) /\ ~RemoveReturn(r)
  <2>1. PICK to \in Critical :
          /\ pc' = [pc EXCEPT ![r] = to] /\ balance' = balance
          /\ to \in {"destroy", "remove"} <=> pc[r] \in {"live", "destroy", "remove"}
    BY <1>3 DEF AddRequest, RemoveRequest, Step, CreateShared, CreateReserve,
                CreateAnswer, DestroyShared, DestroyLast, DestroyAnswer, Goto,
                Critical
  <2>2. Open' = Open
    BY <2>1, <1>0 DEF Open, TypeOK, Critical
  <2> QED
    BY <2>1, <2>2 DEF BalanceInv
<1> QED
  BY <1>1, <1>2, <1>3

-----------------------------------------------------------------------------
(* The inductive invariant.                                                *)

(* It holds before the first request.                                      *)
LEMMA InitIInv == Init => IInv
<1> SUFFICES ASSUME Init
             PROVE  IInv
  OBVIOUS
<1>1. TypeOK
  <2>1. <<>> \in Seq(Path) /\ <<>> \in Seq(Obj)
    OBVIOUS
  <2>2. /\ todo \in [Request -> Seq(Path)] /\ handle \in [Request -> Seq(Obj)]
        /\ done \in [Request -> Nat]
        /\ pc \in [Request -> Critical \cup {"none", "live"}]
    BY <2>1 DEF Init
  <2>3. /\ sysdb \in [Path -> Obj \cup {None}]
        /\ objPath \in [Obj -> Path \cup {None}]
        /\ objId \in [Obj -> Ids \cup {NullId}]
        /\ refcount \in [Obj -> Nat]
        /\ device \in [Ids \cup {NullId} -> Path \cup {None}]
        /\ late \in SUBSET [id : Ids \cup {NullId}, entry : Path \cup {None}]
        /\ touched \in SUBSET (Ids \cup {NullId})
    BY DEF Init
  <2>4. /\ mutex \in Request \cup {None} /\ used \in SUBSET Ids
        /\ balance \in Int /\ underflow \in BOOLEAN /\ faults \in Nat
    <3>1. mutex = None /\ used = {} /\ balance = 0 /\ faults = 0
      BY DEF Init
    <3>2. underflow \in BOOLEAN
      BY Zenon DEF Init
    <3> QED
      BY <3>1, <3>2
  <2> QED
    BY <2>2, <2>3, <2>4 DEF TypeOK
<1>2. \A o : Refs(o) = {} /\ ~BeingAdded(o) /\ ~BeingRemoved(o)
  BY DEF Init, Refs, BeingAdded, BeingRemoved
<1>3. LockInv /\ DbInv /\ HandlesCurrent /\ CountInv
  BY <1>2, ConsolidatorAssumption
     DEF Init, LockInv, DbInv, HandlesCurrent, CountInv, Critical
<1>4. ShapeInv
  <2>1. Len(<<>>) + Len(<<>>) <= MaxPaths /\ 0 <= Len(<<>>)
    BY ConsolidatorAssumption
  <2>2. \A r \in Request : /\ handle[r] = <<>> /\ todo[r] = <<>>
                           /\ done[r] = 0 /\ pc[r] = "none"
    BY DEF Init
  <2> QED
    BY <2>1, <2>2 DEF ShapeInv
<1>5. NoUnderflow /\ LiveSensorConfigured
  BY DEF Init, NoUnderflow, LiveSensorConfigured
<1>6. IdsAccounted
  <2>1. {q \in Path : sysdb[q] # None} = {} /\ used = {}
    BY DEF Init
  <2> QED
    BY <2>1 DEF IdsAccounted
<1>7. NoOrphanWithoutFault /\ FaultInv
  BY DEF Init, NoOrphanWithoutFault, FaultInv
<1>8. BalanceInv
  <2>1. Open = {} /\ balance = 0
    BY DEF Init, Open
  <2> QED
    BY <2>1, FS_EmptySet DEF BalanceInv
<1> QED
  BY <1>1, <1>3, <1>4, <1>5, <1>6, <1>7, <1>8 DEF IInv, CoreInv

(* Every step of every request preserves it.                               *)
LEMMA NextIInv ==
  ASSUME IInv, [Next]_vars
  PROVE  IInv'
<1>0. /\ CoreInv /\ ResourceInv /\ BalanceInv /\ NoUnderflow
      /\ TypeOK /\ FaultInv
  BY DEF IInv, CoreInv, ResourceInv
<1>1. CASE UNCHANGED vars
  <2> USE <1>1 DEF vars
  <2>1. \A o : /\ Refs(o)' = Refs(o)
              /\ BeingAdded(o)' = BeingAdded(o) /\ BeingRemoved(o)' = BeingRemoved(o)
    BY DEF Refs, BeingAdded, BeingRemoved
  <2>2. TypeOK'
    BY <1>0 DEF CoreInv, TypeOK
  <2>3. LockInv' /\ ShapeInv' /\ DbInv'
    BY <1>0 DEF CoreInv, LockInv, ShapeInv, DbInv
  <2>4. HandlesCurrent' /\ CountInv'
    BY <2>1, <1>0 DEF CoreInv, HandlesCurrent, CountInv
  <2>5. ResourceInv'
    BY <2>1, <1>0, ResourceFrame DEF Busy
  <2>6. NoUnderflow' /\ BalanceInv'
    BY <1>0 DEF NoUnderflow, BalanceInv, Open
  <2>7. FaultInv'
    BY <1>0 DEF FaultInv
  <2> QED
    BY <2>2, <2>3, <2>4, <2>5, <2>6, <2>7 DEF IInv, CoreInv, ResourceInv
<1>2. ASSUME NEW r \in Request,
             \/ \E paths \in PathLists : AddRequest(r, paths)
             \/ RemoveRequest(r)
             \/ Step(r)
      PROVE  IInv'
  <2>0. BalanceInv' /\ FaultInv'
    BY <1>0, <1>2, BalanceStep, FaultStep DEF Next
  <2>1. CASE \E paths \in PathLists : AddRequest(r, paths)
    <3>1. CoreInv' /\ underflow' = underflow
      BY <1>0, <2>1, AddRequestCore DEF AddRequest
    <3> QED
      BY <3>1, <2>0, <2>1, <1>0, QuietResource DEF IInv, ResourceInv, NoUnderflow
  <2>2. CASE RemoveRequest(r)
    <3>1. CoreInv' /\ underflow' = underflow
      BY <1>0, <2>2, RemoveRequestCore DEF RemoveRequest
    <3> QED
      BY <3>1, <2>0, <2>2, <1>0, QuietResource DEF IInv, ResourceInv, NoUnderflow
  <2>3. CASE CreateShared(r)
    <3>1. CoreInv' /\ underflow' = underflow
      BY <1>0, <2>3, CreateSharedCore DEF CreateShared
    <3> QED
      BY <3>1, <2>0, <2>3, <1>0, QuietResource DEF IInv, ResourceInv, NoUnderflow
  <2>4. ASSUME NEW o \in Obj, CreateReserve(r, o)
        PROVE  IInv'
    <3>1. CoreInv' /\ underflow' = underflow
      BY <1>0, <2>4, CreateReserveCore DEF CreateReserve
    <3> QED
      BY <3>1, <2>0, <2>4, <1>0, CreateReserveResource
         DEF IInv, ResourceInv, NoUnderflow
  <2>5. ASSUME NEW out \in Outcome, CreateAnswer(r, out)
        PROVE  IInv'
    <3>1. CoreInv' /\ underflow' = underflow
      BY <1>0, <2>5, CreateAnswerCore DEF CreateAnswer
    <3> QED
      BY <3>1, <2>0, <2>5, <1>0, CreateAnswerResource
         DEF IInv, ResourceInv, NoUnderflow
  <2>6. CASE AddReturn(r)
    <3>1. CoreInv' /\ underflow' = underflow
      BY <1>0, <2>6, AddReturnCore DEF AddReturn
    <3> QED
      BY <3>1, <2>0, <2>6, <1>0, QuietResource DEF IInv, ResourceInv, NoUnderflow
  <2>7. CASE DestroyShared(r)
    <3>1. CoreInv' /\ underflow' = underflow
      BY <1>0, <2>7, DestroySharedCore
    <3> QED
      BY <3>1, <2>0, <2>7, <1>0, QuietResource DEF IInv, ResourceInv, NoUnderflow
  <2>8. CASE DestroyLast(r)
    <3>1. CoreInv' /\ underflow' = underflow
      BY <1>0, <2>8, DestroyLastCore DEF DestroyLast
    <3> QED
      BY <3>1, <2>0, <2>8, <1>0, QuietResource DEF IInv, ResourceInv, NoUnderflow
  <2>9. ASSUME NEW out \in Outcome, DestroyAnswer(r, out)
        PROVE  IInv'
    <3>1. CoreInv' /\ underflow' = underflow
      BY <1>0, <2>9, DestroyAnswerCore DEF DestroyAnswer
    <3> QED
      BY <3>1, <2>0, <2>9, <1>0, DestroyAnswerResource
         DEF IInv, ResourceInv, NoUnderflow
  <2>10. CASE RemoveReturn(r)
    <3>1. CoreInv' /\ underflow' = underflow
      BY <1>0, <2>10, RemoveReturnCore DEF RemoveReturn
    <3> QED
      BY <3>1, <2>0, <2>10, <1>0, QuietResource DEF IInv, ResourceInv, NoUnderflow
  <2> QED
    BY <1>2, <2>1, <2>2, <2>3, <2>4, <2>5, <2>6, <2>7, <2>8, <2>9, <2>10
       DEF Step
<1>3. ASSUME NEW cmd \in late, Arrive(cmd)
      PROVE  IInv'
  <2>1. CoreInv' /\ ResourceInv'
    BY <1>0, <1>3, ArriveResource
  <2>2. FaultInv'
    BY <1>0, <1>3, FaultStep DEF Next
  <2>3. NoUnderflow' /\ BalanceInv'
    BY <1>0, <1>3 DEF Arrive, NoUnderflow, BalanceInv, Open
  <2> QED
    BY <2>1, <2>2, <2>3 DEF IInv, ResourceInv
<1> QED
  BY <1>1, <1>2, <1>3 DEF Next

(* The invariant holds in every reachable state of the consolidator.       *)
THEOREM Invariant == Spec => []IInv
<1>1. IInv /\ [Next]_vars => IInv'
  BY NextIInv
<1> QED
  BY InitIInv, <1>1, PTL DEF Spec

-----------------------------------------------------------------------------
(* What the invariant says of the consolidator.                            *)

(* Every variable of the consolidator keeps its type: in particular the    *)
(* ids are ids of the generator, and a reference count is never negative;  *)
(* and destroy always finds, under the path of the object it gives up,     *)
(* that same object in sysdb.                                              *)
THEOREM HandlesStayCurrent == Spec => []SysdbInv
<1>1. IInv => SysdbInv
  BY DEF IInv, CoreInv, SysdbInv
<1> QED
  BY <1>1, Invariant, PTL

(* _refcount is the number of handle entries that refer to the object.     *)
THEOREM RefcountsExact == Spec => []RefcountExact
<1>1. IInv => RefcountExact
  <2> SUFFICES ASSUME IInv, NEW p \in Path, NEW o, o = sysdb[p], o # None
               PROVE  /\ objPath[o] = p
                      /\ refcount[o] = IF BeingAdded(o) THEN 1
                                       ELSE IF BeingRemoved(o) THEN 0
                                       ELSE Cardinality(Refs(o))
                      /\ BeingRemoved(o) => Cardinality(Refs(o)) = 1
    BY DEF RefcountExact
  <2> QED
    BY DEF IInv, CoreInv, DbInv, CountInv
<1> QED
  BY <1>1, Invariant, PTL

(* _error_count_underflow stays 0.                                         *)
THEOREM NeverUnderflows == Spec => []NoUnderflow
<1>1. IInv => NoUnderflow
  BY DEF IInv
<1> QED
  BY <1>1, Invariant, PTL

(* Distinct paths have distinct internal ids, and no id leaks, whatever    *)
(* the device answers.                                                     *)
THEOREM IdsAreAccounted == Spec => []IdsAccounted
<1>1. IInv => IdsAccounted
  BY DEF IInv
<1> QED
  BY <1>1, Invariant, PTL

(* A live path's sensor is on the device under its id, whatever commands   *)
(* failed before; only a command that reached the device late may undo it. *)
THEOREM LiveSensorsConfigured == Spec => []LiveSensorConfigured
<1>1. IInv => LiveSensorConfigured
  BY DEF IInv
<1> QED
  BY <1>1, Invariant, PTL

(* Only a failed or late command leaves a sensor behind on the device.     *)
THEOREM OrphansNeedFaults == Spec => []NoOrphanWithoutFault
<1>1. IInv => NoOrphanWithoutFault
  BY DEF IInv
<1> QED
  BY <1>1, Invariant, PTL

(* Once every subscription is gone the consolidator is empty again.        *)
THEOREM EmptyInTheEnd == Spec => []NothingLeft
<1>1. IInv => NothingLeft
  <2> SUFFICES ASSUME IInv, \A r \in Request : pc[r] = "none"
               PROVE  /\ \A p \in Path : sysdb[p] = None
                      /\ used = {}
                      /\ balance = 0
    BY DEF NothingLeft
  <2>1. \A r \in Request : handle[r] = <<>>
    BY DEF IInv, CoreInv, ShapeInv
  <2>2. \A o : Refs(o) = {} /\ ~BeingAdded(o) /\ ~BeingRemoved(o)
    BY <2>1 DEF Refs, BeingAdded, BeingRemoved
  <2>3. \A p \in Path : sysdb[p] = None
    BY <2>2 DEF IInv, CoreInv, CountInv
  <2>4. used = {}
    <3>1. {q \in Path : sysdb[q] # None} = {}
      BY <2>3
    <3> QED
      BY <3>1 DEF IInv, IdsAccounted
  <2>5. balance = 0
    <3>1. Open = {}
      BY DEF Open
    <3> QED
      BY <3>1, FS_EmptySet DEF IInv, BalanceInv
  <2> QED
    BY <2>3, <2>4, <2>5
<1> QED
  BY <1>1, Invariant, PTL

-----------------------------------------------------------------------------
(* What a live request relies on, step by step.                            *)

(* Every position of a handle vector that is not destroyed is a reference. *)
LEMMA PositionIsRef ==
  ASSUME NEW m \in Nat, NEW h \in Seq(Obj), NEW t \in Seq(Path),
         Len(h) + Len(t) <= m, NEW i \in DOMAIN h
  PROVE  i \in Nat /\ i >= 1 /\ i \in 1 .. m /\ i <= Len(h)
<1>1. i \in 1 .. Len(h) /\ Len(h) \in Nat /\ Len(t) \in Nat
  OBVIOUS
<1> QED
  BY <1>1

(* A request that stays live keeps its objects: their entries in sysdb,    *)
(* their paths and their ids, whatever the steps of other requests.        *)
THEOREM LiveRequestsStable == Spec => LiveRequestStable
<1> DEFINE Stable ==
      \A r \in Request :
        pc[r] = "live" /\ pc'[r] = "live" =>
          /\ handle'[r] = handle[r]
          /\ \A i \in DOMAIN handle[r] :
               LET o == handle[r][i]
               IN  /\ sysdb'[objPath[o]] = o
                   /\ objPath'[o] = objPath[o] /\ objId'[o] = objId[o]
<1>1. IInv /\ [Next]_vars => [Stable]_vars
  <2> SUFFICES ASSUME IInv, Next, NEW r \in Request,
                      pc[r] = "live", pc'[r] = "live"
               PROVE  /\ handle'[r] = handle[r]
                      /\ \A i \in DOMAIN handle[r] :
                           LET o == handle[r][i]
                           IN  /\ sysdb'[objPath[o]] = o
                               /\ objPath'[o] = objPath[o]
                               /\ objId'[o] = objId[o]
    OBVIOUS
  <2> HIDE DEF Stable
  <2>1. IInv'
    BY NextIInv
  <2>2. ASSUME NEW x \in Request,
               \/ \E paths \in PathLists : AddRequest(x, paths)
               \/ RemoveRequest(x) \/ Step(x)
        PROVE  /\ handle'[r] = handle[r]
               /\ \A o \in Obj : Allocated(o) =>
                    objPath'[o] = objPath[o] /\ objId'[o] = objId[o]
    <3>1. x # r
      BY <2>2 DEF Step, AddRequest, RemoveRequest, CreateShared, CreateReserve,
                  CreateAnswer, AddReturn, DestroyShared, DestroyLast,
                  DestroyAnswer, RemoveReturn, Goto, IInv, CoreInv, TypeOK
    <3>2. handle'[r] = handle[r]
      BY <2>2, <3>1
         DEF Step, AddRequest, RemoveRequest, CreateShared, CreateReserve,
             CreateAnswer, AddReturn, DestroyShared, DestroyLast,
             DestroyAnswer, RemoveReturn, IInv, CoreInv, TypeOK
    <3>3. CASE \E z \in Obj : CreateReserve(x, z)
      BY <3>2, <3>3 DEF CreateReserve, IInv, CoreInv, TypeOK
    <3>4. CASE ~\E z \in Obj : CreateReserve(x, z)
      BY <2>2, <3>2, <3>4
         DEF Step, AddRequest, RemoveRequest, CreateShared, CreateAnswer,
             AddReturn, DestroyShared, DestroyLast, DestroyAnswer,
             RemoveReturn, objVars
    <3> QED
      BY <3>3, <3>4
  <2>4. /\ handle'[r] = handle[r]
        /\ \A o \in Obj : Allocated(o) =>
             objPath'[o] = objPath[o] /\ objId'[o] = objId[o]
    <3>1. CASE \E cmd \in late : Arrive(cmd)
      BY <3>1 DEF Arrive, objVars
    <3> QED
      BY <2>2, <3>1 DEF Next
  <2>5. ASSUME NEW i \in DOMAIN handle[r], NEW o, o = handle[r][i]
        PROVE  /\ sysdb'[objPath[o]] = o
               /\ objPath'[o] = objPath[o] /\ objId'[o] = objId[o]
    <3>0. handle[r] \in Seq(Obj) /\ todo[r] \in Seq(Path)
      BY DEF IInv, CoreInv, TypeOK
    <3>1. o \in Obj
      BY <2>5, <3>0
    <3>2. Refs(o)' # {}
      <4>1. Len(handle[r]) + Len(todo[r]) <= MaxPaths /\ MaxPaths \in Nat
        BY ConsolidatorAssumption DEF IInv, CoreInv, ShapeInv
      <4>a. PICK h \in Seq(Obj), t \in Seq(Path) : h = handle[r] /\ t = todo[r]
        BY <3>0
      <4>b. Len(h) + Len(t) <= MaxPaths /\ i \in DOMAIN h
        BY <4>1, <4>a
      <4>2. i \in 1 .. MaxPaths /\ i >= 1 /\ i > 0
        BY <4>1, <4>b, PositionIsRef
      <4>3. done'[r] = 0
        BY <2>1 DEF IInv, CoreInv, ShapeInv
      <4>4. <<r, i>> \in Refs(o)'
        BY <2>4, <2>5, <4>2, <4>3 DEF Refs
      <4> QED
        BY <4>4
    <3>3. sysdb'[objPath'[o]] = o
      <4>1. HandlesCurrent'
        BY <2>1 DEF IInv, CoreInv
      <4> QED
        BY <4>1, <3>1, <3>2 DEF HandlesCurrent
    <3>4. Allocated(o)
      BY <2>5 DEF Allocated
    <3>5. objPath'[o] = objPath[o] /\ objId'[o] = objId[o]
      BY <2>4, <3>1, <3>4
    <3> QED
      BY <3>3, <3>5
  <2> QED
    BY <2>4, <2>5
<1> QED
  BY <1>1, Invariant, PTL DEF Spec, LiveRequestStable

-----------------------------------------------------------------------------
(* The refinement of SharedSensors.                                        *)

(* The paths of the handles h that are left once the first d are destroyed. *)
PathsLeft(h, d, op) == [i \in 1 .. (Len(h) - d) |-> op[h[d + i]]]

(* The paths that have a sensor.                                           *)
Sensors == {p \in Path : sysdb[p] # None /\ ~BeingAdded(sysdb[p])}

(* addHandle appends the path of its object.                               *)
LEMMA PathsAppend ==
  ASSUME NEW h \in Seq(Obj), NEW op, NEW o \in Obj
  PROVE  PathsLeft(Append(h, o), 0, op) = Append(PathsLeft(h, 0, op), op[o])
<1> DEFINE H == PathsLeft(h, 0, op)
           A == Append(h, o)
<1>1. /\ Len(h) \in Nat /\ Len(A) = Len(h) + 1
      /\ \A i \in 1 .. Len(h) : A[i] = h[i]
      /\ A[Len(h) + 1] = o
  OBVIOUS
<1>2. H = [i \in 1 .. Len(h) |-> op[h[i]]]
  BY <1>1 DEF PathsLeft
<1>3. PathsLeft(A, 0, op) = [i \in 1 .. (Len(h) + 1) |-> op[A[i]]]
  BY <1>1 DEF PathsLeft
<1>4. H \in Seq({op[h[i]] : i \in 1 .. Len(h)}) /\ Len(H) = Len(h)
  BY <1>1, <1>2
<1>5. Append(H, op[o]) = [i \in 1 .. (Len(h) + 1) |->
                            IF i = Len(h) + 1 THEN op[o] ELSE H[i]]
  BY <1>4
<1>6. \A i \in 1 .. (Len(h) + 1) :
        op[A[i]] = IF i = Len(h) + 1 THEN op[o] ELSE H[i]
  <2> SUFFICES ASSUME NEW i \in 1 .. (Len(h) + 1), i # Len(h) + 1
               PROVE  op[A[i]] = H[i]
    BY <1>1
  <2>1. i \in 1 .. Len(h)
    BY <1>1
  <2> QED
    BY <2>1, <1>1, <1>2
<1> QED
  BY <1>3, <1>5, <1>6

(* The first element of a sequence and the rest.                           *)
LEMMA HeadAndTail ==
  ASSUME NEW S, NEW s \in Seq(S), Len(s) >= 1
  PROVE  /\ s # <<>>
         /\ Head(s) = s[1]
         /\ Tail(s) = [i \in 1 .. (Len(s) - 1) |-> s[i + 1]]
<1>1. s # <<>>
  OBVIOUS
<1>2. Head(s) = s[1]
  BY <1>1
<1>3. Tail(s) = [i \in 1 .. (Len(s) - 1) |-> s[i + 1]]
  <2>1. /\ Tail(s) \in Seq(S) /\ Len(Tail(s)) = Len(s) - 1
        /\ \A i \in 1 .. Len(Tail(s)) : Tail(s)[i] = s[i + 1]
    BY <1>1, HeadTailProperties
  <2>2. PICK t \in Seq(S) : t = Tail(s)
    BY <2>1
  <2>3. t = [i \in 1 .. Len(t) |-> t[i]]
    OBVIOUS
  <2>4. t = [i \in 1 .. (Len(s) - 1) |-> s[i + 1]]
    BY <2>1, <2>2, <2>3
  <2> QED
    BY <2>2, <2>4
<1> QED
  BY <1>1, <1>2, <1>3

(* Each turn of removeRequest's loop gives up the first path left.         *)
LEMMA PathsTail ==
  ASSUME NEW h \in Seq(Obj), NEW op, NEW d \in Nat, d < Len(h)
  PROVE  /\ PathsLeft(h, d, op) # <<>>
         /\ Head(PathsLeft(h, d, op)) = op[h[d + 1]]
         /\ PathsLeft(h, d + 1, op) = Tail(PathsLeft(h, d, op))
<1>1. PICK n \in Nat : n = Len(h) - d /\ n >= 1 /\ Len(h) - (d + 1) = n - 1
  <2>1. Len(h) - d \in Nat /\ Len(h) - d >= 1
    OBVIOUS
  <2> QED
    BY <2>1
<1>2. PICK H : H = PathsLeft(h, d, op) /\ H = [i \in 1 .. n |-> op[h[d + i]]]
  BY <1>1 DEF PathsLeft
<1>3. H \in Seq({op[h[d + i]] : i \in 1 .. n}) /\ Len(H) = n
  BY <1>2
<1>4. H[1] = op[h[d + 1]]
  <2>1. 1 \in 1 .. n
    BY <1>1
  <2> QED
    BY <2>1, <1>2
<1>5. H # <<>> /\ Head(H) = H[1]
      /\ Tail(H) = [i \in 1 .. (Len(H) - 1) |-> H[i + 1]]
  BY <1>1, <1>3, HeadAndTail
<1>6. PathsLeft(h, d + 1, op) = [i \in 1 .. (n - 1) |-> op[h[d + 1 + i]]]
  BY <1>1 DEF PathsLeft
<1>8. \A i \in 1 .. (n - 1) : H[i + 1] = op[h[d + 1 + i]]
  <2> SUFFICES ASSUME NEW i \in 1 .. (n - 1)
               PROVE  H[i + 1] = op[h[d + 1 + i]]
    OBVIOUS
  <2>1. i + 1 \in 1 .. n /\ d + (i + 1) = d + 1 + i
    BY <1>1
  <2>2. H[i + 1] = op[h[d + (i + 1)]]
    BY <2>1, <1>2
  <2> QED
    BY <2>1, <2>2
<1>9. PathsLeft(h, d + 1, op) = Tail(H)
  <2>1. Tail(H) = [i \in 1 .. (n - 1) |-> H[i + 1]]
    BY <1>3, <1>5
  <2>2. [i \in 1 .. (n - 1) |-> H[i + 1]]
          = [i \in 1 .. (n - 1) |-> op[h[d + 1 + i]]]
    BY <1>8
  <2> QED
    BY <2>1, <2>2, <1>6
<1> QED
  BY <1>2, <1>4, <1>5, <1>9

(* What a request holds, in terms of PathsLeft; every request's handles    *)
(* fit the bound.                                                          *)
LEMMA HeldIs ==
  ASSUME CoreInv, NEW s \in Request
  PROVE  /\ Held(s) = PathsLeft(handle[s], done[s], objPath)
         /\ handle[s] \in Seq(Obj) /\ done[s] \in Nat
         /\ Len(handle[s]) \in Nat /\ Len(handle[s]) <= MaxPaths
         /\ done[s] <= Len(handle[s])
<1>1. /\ handle[s] \in Seq(Obj) /\ todo[s] \in Seq(Path) /\ done[s] \in Nat
      /\ Len(handle[s]) \in Nat /\ Len(todo[s]) \in Nat /\ MaxPaths \in Nat
  BY ConsolidatorAssumption DEF CoreInv, TypeOK
<1>2. Len(handle[s]) + Len(todo[s]) <= MaxPaths /\ done[s] <= Len(handle[s])
  BY DEF CoreInv, ShapeInv
<1>3. \A a, b, m \in Nat : a + b <= m => a <= m
  OBVIOUS
<1>4. Len(handle[s]) <= MaxPaths
  BY <1>1, <1>2, <1>3
<1> QED
  BY <1>1, <1>2, <1>4 DEF Held, PathsLeft

(* A request whose handles, position and objects' paths do not move holds  *)
(* what it held.                                                           *)
LEMMA HeldFrame ==
  ASSUME CoreInv, NEW s \in Request, handle'[s] = handle[s], done'[s] = done[s],
         \A i \in DOMAIN handle[s] : objPath'[handle[s][i]] = objPath[handle[s][i]]
  PROVE  Held(s)' = Held(s)
<1>1. PICK h \in Seq(Obj), d \in Nat : h = handle[s] /\ d = done[s]
  BY HeldIs
<1>2. \A i \in 1 .. (Len(h) - d) : d + i \in DOMAIN h
  OBVIOUS
<1> QED
  BY <1>1, <1>2 DEF Held

(* The steps that move no handle: taking and leaving the lock, reserving   *)
(* an object, a refused path, the last decRef.                             *)
LEMMA QuietPromise ==
  ASSUME \A s \in Request : Held(s)' = Held(s), Sensors' = Sensors
  PROVE  UNCHANGED Promise!vars
  BY DEF Promise!vars, Sensors

(* No request is between its entry in sysdb and systemAdd's answer.        *)
LEMMA NothingAdded ==
  ASSUME CoreInv, NEW r \in Request,
         mutex = None \/ (mutex = r /\ pc[r] # "add"), NEW o
  PROVE  ~BeingAdded(o)
  BY ConsolidatorAssumption DEF CoreInv, LockInv, BeingAdded, Critical

(* Locking, returning, and the last decRef move neither what requests hold *)
(* nor which paths have a sensor.                                          *)
LEMMA LockSteps ==
  ASSUME CoreInv, NEW r \in Request,
         \/ \E paths \in PathLists : AddRequest(r, paths)
         \/ AddReturn(r) \/ RemoveRequest(r) \/ DestroyLast(r)
         \/ RemoveReturn(r)
  PROVE  UNCHANGED Promise!vars
<1>1. /\ mutex = None \/ (mutex = r /\ pc[r] # "add")
      /\ \E q : pc' = [pc EXCEPT ![r] = q] /\ q # "add"
      /\ sysdb' = sysdb /\ objPath' = objPath
      /\ \A s \in Request \ {r} : handle'[s] = handle[s] /\ done'[s] = done[s]
  BY DEF AddRequest, AddReturn, RemoveRequest, DestroyLast, RemoveReturn, Goto,
         Lock, Unlock, objVars, CoreInv, TypeOK
<1>2. \A o : ~BeingAdded(o)
  BY <1>1, NothingAdded
<1>3. \A o : ~BeingAdded(o)'
  BY <1>1, <1>2 DEF BeingAdded, CoreInv, TypeOK, LockInv, Critical
<1>4. Sensors' = Sensors
  BY <1>1, <1>2, <1>3 DEF Sensors
<1>5. Held(r)' = Held(r)
  <2>1. CASE RemoveReturn(r)
    <3>1. done[r] = Len(handle[r]) /\ handle'[r] = <<>> /\ done'[r] = 0
      BY <2>1 DEF RemoveReturn, CoreInv, TypeOK
    <3>2. Held(r) = <<>>
      BY <3>1, HeldIs DEF Held
    <3>3. Held(r)' = <<>>
      BY <3>1 DEF Held
    <3> QED
      BY <3>2, <3>3
  <2>2. CASE ~RemoveReturn(r)
    <3>1. handle'[r] = handle[r] /\ done'[r] = done[r]
      BY <2>2 DEF AddRequest, AddReturn, RemoveRequest, DestroyLast, Goto,
                  CoreInv, TypeOK, ShapeInv
    <3> QED
      BY <3>1, <1>1, HeldFrame
  <2> QED
    BY <2>1, <2>2
<1>6. \A s \in Request : Held(s)' = Held(s)
  BY <1>1, <1>5, HeldFrame
<1> QED
  BY <1>4, <1>6, QuietPromise

(* Reserving an object: it has no sensor yet, and nobody holds it.         *)
LEMMA ReservePromise ==
  ASSUME CoreInv, NEW r \in Request, NEW o \in Obj, CreateReserve(r, o)
  PROVE  UNCHANGED Promise!vars
<1>0. TypeOK
  BY DEF CoreInv
<1>a. PICK p \in Path : p = Head(todo[r])
  BY <1>0 DEF CreateReserve, TypeOK
<1>1. /\ mutex = r /\ pc[r] = "create" /\ pc' = [pc EXCEPT ![r] = "add"]
      /\ todo' = todo /\ handle' = handle /\ done' = done
      /\ sysdb[p] = None /\ sysdb' = [sysdb EXCEPT ![p] = o]
      /\ objPath' = [objPath EXCEPT ![o] = p] /\ ~Allocated(o)
  BY <1>a DEF CreateReserve, Goto
<1>2. \A q : ~BeingAdded(q)
  BY <1>1, NothingAdded
<1>3. \A q : BeingAdded(q)' <=> q = o
  <2>1. pc'[r] = "add" /\ \A s \in Request \ {r} : pc'[s] # "add"
    BY <1>0, <1>1 DEF TypeOK, CoreInv, LockInv, Critical
  <2>2. sysdb'[Head(todo'[r])] = o
    BY <1>0, <1>1, <1>a DEF TypeOK
  <2> QED
    BY <2>1, <2>2 DEF BeingAdded
<1>4. \A q \in Path : q # p => sysdb'[q] = sysdb[q] /\ sysdb[q] # o
  BY <1>0, <1>1 DEF TypeOK, Allocated
<1>5. sysdb'[p] = o
  BY <1>0, <1>1 DEF TypeOK
<1>6. Sensors' = Sensors
  BY <1>1, <1>2, <1>3, <1>4, <1>5 DEF Sensors
<1>7. \A s \in Request : \A i \in DOMAIN handle[s] :
        objPath'[handle[s][i]] = objPath[handle[s][i]]
  BY <1>0, <1>1 DEF Allocated, TypeOK
<1>8. \A s \in Request : Held(s)' = Held(s)
  BY <1>1, <1>7, HeldFrame
<1> QED
  BY <1>6, <1>8, QuietPromise

(* A request that appends o acquires o's path.                             *)
LEMMA AppendPromise ==
  ASSUME CoreInv, NEW r \in Request, NEW o \in Obj, NEW p \in Path,
         objPath[o] = p, objPath' = objPath, done' = done, done[r] = 0,
         handle' = [handle EXCEPT ![r] = Append(@, o)],
         Sensors' = Sensors \cup {p}
  PROVE  Promise!Acquire(r, p)
<1>1. PICK h \in Seq(Obj) : h = handle[r]
  BY HeldIs
<1>2. handle'[r] = Append(h, o) /\ done'[r] = 0
      /\ \A s \in Request \ {r} : handle'[s] = handle[s] /\ done'[s] = done[s]
  BY <1>1 DEF CoreInv, TypeOK
<1>3. Held(r)' = Append(Held(r), p)
  <2>1. PICK op : op = objPath
    OBVIOUS
  <2>2. Held(r) = PathsLeft(h, 0, op)
    BY <1>1, <2>1 DEF Held, PathsLeft
  <2>3. Held(r)' = PathsLeft(Append(h, o), 0, op)
    BY <1>2, <2>1 DEF Held, PathsLeft
  <2> QED
    BY <2>1, <2>2, <2>3, PathsAppend
<1>4. \A s \in Request \ {r} : Held(s)' = Held(s)
  BY <1>2, HeldFrame
<1>5. [s \in Request |-> Held(s)']
        = [[s \in Request |-> Held(s)] EXCEPT ![r] = Append(@, p)]
  BY <1>3, <1>4
<1> QED
  BY <1>5 DEF Promise!Acquire, Sensors

(* Sharing an object acquires its path, which has its sensor already.      *)
LEMMA SharedPromise ==
  ASSUME CoreInv, NEW r \in Request, CreateShared(r)
  PROVE  Promise!Next
<1>0. TypeOK /\ DbInv /\ ShapeInv
  BY DEF CoreInv
<1>a. PICK p \in Path : p = Head(todo[r])
  BY <1>0 DEF CreateShared, TypeOK
<1>b. PICK o \in Obj : o = sysdb[p]
  BY <1>0, <1>a DEF CreateShared, TypeOK
<1>1. /\ mutex = r /\ pc[r] = "create" /\ pc' = [pc EXCEPT ![r] = "create"]
      /\ handle' = [handle EXCEPT ![r] = Append(@, o)] /\ done' = done
      /\ sysdb' = sysdb /\ objPath' = objPath
  BY <1>a, <1>b DEF CreateShared, Goto
<1>2. pc' = pc /\ done[r] = 0 /\ objPath[o] = p /\ o # None
  BY <1>0, <1>1, <1>b, ConsolidatorAssumption DEF TypeOK, ShapeInv, DbInv
<1>3. \A q : ~BeingAdded(q)
  BY <1>1, NothingAdded
<1>4. \A q : ~BeingAdded(q)'
  BY <1>1, <1>2, <1>3 DEF BeingAdded, CoreInv, LockInv, Critical
<1>5. Sensors' = Sensors \cup {p}
  BY <1>1, <1>2, <1>3, <1>4, <1>b DEF Sensors
<1>6. Promise!Acquire(r, p)
  BY <1>1, <1>2, <1>5, AppendPromise
<1> QED
  BY <1>6 DEF Promise!Next

(* systemAdd's answer: the path is acquired with its new sensor, or        *)
(* nothing shows.                                                          *)
LEMMA AnswerPromise ==
  ASSUME CoreInv, NEW r \in Request, NEW out \in Outcome, CreateAnswer(r, out)
  PROVE  Promise!Next \/ UNCHANGED Promise!vars
<1>0. TypeOK /\ DbInv /\ ShapeInv
  BY DEF CoreInv
<1>z. mutex = r /\ pc[r] = "add" /\ todo[r] # <<>>
  BY <1>0 DEF CreateAnswer, Goto, ShapeInv
<1>a. PICK p \in Path : p = Head(todo[r])
  BY <1>0, <1>z DEF TypeOK
<1>b. PICK o \in Obj : o = sysdb[p]
  BY <1>0, <1>a, <1>z DEF TypeOK, ShapeInv
<1>1. /\ pc' = [pc EXCEPT ![r] = "create"] /\ done' = done /\ objPath' = objPath
      /\ Succeeds(out) => /\ handle' = [handle EXCEPT ![r] = Append(@, o)]
                          /\ sysdb' = sysdb
      /\ ~Succeeds(out) => /\ handle' = handle
                           /\ sysdb' = [sysdb EXCEPT ![p] = None]
  BY <1>a, <1>b DEF CreateAnswer, Goto
<1>2. /\ done[r] = 0 /\ o # None
      /\ \A q \in Path : sysdb[q] = o => q = p
  BY <1>0, <1>b, <1>z, ConsolidatorAssumption DEF ShapeInv, DbInv
<1>3. \A q : BeingAdded(q) <=> q = o
  BY <1>a, <1>b, <1>z, OnlyHolder DEF CoreInv
<1>4. \A q : ~BeingAdded(q)'
  <2>1. \A s \in Request : pc'[s] # "add"
    BY <1>0, <1>1, <1>z DEF TypeOK, CoreInv, LockInv, Critical
  <2> QED
    BY <2>1 DEF BeingAdded
<1>5. CASE Succeeds(out)
  <2>1. Sensors' = Sensors \cup {p}
    BY <1>1, <1>2, <1>3, <1>4, <1>5, <1>b DEF Sensors
  <2>2. objPath[o] = p
    BY <1>0, <1>2, <1>b DEF DbInv
  <2>3. Promise!Acquire(r, p)
    BY <2>1, <2>2, <1>1, <1>2, <1>5, AppendPromise
  <2> QED
    BY <2>3 DEF Promise!Next
<1>6. CASE ~Succeeds(out)
  <2>1. Sensors' = Sensors
    <3>1. sysdb'[p] = None /\ \A q \in Path : q # p => sysdb'[q] = sysdb[q]
      BY <1>0, <1>1, <1>6 DEF TypeOK
    <3> QED
      BY <3>1, <1>2, <1>3, <1>4, <1>b DEF Sensors
  <2>2. \A s \in Request : Held(s)' = Held(s)
    BY <1>1, <1>6, HeldFrame
  <2> QED
    BY <2>1, <2>2, QuietPromise
<1> QED
  BY <1>5, <1>6

(* One turn of removeRequest's loop gives the first path up.               *)
LEMMA DropHeld ==
  ASSUME CoreInv, NEW r \in Request, NEW o \in Obj,
         done[r] < Len(handle[r]), o = handle[r][done[r] + 1],
         handle' = handle, objPath' = objPath,
         done' = [done EXCEPT ![r] = @ + 1]
  PROVE  /\ Held(r) # <<>> /\ Head(Held(r)) = objPath[o]
         /\ [s \in Request |-> Held(s)']
              = [[s \in Request |-> Held(s)] EXCEPT ![r] = Tail(@)]
<1>1. PICK h \in Seq(Obj), d \in Nat, op \in {objPath} :
        h = handle[r] /\ d = done[r] /\ op = objPath
  BY HeldIs
<1>2. done'[r] = d + 1 /\ \A s \in Request \ {r} : done'[s] = done[s]
  BY <1>1 DEF CoreInv, TypeOK
<1>3. Held(r) = PathsLeft(h, d, op) /\ Held(r)' = PathsLeft(h, d + 1, op)
  BY <1>1, <1>2 DEF Held, PathsLeft
<1>4. d < Len(h) /\ o = h[d + 1]
  BY <1>1
<1>5. Held(r) # <<>> /\ Head(Held(r)) = op[o] /\ Held(r)' = Tail(Held(r))
  BY <1>3, <1>4, PathsTail
<1>6. \A s \in Request \ {r} : Held(s)' = Held(s)
  BY <1>2, HeldFrame
<1> QED
  BY <1>1, <1>5, <1>6

(* The paths that are held are those of the objects referred to.           *)
HeldAreRefs ==
  \A p \in Path :
    (\E s \in Request : \E i \in DOMAIN Held(s) : Held(s)[i] = p)
      <=> \E o \in Obj : Refs(o) # {} /\ objPath[o] = p

(* A reference that is not destroyed is a path that is held, and the other *)
(* way round.                                                              *)
LEMMA HoldsRefs == CoreInv => HeldAreRefs
<1> SUFFICES ASSUME CoreInv, NEW p \in Path
             PROVE  (\E s \in Request : \E i \in DOMAIN Held(s) : Held(s)[i] = p)
                      <=> \E o \in Obj : Refs(o) # {} /\ objPath[o] = p
  BY DEF HeldAreRefs
<1>1. ASSUME NEW s \in Request, NEW i \in DOMAIN Held(s), Held(s)[i] = p
      PROVE  \E o \in Obj : Refs(o) # {} /\ objPath[o] = p
  <2>1. PICK h \in Seq(Obj), d \in Nat : h = handle[s] /\ d = done[s]
    BY HeldIs
  <2>2. i \in 1 .. (Len(h) - d) /\ objPath[h[d + i]] = p
    BY <1>1, <2>1 DEF Held
  <2>3. Len(h) <= MaxPaths /\ Len(h) \in Nat /\ MaxPaths \in Nat
    BY <2>1, HeldIs, ConsolidatorAssumption
  <2>4. PICK k \in 1 .. MaxPaths : k = d + i /\ k \in DOMAIN h /\ k > d
    BY <2>2, <2>3
  <2>5. h[k] \in Obj /\ <<s, k>> \in Refs(h[k])
    BY <2>1, <2>4 DEF Refs
  <2> QED
    BY <2>2, <2>4, <2>5
<1>2. ASSUME NEW o \in Obj, Refs(o) # {}, objPath[o] = p
      PROVE  \E s \in Request : \E i \in DOMAIN Held(s) : Held(s)[i] = p
  <2>1. PICK s \in Request, k \in 1 .. MaxPaths :
          k \in DOMAIN handle[s] /\ k > done[s] /\ handle[s][k] = o
    BY <1>2 DEF Refs
  <2>2. PICK h \in Seq(Obj), d \in Nat : h = handle[s] /\ d = done[s]
    BY HeldIs
  <2>3. PICK i \in 1 .. (Len(h) - d) : d + i = k
    <3>1. k - d \in 1 .. (Len(h) - d) /\ d + (k - d) = k
      BY <2>1, <2>2
    <3> QED
      BY <3>1
  <2>4. i \in DOMAIN Held(s) /\ Held(s)[i] = p
    BY <1>2, <2>1, <2>2, <2>3 DEF Held
  <2> QED
    BY <2>4
<1> QED
  BY <1>1, <1>2

(* The same of the state after a step.                                     *)
LEMMA HoldsRefsNext == CoreInv' => HeldAreRefs'
  BY HoldsRefs, PTL

(* destroy, not the last reference: the path keeps its sensor, and another *)
(* holder.                                                                 *)
LEMMA DestroySharedPromise ==
  ASSUME CoreInv, NEW r \in Request, DestroyShared(r)
  PROVE  Promise!Next
<1>0. TypeOK
  BY DEF CoreInv
<1>z. mutex = r /\ pc[r] = "destroy" /\ done[r] < Len(handle[r])
  BY DEF DestroyShared, Goto
<1>a. PICK o : o = handle[r][done[r] + 1]
  OBVIOUS
<1>b. /\ o \in Obj /\ objPath[o] \in Path /\ sysdb[objPath[o]] = o
      /\ refcount[o] = Cardinality(Refs(o)) /\ refcount[o] \in Nat \ {0}
      /\ Len(handle[r]) <= MaxPaths
  BY <1>z, <1>a, LoopObject
<1>c. PICK p \in Path : p = objPath[o]
  BY <1>b
<1>1. /\ refcount[o] # 1 /\ pc' = pc /\ handle' = handle
      /\ done' = [done EXCEPT ![r] = @ + 1]
      /\ sysdb' = sysdb /\ objPath' = objPath
  BY <1>0, <1>a DEF DestroyShared, Goto, LastRef, TypeOK
<1>2. Refs(o)' # {}
  <2>1. Cardinality(Refs(o)') = Cardinality(Refs(o)) - 1
    BY <1>0, <1>1, <1>a, <1>b, <1>z, RefsDrop
  <2>2. Cardinality(Refs(o)') # 0
    BY <2>1, <1>1, <1>b
  <2> QED
    BY <2>2, FS_EmptySet
<1>3. \E s \in Request : \E i \in DOMAIN Held(s)' : Held(s)'[i] = p
  <2>1. CoreInv'
    BY DestroySharedCore
  <2>2. HeldAreRefs'
    BY <2>1, HoldsRefsNext
  <2> QED
    BY <2>2, <1>1, <1>2, <1>b, <1>c DEF HeldAreRefs
<1>4. /\ Held(r) # <<>> /\ Head(Held(r)) = p
      /\ [s \in Request |-> Held(s)']
           = [[s \in Request |-> Held(s)] EXCEPT ![r] = Tail(@)]
  BY <1>1, <1>a, <1>b, <1>c, <1>z, DropHeld
<1>5. Sensors' = Sensors
  <2>1. \A q : ~BeingAdded(q)
    BY <1>z, NothingAdded
  <2>2. \A q : ~BeingAdded(q)'
    BY <1>1, <2>1, <1>z DEF BeingAdded, CoreInv, LockInv, Critical
  <2> QED
    BY <2>1, <2>2, <1>1 DEF Sensors
<1>6. Promise!Release(r)
  BY <1>3, <1>4, <1>5 DEF Promise!Release, Promise!Holds, Sensors
<1> QED
  BY <1>6 DEF Promise!Next

(* systemRemove's answer: the path loses its sensor, and nobody is left to *)
(* hold it.                                                                *)
LEMMA RemovePromise ==
  ASSUME CoreInv, NEW r \in Request, NEW out \in Outcome, DestroyAnswer(r, out)
  PROVE  Promise!Next
<1>0. TypeOK
  BY DEF CoreInv
<1>z. mutex = r /\ pc[r] = "remove"
  BY DEF DestroyAnswer, Goto
<1>a. PICK o : o = handle[r][done[r] + 1]
  OBVIOUS
<1>b. /\ o \in Obj /\ objPath[o] \in Path /\ sysdb[objPath[o]] = o /\ o # None
      /\ done[r] < Len(handle[r])
  BY <1>z, <1>a, RemovedObject, ConsolidatorAssumption
<1>c. PICK p \in Path : p = objPath[o]
  BY <1>b
<1>1. /\ pc' = [pc EXCEPT ![r] = "destroy"] /\ handle' = handle
      /\ done' = [done EXCEPT ![r] = @ + 1]
      /\ sysdb' = [sysdb EXCEPT ![p] = None] /\ objPath' = objPath
  BY <1>a, <1>b, <1>c DEF DestroyAnswer, Goto
<1>2. sysdb'[p] = None /\ \A q \in Path : q # p => sysdb'[q] = sysdb[q]
  BY <1>0, <1>1 DEF TypeOK
<1>3. ~\E s \in Request : \E i \in DOMAIN Held(s)' : Held(s)'[i] = p
  <2>1. CoreInv'
    BY DestroyAnswerCore
  <2>2. HeldAreRefs'
    BY <2>1, HoldsRefsNext
  <2>3. \A e \in Obj : Refs(e)' # {} => objPath'[e] # p
    BY <2>1, <1>2, ConsolidatorAssumption DEF CoreInv, HandlesCurrent
  <2> QED
    BY <2>2, <2>3 DEF HeldAreRefs
<1>4. /\ Held(r) # <<>> /\ Head(Held(r)) = p
      /\ [s \in Request |-> Held(s)']
           = [[s \in Request |-> Held(s)] EXCEPT ![r] = Tail(@)]
  BY <1>1, <1>a, <1>b, <1>c, <1>z, DropHeld
<1>5. Sensors' = Sensors \ {p}
  <2>1. \A q : ~BeingAdded(q)
    BY <1>z, NothingAdded
  <2>2. \A q : ~BeingAdded(q)'
    BY <1>0, <1>1, <2>1, <1>z DEF BeingAdded, CoreInv, LockInv, Critical, TypeOK
  <2> QED
    BY <2>1, <2>2, <1>2 DEF Sensors
<1>6. Promise!Release(r)
  BY <1>3, <1>4, <1>5 DEF Promise!Release, Promise!Holds, Sensors
<1> QED
  BY <1>6 DEF Promise!Next

(* The consolidator implements SharedSensors: whatever commands fail, a    *)
(* path gets its sensor with its first holder and loses it with its last.  *)
THEOREM ConsolidatorImplements == Spec => SharesSensors
<1>1. Init => Promise!Init
  <2> SUFFICES ASSUME Init
               PROVE  Promise!Init
    OBVIOUS
  <2>1. \A s \in Request : Held(s) = <<>>
    BY DEF Init, Held
  <2>2. {p \in Path : sysdb[p] # None /\ ~BeingAdded(sysdb[p])} = {}
    BY DEF Init
  <2> QED
    BY <2>1, <2>2 DEF Promise!Init
<1>2. IInv /\ [Next]_vars => [Promise!Next]_(Promise!vars)
  <2> SUFFICES ASSUME IInv, [Next]_vars
               PROVE  Promise!Next \/ UNCHANGED Promise!vars
    OBVIOUS
  <2>0. CoreInv
    BY DEF IInv
  <2>1. CASE UNCHANGED vars
    BY <2>1 DEF vars, Promise!vars, Held, BeingAdded
  <2>2. ASSUME NEW r \in Request,
               \/ \E paths \in PathLists : AddRequest(r, paths)
               \/ RemoveRequest(r)
               \/ Step(r)
        PROVE  Promise!Next \/ UNCHANGED Promise!vars
    BY <2>0, <2>2, LockSteps, ReservePromise, SharedPromise, AnswerPromise,
       DestroySharedPromise, RemovePromise DEF Step
  <2>3. CASE \E cmd \in late : Arrive(cmd)
    BY <2>3 DEF Arrive, objVars, Promise!vars, Held, BeingAdded
  <2> QED
    BY <2>1, <2>2, <2>3 DEF Next
<1> QED
  BY <1>1, <1>2, Invariant, PTL DEF Spec, SharesSensors, Promise!Spec
=============================================================================
