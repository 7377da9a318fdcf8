------------------------------ MODULE IdManager ------------------------------
(***************************************************************************)
(* AgentServerIdManager<T>: a bit string of identifiers, two of which the  *)
(* agent keeps: the ids of client subscriptions and the internal ids of    *)
(* the sensors it provisions.  The bit string is the set "used" of its set *)
(* bits; every operator takes that set and returns its new value, and the  *)
(* caller's action is the critical section of _id_mutex.                   *)
(***************************************************************************)
EXTENDS Integers, FiniteSets

CONSTANTS
  IdMin,   \* the constructor's min_id
  IdSize   \* the number of bits of T, _id_space.size()

ASSUME IdAssumption == IdMin \in Nat \ {0} /\ IdSize \in Nat

(* getNullIdentifier: what allocate answers when the space is full.        *)
NullId == 0

(* getBounds: the loop of allocate runs from start to end inclusive.       *)
Ids == IdMin .. (IdSize - 1)

FreeIds(used) == {i \in Ids : i \notin used}

(* Mutated form: the scan's index is returned when the scan found nothing. *)
ScanIndex(used) ==
  IF FreeIds(used) = {} THEN IdSize
  ELSE CHOOSE i \in FreeIds(used) : \A j \in FreeIds(used) : i <= j

(* The id allocate returns: the first clear bit of the scan.               *)
NextId(used) ==
  IF FreeIds(used) = {} THEN NullId
  ELSE CHOOSE i \in FreeIds(used) : \A j \in FreeIds(used) : i <= j

(* Mutated form: the bit is tested and not set.                            *)
AllocateTestOnly(used) == used

(* allocate sets the bit it found, and no bit when it found none.          *)
Allocate(used) == used \cup ({NextId(used)} \ {NullId})

(* deallocate resets the bit of any id it is given, 0 included.            *)
Deallocate(used, id) == used \ {id}
=============================================================================
