--------------------------- MODULE IdManagerProofs ---------------------------
(***************************************************************************)
(* What the id manager returns, for every size of the id space.            *)
(***************************************************************************)
EXTENDS IdManager, WellFoundedInduction, TLAPS

(* A nonempty set of naturals has a least element.                         *)
LEMMA LeastNatural ==
  ASSUME NEW S \in SUBSET Nat, S # {}
  PROVE  \E i \in S : \A j \in S : i <= j
<1>1. PICK i \in S : \A j \in S : ~(<<j, i>> \in OpToRel(<, Nat))
  BY NatLessThanWellFounded, WFMin, Zenon
<1>2. ASSUME NEW j \in S PROVE i <= j
  <2>1. ~(j < i)
    BY <1>1 DEF OpToRel
  <2> QED
    BY <2>1
<1> QED
  BY <1>2

(* The id allocate hands out is a free id of the space, and the null id    *)
(* exactly when the space is full.                                         *)
THEOREM NextIdIsFree ==
  ASSUME NEW used
  PROVE  /\ NextId(used) \in Ids \cup {NullId}
         /\ NextId(used) \in Ids => NextId(used) \notin used
         /\ NextId(used) = NullId <=> Ids \subseteq used
<1>1. Ids \subseteq Nat /\ NullId \notin Ids
  BY IdAssumption DEF Ids, NullId
<1>2. CASE FreeIds(used) = {}
  BY <1>1, <1>2 DEF NextId, FreeIds
<1>3. CASE FreeIds(used) # {}
  <2>1. FreeIds(used) \in SUBSET Nat
    BY <1>1 DEF FreeIds
  <2>2. \E i \in FreeIds(used) : \A j \in FreeIds(used) : i <= j
    BY <1>3, <2>1, LeastNatural, Zenon
  <2>3. NextId(used) \in FreeIds(used)
    BY <1>3, <2>2 DEF NextId
  <2> QED
    BY <1>1, <2>3 DEF FreeIds
<1> QED
  BY <1>2, <1>3
=============================================================================
