-------------------------- MODULE UdpReceiverProofs --------------------------
(***************************************************************************)
(* The receiver, its tables and the workers, for any number of workers,    *)
(* ids, sensors, paths and packets.                                        *)
(***************************************************************************)
EXTENDS UdpReceiver, IdManagerProofs, FiniteSetTheorems, SequenceTheorems

(* How often a value is among the first n elements of a sequence.          *)
UpTo(seq, n, x) == Cardinality({k \in 1 .. n : seq[k] = x})

(* The stream is in the receiver's tables, and has its id.                 *)
InTables(w) == spc[w] \in {"mapping", "serving", "unmapping"}
HasId(w) == spc[w] \notin {"idle", "done"}

(* Ids in use are those of the streams under way, one each.                *)
IdInv ==
  /\ \A w \in Worker : HasId(w) => subId[w] \in used
  /\ \A v, w \in Worker :
       HasId(v) /\ HasId(w) /\ subId[v] = subId[w] => v = w
  /\ \A e \in used : \E w \in Worker : HasId(w) /\ subId[w] = e

(* Both tables of workers follow the streams' program points.              *)
TableInv ==
  \A e \in Ids, w \in Worker :
    /\ workerStore[e] = w <=> InTables(w) /\ subId[w] = e
    /\ store2[e] = w <=> HasId(w) /\ spc[w] # "joined" /\ subId[w] = e

(* A worker's thread against its stream, its mutex and its queue.          *)
ThreadInv ==
  \A w \in Worker :
    /\ spc[w] = "idle" <=> wpc[w] = "none"
    /\ spc[w] = "idle" => q[w] = <<>> /\ out[w] = <<>>
    /\ spc[w] \in {"idle", "created", "terminate"} \/ InTables(w) =>
         dontTerminate[w]
    /\ wpc[w] = "done" => ~dontTerminate[w]
    /\ spc[w] \in {"joined", "done"} => wpc[w] = "done"
    /\ wpc[w] \in {"test", "wait", "deliver", "write"} => m[w] = w
    /\ wpc[w] \in {"deliver", "write"} => q[w] # <<>>

(* The loops of add_mapping and del_mapping.                               *)
LoopInv ==
  \A w \in Worker :
    /\ next[w] <= Len(handle[w])
    /\ spc[w] \in {"idle", "created"} => next[w] = 0
    /\ spc[w] = "idle" => handle[w] = <<>>
    /\ spc[w] = "serving" => next[w] = Len(handle[w])

(* The list of an internal id against a stream, as far as those loops have *)
(* come: all of its entries are there, or gone.                            *)
MapSound(w, i) ==
  /\ spc[w] = "mapping" =>
       Count(extList[i], subId[w]) = UpTo(handle[w], next[w], i)
  /\ spc[w] = "serving" => Count(extList[i], subId[w]) = Count(handle[w], i)
  /\ spc[w] = "unmapping" =>
       /\ Count(extList[i], subId[w]) <= Count(handle[w], i)
       /\ UpTo(handle[w], next[w], i) # 0 => Count(extList[i], subId[w]) = 0

(* All lists, and no entry but of streams in the tables.                   *)
MapInv ==
  /\ \A i \in Sensor : \A e \in Members(extList[i]) :
       \E w \in Worker : InTables(w) /\ subId[w] = e
  /\ \A i \in Sensor, w \in Worker : MapSound(w, i)

(* A sensor is in use by a stream that is not done.                        *)
SensorInv ==
  \A i \in Sensor : sensor[i] # None =>
    \E w \in Worker : spc[w] # "done" /\ i \in Members(handle[w])

(* The receiver holds its mutex while it fans a packet out, and the ids it *)
(* goes through are those of the packet's list.                            *)
FanInv ==
  /\ rmutex = Receiver <=> rpc \in {"fan", "notify"}
  /\ rpc # "recv" => packet.id \in Sensor /\ packet.n = received
  /\ rpc \in {"fan", "notify"} => Members(todo) \subseteq Members(extList[packet.id])
  /\ rpc = "notify" => todo # <<>>

(* Deliveries: in the order of the packets' numbers; no packet more often  *)
(* than the handle names its sensor, and during a fan-out not even with    *)
(* what is still to come.                                                  *)
Ordered(d) == \A j, k \in DOMAIN d : j <= k => d[j].n <= d[k].n

(* One client: what it got and what its worker still has to write.         *)
DeliverySound(w) ==
  /\ Ordered(Delivery(w))
  /\ \A k \in DOMAIN Delivery(w) :
       /\ Delivery(w)[k].n <= received
       /\ rpc = "lookup" => Delivery(w)[k].n # received
  /\ \A x \in Packet : Count(Delivery(w), x) <= Count(handle[w], x.id)
  /\ rpc \in {"fan", "notify"} /\ InTables(w) =>
       Count(Delivery(w), packet) + Count(ToCome, subId[w])
         <= Count(handle[w], packet.id)

(* All clients.                                                            *)
DeliveryInv == \A w \in Worker : DeliverySound(w)

(* Written or queued, every packet is one of the handle's sensors.         *)
OwnInv ==
  \A w \in Worker :
    /\ \A k \in DOMAIN out[w] : out[w][k].id \in Members(handle[w])
    /\ \A k \in DOMAIN q[w] : q[w][k].id \in Members(handle[w])

(* The inductive invariant.                                                *)
IInv ==
  /\ TypeOK /\ IdInv /\ TableInv /\ ThreadInv /\ LoopInv /\ MapInv
  /\ SensorInv /\ FanInv /\ DeliveryInv /\ OwnInv

-----------------------------------------------------------------------------
(* Counting in sequences.                                                  *)

(* Places are finitely many.                                               *)
LEMMA PlacesFinite ==
  ASSUME NEW n \in Nat, NEW K \in SUBSET (1 .. n)
  PROVE  IsFiniteSet(K)
<1>1. IsFiniteSet(1 .. n)
  BY FS_Interval
<1> QED
  BY <1>1, FS_Subset

(* The count up to a place is a number, and 0 exactly when the value is    *)
(* not there.                                                              *)
LEMMA UpToIs ==
  ASSUME NEW seq, NEW n \in Nat, NEW x
  PROVE  /\ UpTo(seq, n, x) \in Nat
         /\ UpTo(seq, n, x) = 0 <=> \A k \in 1 .. n : seq[k] # x
<1>1. PICK K : K = {k \in 1 .. n : seq[k] = x}
  OBVIOUS
<1>2. IsFiniteSet(K)
  BY <1>1, PlacesFinite
<1>3. Cardinality(K) \in Nat /\ (Cardinality(K) = 0 <=> K = {})
  BY <1>2, FS_CardinalityType, FS_EmptySet
<1> QED
  BY <1>1, <1>3 DEF UpTo

(* Nothing is among no places.                                             *)
LEMMA UpToZero == \A seq, x : UpTo(seq, 0, x) = 0
<1>1. \A seq, x : {k \in 1 .. 0 : seq[k] = x} = {}
  OBVIOUS
<1> QED
  BY <1>1, FS_EmptySet DEF UpTo

(* One place more.                                                         *)
LEMMA UpToNext ==
  ASSUME NEW seq, NEW n \in Nat, NEW x
  PROVE  UpTo(seq, n + 1, x) = UpTo(seq, n, x) + (IF seq[n + 1] = x THEN 1 ELSE 0)
<1>1. PICK K : K = {k \in 1 .. n : seq[k] = x}
  OBVIOUS
<1>2. K \in SUBSET (1 .. n) /\ n + 1 \notin K
  BY <1>1
<1>3. IsFiniteSet(K) /\ Cardinality(K) \in Nat
  BY <1>2, PlacesFinite, FS_CardinalityType
<1>4. CASE seq[n + 1] = x
  <2>1. {k \in 1 .. n + 1 : seq[k] = x} = K \cup {n + 1}
    BY <1>1, <1>4
  <2>2. Cardinality(K \cup {n + 1}) = Cardinality(K) + 1
    BY <1>2, <1>3, FS_AddElement
  <2> QED
    BY <1>1, <1>4, <2>1, <2>2 DEF UpTo
<1>5. CASE seq[n + 1] # x
  <2>1. {k \in 1 .. n + 1 : seq[k] = x} = K
    BY <1>1, <1>5
  <2> QED
    BY <1>1, <1>3, <1>5, <2>1 DEF UpTo
<1> QED
  BY <1>4, <1>5

(* All places: the count of a sequence.                                    *)
LEMMA CountIs ==
  ASSUME NEW S, NEW seq \in Seq(S), NEW x
  PROVE  /\ Count(seq, x) = UpTo(seq, Len(seq), x)
         /\ Count(seq, x) \in Nat
         /\ Count(seq, x) = 0 <=> x \notin Members(seq)
         /\ Members(seq) \subseteq S
<1>1. DOMAIN seq = 1 .. Len(seq) /\ Len(seq) \in Nat
  OBVIOUS
<1>2. Count(seq, x) = UpTo(seq, Len(seq), x)
  BY <1>1 DEF Count, UpTo
<1>3. PICK n \in Nat : n = Len(seq)
  BY <1>1
<1>4. /\ UpTo(seq, n, x) \in Nat
      /\ UpTo(seq, n, x) = 0 <=> \A k \in 1 .. n : seq[k] # x
  BY UpToIs
<1> QED
  BY <1>1, <1>2, <1>3, <1>4 DEF Members

(* Nothing is in the empty sequence.                                       *)
LEMMA CountEmpty == \A x : Count(<<>>, x) = 0
<1>1. \A x : {k \in DOMAIN <<>> : <<>>[k] = x} = {}
  OBVIOUS
<1> QED
  BY <1>1, FS_EmptySet DEF Count

(* A part of the places has no more.                                       *)
LEMMA UpToBound ==
  ASSUME NEW S, NEW seq \in Seq(S), NEW n \in 0 .. Len(seq), NEW x
  PROVE  UpTo(seq, n, x) <= Count(seq, x)
<1>1. PICK K, L : /\ K = {k \in 1 .. n : seq[k] = x}
                  /\ L = {k \in 1 .. Len(seq) : seq[k] = x}
  OBVIOUS
<1>2. /\ K \in SUBSET L /\ L \in SUBSET (1 .. Len(seq))
      /\ n \in Nat /\ Len(seq) \in Nat
  BY <1>1
<1>3. IsFiniteSet(L)
  BY <1>1, <1>2, PlacesFinite
<1>4. Cardinality(K) <= Cardinality(L)
  BY <1>2, <1>3, FS_Subset
<1> QED
  BY <1>1, <1>4, CountIs DEF UpTo

(* An element more at the end.                                             *)
LEMMA CountAppend ==
  ASSUME NEW S, NEW seq \in Seq(S), NEW y \in S, NEW x
  PROVE  Count(Append(seq, y), x) = Count(seq, x) + (IF y = x THEN 1 ELSE 0)
<1>1. PICK s : s = Append(seq, y)
  OBVIOUS
<1>2. /\ s \in Seq(S) /\ Len(s) = Len(seq) + 1 /\ s[Len(seq) + 1] = y
      /\ \A k \in 1 .. Len(seq) : s[k] = seq[k]
      /\ Len(seq) \in Nat
  BY <1>1
<1>3. UpTo(s, Len(seq), x) = UpTo(seq, Len(seq), x)
  <2>1. {k \in 1 .. Len(seq) : s[k] = x} = {k \in 1 .. Len(seq) : seq[k] = x}
    BY <1>2
  <2> QED
    BY <2>1 DEF UpTo
<1>4. PICK n \in Nat : n = Len(seq)
  BY <1>2
<1>5. UpTo(s, n + 1, x) = UpTo(s, n, x) + (IF s[n + 1] = x THEN 1 ELSE 0)
  BY UpToNext
<1>6. Count(s, x) = UpTo(s, Len(s), x) /\ Count(seq, x) = UpTo(seq, Len(seq), x)
  BY <1>2, CountIs
<1> QED
  BY <1>1, <1>2, <1>3, <1>4, <1>5, <1>6

(* A set of numbers that is moved keeps its size.                          *)
LEMMA Shifted ==
  ASSUME NEW K \in SUBSET Nat, IsFiniteSet(K), NEW d \in Nat
  PROVE  /\ IsFiniteSet({k + d : k \in K})
         /\ Cardinality({k + d : k \in K}) = Cardinality(K)
<1>1. PICK L : L = {k + d : k \in K}
  OBVIOUS
<1>2. [k \in K |-> k + d] \in Bijection(K, L)
  BY <1>1 DEF Bijection, Injection, Surjection, IsInjective
<1>3. ExistsBijection(K, L)
  BY <1>2 DEF ExistsBijection
<1> QED
  BY <1>1, <1>3, FS_Bijection

(* Two sequences behind each other.                                        *)
LEMMA CountConcat ==
  ASSUME NEW S, NEW s \in Seq(S), NEW t \in Seq(S), NEW x
  PROVE  Count(s \o t, x) = Count(s, x) + Count(t, x)
<1>1. PICK a \in Nat, b \in Nat : a = Len(s) /\ b = Len(t)
  <2>1. Len(s) \in Nat /\ Len(t) \in Nat
    OBVIOUS
  <2> QED
    BY <2>1
<1>2. PICK r : r = s \o t
  OBVIOUS
<1>3. /\ DOMAIN r = 1 .. a + b /\ DOMAIN s = 1 .. a /\ DOMAIN t = 1 .. b
      /\ \A k \in 1 .. a : r[k] = s[k]
      /\ \A k \in 1 .. b : r[k + a] = t[k]
  BY <1>1, <1>2
<1>4. PICK K, L : /\ K = {k \in 1 .. a : s[k] = x}
                  /\ L = {k \in 1 .. b : t[k] = x}
  OBVIOUS
<1>5. PICK M : M = {k + a : k \in L}
  OBVIOUS
<1>6. {k \in DOMAIN r : r[k] = x} = K \cup M
  <2>1. \A k \in 1 .. a + b : k \in 1 .. a \/ (k - a \in 1 .. b /\ k = (k - a) + a)
    BY <1>1
  <2>2. ASSUME NEW k \in 1 .. a + b, r[k] = x PROVE k \in K \cup M
    <3>1. CASE k \in 1 .. a
      BY <1>3, <1>4, <2>2, <3>1
    <3>2. CASE k - a \in 1 .. b /\ k = (k - a) + a
      <4>1. t[k - a] = x
        BY <1>3, <2>2, <3>2
      <4> QED
        BY <1>4, <1>5, <3>2, <4>1
    <3> QED
      BY <2>1, <3>1, <3>2
  <2>3. ASSUME NEW k \in K \cup M PROVE k \in 1 .. a + b /\ r[k] = x
    BY <1>1, <1>3, <1>4, <1>5
  <2> QED
    BY <1>3, <2>2, <2>3
<1>7. /\ IsFiniteSet(K) /\ IsFiniteSet(L)
      /\ IsFiniteSet(M) /\ Cardinality(M) = Cardinality(L)
  <2>1. IsFiniteSet(K) /\ IsFiniteSet(L)
    <3>1. K \in SUBSET (1 .. a) /\ L \in SUBSET (1 .. b)
      BY <1>4
    <3> QED
      BY <1>1, <3>1, PlacesFinite
  <2>2. L \in SUBSET Nat
    BY <1>4
  <2> QED
    BY <1>1, <1>5, <2>1, <2>2, Shifted
<1>8. K \cap M = {}
  BY <1>1, <1>4, <1>5
<1>9. Cardinality(K \cup M) = Cardinality(K) + Cardinality(L)
  <2>1. Cardinality(K \cup M) = Cardinality(K) + Cardinality(M) - Cardinality({})
    BY <1>7, <1>8, FS_Union
  <2>2. Cardinality(K) \in Nat /\ Cardinality(M) \in Nat /\ Cardinality({}) = 0
    BY <1>7, FS_CardinalityType, FS_EmptySet
  <2> QED
    BY <1>7, <2>1, <2>2
<1> QED
  BY <1>2, <1>3, <1>4, <1>6, <1>9 DEF Count

(* The head, and the rest.                                                 *)
LEMMA CountTail ==
  ASSUME NEW S, NEW seq \in Seq(S), seq # <<>>, NEW x
  PROVE  /\ Tail(seq) \in Seq(S) /\ Head(seq) \in S
         /\ Count(seq, x) = Count(Tail(seq), x) + (IF Head(seq) = x THEN 1 ELSE 0)
         /\ Members(Tail(seq)) \subseteq Members(seq)
         /\ Head(seq) \in Members(seq)
<1>1. PICK h, t, o : h = Head(seq) /\ t = Tail(seq) /\ o = Append(<<>>, h)
  OBVIOUS
<1>2. h \in S /\ t \in Seq(S) /\ o \in Seq(S) /\ seq = o \o t
  BY <1>1
<1>3. Count(seq, x) = Count(o, x) + Count(t, x)
  BY <1>2, CountConcat
<1>4. Count(o, x) = Count(<<>>, x) + (IF h = x THEN 1 ELSE 0)
  <2>1. <<>> \in Seq(S)
    OBVIOUS
  <2>2. \A e \in Seq(S) :
          Count(Append(e, h), x) = Count(e, x) + (IF h = x THEN 1 ELSE 0)
    BY <1>2, CountAppend
  <2> QED
    BY <1>1, <2>1, <2>2
<1>5. Count(<<>>, x) = 0 /\ Count(t, x) \in Nat
  BY <1>2, CountEmpty, CountIs
<1>6. Members(t) \subseteq Members(seq) /\ h \in Members(seq)
  <2>1. 1 \in DOMAIN seq /\ seq[1] = h
    BY <1>1
  <2>2. \A k \in DOMAIN t : k + 1 \in DOMAIN seq /\ seq[k + 1] = t[k]
    BY <1>1
  <2> QED
    BY <2>1, <2>2 DEF Members
<1> QED
  BY <1>1, <1>2, <1>3, <1>4, <1>5, <1>6

-----------------------------------------------------------------------------
(* del_mapping's loop over a list.                                         *)

(* The recursion of RemoveAll, up to a place.                              *)
KeptBy(f, list, ext, n) ==
  f = [k \in 0 .. n |->
         IF k = 0 THEN <<>>
         ELSE IF list[k] = ext THEN f[k - 1]
         ELSE Append(f[k - 1], list[k])]

(* There is a function that satisfies it: the least place for which there  *)
(* is none would follow one for which there is.                            *)
LEMMA KeptExists ==
  ASSUME NEW S, NEW list \in Seq(S), NEW ext
  PROVE  \E f : KeptBy(f, list, ext, Len(list))
<1> DEFINE Bad == {n \in 0 .. Len(list) : ~\E f : KeptBy(f, list, ext, n)}
<1>1. ASSUME Bad # {} PROVE FALSE
  <2>0. Len(list) \in Nat
    OBVIOUS
  <2>1. PICK n \in Bad : \A j \in Bad : n <= j
    <3>1. Bad \in SUBSET Nat
      BY <2>0
    <3> HIDE DEF Bad
    <3> QED
      BY <1>1, <3>1, LeastNatural, Zenon
  <2>2. n # 0
    <3>1. KeptBy([k \in 0 .. 0 |-> <<>>], list, ext, 0)
      BY DEF KeptBy
    <3> QED
      BY <3>1
  <2>3. PICK f : KeptBy(f, list, ext, n - 1)
    BY <2>0, <2>1, <2>2
  <2> DEFINE g == [k \in 0 .. n |->
                     IF k \in 0 .. n - 1 THEN f[k]
                     ELSE IF list[n] = ext THEN f[n - 1]
                     ELSE Append(f[n - 1], list[n])]
  <2>4. KeptBy(g, list, ext, n)
    <3>1. ASSUME NEW k \in 0 .. n
          PROVE  g[k] = IF k = 0 THEN <<>>
                        ELSE IF list[k] = ext THEN g[k - 1]
                        ELSE Append(g[k - 1], list[k])
      <4>1. CASE k \in 0 .. n - 1
        <5>1. f[k] = IF k = 0 THEN <<>>
                     ELSE IF list[k] = ext THEN f[k - 1]
                     ELSE Append(f[k - 1], list[k])
          BY <2>3, <4>1 DEF KeptBy
        <5>2. g[k] = f[k] /\ (k # 0 => g[k - 1] = f[k - 1])
          BY <2>0, <2>1, <4>1
        <5> QED
          BY <5>1, <5>2
      <4>2. CASE k = n
        BY <2>0, <2>1, <2>2, <4>2
      <4> QED
        BY <2>0, <2>1, <4>1, <4>2
    <3> HIDE DEF g
    <3>2. g = [k \in 0 .. n |-> g[k]]
      BY DEF g
    <3> QED
      BY <3>1, <3>2 DEF KeptBy
  <2> QED
    BY <2>1, <2>4
<1>2. Len(list) \in 0 .. Len(list)
  OBVIOUS
<1> QED
  BY <1>1, <1>2

(* So RemoveAll is the last value of such a function.                      *)
LEMMA RemoveAllKept ==
  ASSUME NEW S, NEW list \in Seq(S), NEW ext
  PROVE  \E f : KeptBy(f, list, ext, Len(list)) /\ RemoveAll(list, ext) = f[Len(list)]
<1>1. RemoveAll(list, ext) =
        (CHOOSE f : KeptBy(f, list, ext, Len(list)))[Len(list)]
  BY Zenon DEF RemoveAll, KeptBy
<1> QED
  BY <1>1, KeptExists, Zenon

(* del_mapping takes every entry of the id from the list and no other.     *)
LEMMA RemoveAllIs ==
  ASSUME NEW S, NEW list \in Seq(S), NEW ext, NEW x
  PROVE  /\ RemoveAll(list, ext) \in Seq(S)
         /\ Count(RemoveAll(list, ext), x) = IF x = ext THEN 0 ELSE Count(list, x)
<1>1. PICK f : /\ KeptBy(f, list, ext, Len(list))
               /\ RemoveAll(list, ext) = f[Len(list)]
  BY RemoveAllKept
<1> DEFINE Holds(n) == /\ f[n] \in Seq(S)
                       /\ Count(f[n], x) = IF x = ext THEN 0 ELSE UpTo(list, n, x)
           Bad == {n \in 0 .. Len(list) : ~Holds(n)}
<1>2. Len(list) \in Nat
  OBVIOUS
<1>3. f[0] = <<>>
  BY <1>1, <1>2 DEF KeptBy
<1>4. ASSUME NEW n \in 0 .. Len(list) - 1
      PROVE  f[n + 1] = IF list[n + 1] = ext THEN f[n] ELSE Append(f[n], list[n + 1])
  <2>1. n + 1 \in 0 .. Len(list) /\ n + 1 # 0 /\ (n + 1) - 1 = n
    BY <1>2
  <2> QED
    BY <1>1, <2>1 DEF KeptBy
<1>5. Holds(0)
  BY <1>3, CountEmpty, UpToZero
<1>6. ASSUME NEW n \in 0 .. Len(list) - 1, Holds(n) PROVE Holds(n + 1)
  <2>1. n \in Nat /\ list[n + 1] \in S
    BY <1>2
  <2>2. PICK c, u : c = Count(f[n], x) /\ u = UpTo(list, n, x)
    OBVIOUS
  <2>3. u \in Nat /\ c = IF x = ext THEN 0 ELSE u
    BY <1>6, <2>1, <2>2, UpToIs
  <2>4. UpTo(list, n + 1, x) = u + (IF list[n + 1] = x THEN 1 ELSE 0)
    BY <2>1, <2>2, UpToNext
  <2>5. CASE list[n + 1] = ext
    BY <1>4, <1>6, <2>2, <2>3, <2>4, <2>5
  <2>6. CASE list[n + 1] # ext
    <3>1. f[n + 1] = Append(f[n], list[n + 1])
      BY <1>4, <2>6
    <3>2. Count(f[n + 1], x) = c + (IF list[n + 1] = x THEN 1 ELSE 0)
      BY <1>6, <2>1, <2>2, <3>1, CountAppend
    <3> QED
      BY <1>6, <2>1, <2>3, <2>4, <2>6, <3>1, <3>2
  <2> QED
    BY <2>5, <2>6
<1> HIDE DEF Holds
<1>7. ASSUME Bad # {} PROVE FALSE
  <2>1. Bad \in SUBSET Nat
    BY <1>2
  <2>2. PICK n \in Bad : \A j \in Bad : n <= j
    <3> HIDE DEF Bad
    <3> QED
      BY <1>7, <2>1, LeastNatural, Zenon
  <2>3. n # 0
    BY <1>5, <2>2
  <2>4. n - 1 \in 0 .. Len(list) - 1 /\ (n - 1) + 1 = n /\ n - 1 \notin Bad
    BY <1>2, <2>2, <2>3
  <2>5. Holds(n - 1)
    BY <1>2, <2>4
  <2> QED
    BY <1>6, <2>2, <2>4, <2>5
<1>8. Holds(Len(list))
  <2>1. Len(list) \in 0 .. Len(list)
    BY <1>2
  <2> QED
    BY <1>7, <2>1
<1> QED
  BY <1>1, <1>8, CountIs DEF Holds

-----------------------------------------------------------------------------
(* The names that stand for nothing.                                       *)
LEMMA Distinct ==
  /\ NullId \notin Ids /\ Ids \subseteq Nat
  /\ None \notin Worker /\ None \notin Path /\ None \notin Sensor
  /\ None # Receiver
<1>1. NullId \notin Ids /\ Ids \subseteq Nat
  BY IdAssumption DEF Ids, NullId
<1> QED
  BY <1>1, ReceiverAssumption DEF Receiver

(* A stream under way has an id, which nobody else has, and which leads to *)
(* nothing else in the tables.                                             *)
LEMMA OwnId ==
  ASSUME IInv, NEW w \in Worker, HasId(w)
  PROVE  /\ subId[w] \in Ids /\ subId[w] \in used
         /\ \A v \in Worker : HasId(v) /\ subId[v] = subId[w] => v = w
         /\ workerStore[subId[w]] \in {w, None}
         /\ ~InTables(w) => /\ workerStore[subId[w]] = None
                            /\ \A i \in Sensor : Count(extList[i], subId[w]) = 0
<1>1. /\ subId[w] \in Ids /\ subId[w] \in used
      /\ \A v \in Worker : HasId(v) /\ subId[v] = subId[w] => v = w
  BY DEF IInv, TypeOK, IdInv
<1>2. \A v \in Worker : InTables(v) => HasId(v)
  BY DEF InTables, HasId
<1>3. workerStore[subId[w]] \in Worker \cup {None}
  BY <1>1 DEF IInv, TypeOK
<1>4. \A v \in Worker : workerStore[subId[w]] = v => v = w /\ InTables(v)
  BY <1>1, <1>2 DEF IInv, TableInv
<1>5. ASSUME ~InTables(w), NEW i \in Sensor
      PROVE  Count(extList[i], subId[w]) = 0
  <2>1. subId[w] \notin Members(extList[i])
    BY <1>1, <1>2, <1>5 DEF IInv, MapInv
  <2>2. PICK list \in Seq(Ids) : list = extList[i]
    BY DEF IInv, TypeOK
  <2>3. PICK e : e = subId[w]
    OBVIOUS
  <2>4. Count(list, e) = 0 <=> e \notin Members(list)
    BY CountIs
  <2> QED
    BY <2>1, <2>2, <2>3, <2>4
<1> QED
  BY <1>1, <1>3, <1>4, <1>5

(* What a step of a stream leaves alone: the fan-out, if there is one, and *)
(* what was delivered.                                                     *)
LEMMA StreamQuiet ==
  ASSUME IInv, UNCHANGED <<out, q, threadVars, rmutex, subId, handle>>,
         \A v \in Worker : wpc'[v] = "write" <=> wpc[v] = "write",
         rmutex # None => /\ extList' = extList
                          /\ \A v \in Worker : InTables(v)' => InTables(v)
  PROVE  FanInv' /\ DeliveryInv' /\ OwnInv'
<1>1. FanInv'
  BY Distinct DEF IInv, FanInv, threadVars
<1>2. \A v \in Worker : Delivery(v)' = Delivery(v)
  BY DEF Delivery
<1>3. ToCome' = ToCome /\ UNCHANGED <<rpc, packet, received>>
  BY DEF ToCome, threadVars
<1>4. rpc \in {"fan", "notify"} => \A v \in Worker : InTables(v)' => InTables(v)
  BY Distinct DEF IInv, FanInv
<1>5. ASSUME NEW v \in Worker PROVE DeliverySound(v)'
  BY <1>2, <1>3, <1>4 DEF IInv, DeliveryInv, DeliverySound, Ordered
<1>6. OwnInv'
  BY DEF IInv, OwnInv
<1> QED
  BY <1>1, <1>5, <1>6 DEF DeliveryInv

(* add_worker: the entry was free.                                         *)
LEMMA AddWorkerInv ==
  ASSUME IInv, NEW w \in Worker, AddWorker(w)
  PROVE  IInv'
<1>1. PICK e : e = subId[w]
  OBVIOUS
<1>2. /\ spc[w] = "created" /\ HasId(w) /\ ~InTables(w) /\ rmutex = None
      /\ spc' = [spc EXCEPT ![w] = "mapping"]
      /\ UNCHANGED <<subId, used, handle, sensor, next, store2, dmutex, extList,
                     threadVars, rmutex, workerVars>>
  BY DEF AddWorker, Goto, HasId, InTables
<1>3. /\ e \in Ids /\ workerStore[e] = None
      /\ \A v \in Worker : HasId(v) /\ subId[v] = e => v = w
      /\ \A i \in Sensor : Count(extList[i], e) = 0
  BY <1>1, <1>2, OwnId
<1>4. workerStore' = [workerStore EXCEPT ![e] = w]
  BY <1>1, <1>3 DEF AddWorker
<1>5. /\ \A v \in Worker \ {w} : spc'[v] = spc[v]
      /\ spc'[w] = "mapping"
      /\ \A v \in Worker : HasId(v)' <=> HasId(v)
      /\ \A v \in Worker : InTables(v)' <=> InTables(v) \/ v = w
  BY <1>2 DEF IInv, TypeOK, HasId, InTables
<1>6. TypeOK'
  BY <1>2, <1>3, <1>4 DEF IInv, TypeOK, WorkerTypeOK, workerVars, threadVars
<1>7. IdInv'
  BY <1>2, <1>5 DEF IInv, IdInv
<1>8. TableInv'
  BY <1>1, <1>2, <1>3, <1>4, <1>5, Distinct DEF IInv, TypeOK, TableInv
<1>9. ThreadInv'
  BY <1>2, <1>5 DEF IInv, ThreadInv, workerVars, InTables
<1>10. LoopInv' /\ SensorInv'
  BY <1>2, <1>5 DEF IInv, LoopInv, SensorInv
<1>11. MapInv'
  <2>1. next[w] = 0
    BY <1>2 DEF IInv, LoopInv
  <2>2. ASSUME NEW i \in Sensor, NEW v \in Worker PROVE MapSound(v, i)'
    BY <1>1, <1>2, <1>3, <1>5, <2>1, UpToZero DEF IInv, MapInv, MapSound
  <2> QED
    BY <1>2, <1>5, <2>2 DEF IInv, MapInv
<1>12. FanInv' /\ DeliveryInv' /\ OwnInv'
  BY <1>2, StreamQuiet DEF workerVars
<1> QED
  BY <1>6, <1>7, <1>8, <1>9, <1>10, <1>11, <1>12 DEF IInv

(* add_mapping: one entry more, for one place more of the handle.          *)
LEMMA AddMappingInv ==
  ASSUME IInv, NEW w \in Worker, AddMapping(w)
  PROVE  IInv'
<1>1. PICK e, h, n : e = subId[w] /\ h = handle[w] /\ n = next[w]
  OBVIOUS
<1>2. PICK j : j = h[n + 1]
  OBVIOUS
<1>3. /\ spc[w] = "mapping" /\ HasId(w) /\ InTables(w) /\ rmutex = None
      /\ h \in Seq(Sensor) /\ n \in Nat /\ n < Len(h) /\ j \in Sensor
      /\ next' = [next EXCEPT ![w] = n + 1]
      /\ extList' = [extList EXCEPT ![j] = Append(@, e)]
      /\ UNCHANGED <<spc, subId, used, handle, sensor, store2, dmutex, workerStore,
                     threadVars, rmutex, workerVars>>
  BY <1>1, <1>2 DEF AddMapping, PushBack, HasId, InTables, IInv, TypeOK
<1>4. /\ e \in Ids
      /\ \A v \in Worker : HasId(v) /\ subId[v] = e => v = w
  BY <1>1, <1>3, OwnId
<1>5. TypeOK'
  <2>1. extList' \in [Sensor -> Seq(Ids)] /\ next' \in [Worker -> Nat]
    BY <1>3, <1>4 DEF IInv, TypeOK
  <2>2. /\ UNCHANGED <<spc, subId, used, handle, sensor, store2, dmutex, workerStore>>
        /\ UNCHANGED <<rpc, packet, todo, received, rmutex>>
        /\ UNCHANGED <<wpc, dontTerminate, q, m, out>>
    BY <1>3 DEF workerVars, threadVars
  <2> QED
    BY <2>1, <2>2 DEF IInv, TypeOK, WorkerTypeOK
<1>6. IdInv' /\ TableInv' /\ ThreadInv' /\ SensorInv'
  BY <1>3 DEF IInv, IdInv, TableInv, ThreadInv, SensorInv, workerVars, HasId, InTables
<1>7. LoopInv'
  BY <1>1, <1>3 DEF IInv, TypeOK, LoopInv
<1>8. ASSUME NEW i \in Sensor, NEW x
      PROVE  /\ Count(extList'[i], x) =
                 Count(extList[i], x) + (IF i = j /\ e = x THEN 1 ELSE 0)
             /\ Count(extList[i], x) \in Nat
             /\ x \in Members(extList'[i]) => x \in Members(extList[i]) \/ x = e
  <2>1. PICK list \in Seq(Ids) : list = extList[i]
    BY DEF IInv, TypeOK
  <2>2. PICK more \in Seq(Ids) : more = extList'[i]
    BY <1>5 DEF TypeOK
  <2>3. more = IF i = j THEN Append(list, e) ELSE list
    BY <1>3, <2>1, <2>2 DEF IInv, TypeOK
  <2>4. Count(Append(list, e), x) = Count(list, x) + (IF e = x THEN 1 ELSE 0)
    BY <1>4, CountAppend
  <2>5. /\ Count(list, x) \in Nat
        /\ Count(list, x) = 0 <=> x \notin Members(list)
        /\ Count(more, x) = 0 <=> x \notin Members(more)
    BY CountIs
  <2> QED
    BY <2>1, <2>2, <2>3, <2>4, <2>5
<1>9. ASSUME NEW i \in Sensor
      PROVE  UpTo(h, n + 1, i) = UpTo(h, n, i) + (IF j = i THEN 1 ELSE 0)
  BY <1>2, <1>3, UpToNext
<1>10. ASSUME NEW i \in Sensor, NEW v \in Worker PROVE MapSound(v, i)'
  <2>1. MapSound(v, i)
    BY DEF IInv, MapInv
  <2>2. CASE v = w
    <3>1. next'[w] = n + 1 /\ handle'[w] = h /\ spc'[w] = "mapping"
          /\ subId'[w] = e
      BY <1>1, <1>3 DEF IInv, TypeOK
    <3>2. Count(extList[i], e) = UpTo(h, n, i)
      BY <1>1, <1>3, <2>1, <2>2 DEF MapSound
    <3> QED
      BY <1>8, <1>9, <2>2, <3>1, <3>2 DEF MapSound
  <2>3. CASE v # w
    <3>1. /\ next'[v] = next[v] /\ handle'[v] = handle[v] /\ spc'[v] = spc[v]
          /\ subId'[v] = subId[v]
      BY <1>3, <2>3 DEF IInv, TypeOK
    <3>2. InTables(v) => Count(extList'[i], subId[v]) = Count(extList[i], subId[v])
      BY <1>4, <1>8, <2>3 DEF InTables, HasId
    <3> QED
      BY <2>1, <3>1, <3>2 DEF MapSound, InTables
  <2> QED
    BY <2>2, <2>3
<1>11. MapInv'
  <2>1. ASSUME NEW i \in Sensor, NEW x \in Members(extList'[i])
        PROVE  \E v \in Worker : InTables(v)' /\ subId'[v] = x
    BY <1>1, <1>3, <1>8, <2>1 DEF IInv, MapInv, InTables
  <2> QED
    BY <1>10, <2>1 DEF MapInv
<1>12. FanInv' /\ DeliveryInv' /\ OwnInv'
  BY <1>3, StreamQuiet DEF workerVars
<1> QED
  BY <1>5, <1>6, <1>7, <1>11, <1>12 DEF IInv

(* The loop of add_mapping is at its end: the list is the handle's.        *)
LEMMA SendMetaDataInv ==
  ASSUME IInv, NEW w \in Worker, SendMetaData(w)
  PROVE  IInv'
<1>1. /\ spc[w] = "mapping" /\ spc' = [spc EXCEPT ![w] = "serving"]
      /\ next[w] = Len(handle[w])
      /\ UNCHANGED <<subId, used, handle, sensor, next, store2, dmutex, extList,
                     workerStore, threadVars, rmutex, workerVars>>
  BY DEF SendMetaData, Goto, tableVars
<1>2. /\ \A v \in Worker \ {w} : spc'[v] = spc[v]
      /\ spc'[w] = "serving"
      /\ \A v \in Worker : HasId(v)' <=> HasId(v)
      /\ \A v \in Worker : InTables(v)' <=> InTables(v)
  BY <1>1 DEF IInv, TypeOK, HasId, InTables
<1>3. TypeOK'
  BY <1>1 DEF IInv, TypeOK, WorkerTypeOK, workerVars, threadVars
<1>4. IdInv' /\ TableInv'
  BY <1>1, <1>2 DEF IInv, IdInv, TableInv
<1>5. ThreadInv'
  BY <1>1, <1>2 DEF IInv, ThreadInv, workerVars
<1>6. LoopInv' /\ SensorInv'
  BY <1>1, <1>2 DEF IInv, LoopInv, SensorInv
<1>7. ASSUME NEW i \in Sensor, NEW v \in Worker PROVE MapSound(v, i)'
  <2>1. MapSound(v, i)
    BY DEF IInv, MapInv
  <2>2. PICK h \in Seq(Sensor) : h = handle[w]
    BY DEF IInv, TypeOK
  <2>3. UpTo(h, Len(h), i) = Count(h, i)
    BY CountIs
  <2> QED
    BY <1>1, <1>2, <2>1, <2>2, <2>3 DEF MapSound
<1>8. MapInv'
  BY <1>1, <1>2, <1>7 DEF IInv, MapInv
<1>9. FanInv' /\ DeliveryInv' /\ OwnInv'
  BY <1>1, <1>2, StreamQuiet DEF workerVars
<1> QED
  BY <1>3, <1>4, <1>5, <1>6, <1>8, <1>9 DEF IInv

(* The cleanup begins with all entries of the handle in the lists.         *)
LEMMA BeginCleanupInv ==
  ASSUME IInv, NEW w \in Worker, BeginCleanup(w)
  PROVE  IInv'
<1>1. /\ spc[w] = "serving" /\ spc' = [spc EXCEPT ![w] = "unmapping"]
      /\ next' = [next EXCEPT ![w] = 0] /\ dmutex' = w
      /\ UNCHANGED <<subId, used, handle, sensor, store2, extList, workerStore,
                     threadVars, rmutex, workerVars>>
  BY DEF BeginCleanup, Goto, tableVars
<1>2. /\ \A v \in Worker \ {w} : spc'[v] = spc[v] /\ next'[v] = next[v]
      /\ spc'[w] = "unmapping" /\ next'[w] = 0
      /\ \A v \in Worker : HasId(v)' <=> HasId(v)
      /\ \A v \in Worker : InTables(v)' <=> InTables(v)
  BY <1>1 DEF IInv, TypeOK, HasId, InTables
<1>3. TypeOK'
  BY <1>1 DEF IInv, TypeOK, WorkerTypeOK, workerVars, threadVars
<1>4. IdInv' /\ TableInv'
  BY <1>1, <1>2 DEF IInv, IdInv, TableInv
<1>5. ThreadInv'
  BY <1>1, <1>2 DEF IInv, ThreadInv, workerVars
<1>6. LoopInv' /\ SensorInv'
  BY <1>1, <1>2 DEF IInv, TypeOK, LoopInv, SensorInv
<1>7. ASSUME NEW i \in Sensor, NEW v \in Worker PROVE MapSound(v, i)'
  <2>1. MapSound(v, i)
    BY DEF IInv, MapInv
  <2>2. PICK h \in Seq(Sensor) : h = handle[w]
    BY DEF IInv, TypeOK
  <2>3. Count(h, i) \in Nat /\ UpTo(h, 0, i) = 0
    BY CountIs, UpToZero
  <2> QED
    BY <1>1, <1>2, <2>1, <2>2, <2>3 DEF MapSound
<1>8. MapInv'
  BY <1>1, <1>2, <1>7 DEF IInv, MapInv
<1>9. FanInv' /\ DeliveryInv' /\ OwnInv'
  BY <1>1, <1>2, StreamQuiet DEF workerVars
<1> QED
  BY <1>3, <1>4, <1>5, <1>6, <1>8, <1>9 DEF IInv

(* del_mapping: all entries of the id leave one list.                      *)
LEMMA DelMappingInv ==
  ASSUME IInv, NEW w \in Worker, DelMapping(w)
  PROVE  IInv'
<1>1. PICK e, h, n : e = subId[w] /\ h = handle[w] /\ n = next[w]
  OBVIOUS
<1>2. PICK j : j = h[n + 1]
  OBVIOUS
<1>3. /\ spc[w] = "unmapping" /\ HasId(w) /\ InTables(w) /\ rmutex = None
      /\ h \in Seq(Sensor) /\ n \in Nat /\ n < Len(h) /\ j \in Sensor
      /\ next' = [next EXCEPT ![w] = n + 1]
      /\ extList' = [extList EXCEPT ![j] = RemoveAll(@, e)]
      /\ UNCHANGED <<spc, subId, used, handle, sensor, store2, dmutex, workerStore,
                     threadVars, rmutex, workerVars>>
  BY <1>1, <1>2 DEF DelMapping, HasId, InTables, IInv, TypeOK
<1>4. /\ e \in Ids
      /\ \A v \in Worker : HasId(v) /\ subId[v] = e => v = w
  BY <1>1, <1>3, OwnId
<1>5. ASSUME NEW i \in Sensor, NEW x
      PROVE  /\ extList'[i] \in Seq(Ids)
             /\ Count(extList'[i], x) =
                  IF i = j /\ x = e THEN 0 ELSE Count(extList[i], x)
             /\ x \in Members(extList'[i]) => x \in Members(extList[i])
  <2>1. PICK list \in Seq(Ids) : list = extList[i]
    BY DEF IInv, TypeOK
  <2>2. PICK less : less = extList'[i]
    OBVIOUS
  <2>3. less = IF i = j THEN RemoveAll(list, e) ELSE list
    BY <1>3, <2>1, <2>2 DEF IInv, TypeOK
  <2>4. /\ RemoveAll(list, e) \in Seq(Ids)
        /\ Count(RemoveAll(list, e), x) = IF x = e THEN 0 ELSE Count(list, x)
    BY RemoveAllIs
  <2>5. less \in Seq(Ids)
    BY <2>3, <2>4
  <2>6. /\ Count(list, x) = 0 <=> x \notin Members(list)
        /\ Count(less, x) = 0 <=> x \notin Members(less)
    BY <2>5, CountIs
  <2> QED
    BY <2>1, <2>2, <2>3, <2>4, <2>5, <2>6
<1>6. TypeOK'
  <2>1. extList' \in [Sensor -> Seq(Ids)]
    BY <1>3, <1>5 DEF IInv, TypeOK
  <2>2. next' \in [Worker -> Nat]
    BY <1>3 DEF IInv, TypeOK
  <2>3. /\ UNCHANGED <<spc, subId, used, handle, sensor, store2, dmutex, workerStore>>
        /\ UNCHANGED <<rpc, packet, todo, received, rmutex>>
        /\ UNCHANGED <<wpc, dontTerminate, q, m, out>>
    BY <1>3 DEF workerVars, threadVars
  <2> QED
    BY <2>1, <2>2, <2>3 DEF IInv, TypeOK, WorkerTypeOK
<1>7. IdInv' /\ TableInv' /\ ThreadInv' /\ SensorInv'
  BY <1>3 DEF IInv, IdInv, TableInv, ThreadInv, SensorInv, workerVars, HasId, InTables
<1>8. LoopInv'
  BY <1>1, <1>3 DEF IInv, TypeOK, LoopInv
<1>9. ASSUME NEW i \in Sensor
      PROVE  /\ UpTo(h, n + 1, i) = UpTo(h, n, i) + (IF j = i THEN 1 ELSE 0)
             /\ UpTo(h, n, i) \in Nat /\ Count(h, i) \in Nat
  BY <1>2, <1>3, UpToNext, UpToIs, CountIs
<1>10. ASSUME NEW i \in Sensor, NEW v \in Worker PROVE MapSound(v, i)'
  <2>1. MapSound(v, i)
    BY DEF IInv, MapInv
  <2>2. CASE v = w
    <3>1. next'[w] = n + 1 /\ handle'[w] = h /\ spc'[w] = "unmapping"
          /\ subId'[w] = e
      BY <1>1, <1>3 DEF IInv, TypeOK
    <3>2. /\ Count(extList[i], e) <= Count(h, i)
          /\ UpTo(h, n, i) # 0 => Count(extList[i], e) = 0
      BY <1>1, <1>3, <2>1, <2>2 DEF MapSound
    <3> QED
      BY <1>5, <1>9, <2>2, <3>1, <3>2 DEF MapSound
  <2>3. CASE v # w
    <3>1. /\ next'[v] = next[v] /\ handle'[v] = handle[v] /\ spc'[v] = spc[v]
          /\ subId'[v] = subId[v]
      BY <1>3, <2>3 DEF IInv, TypeOK
    <3>2. InTables(v) => Count(extList'[i], subId[v]) = Count(extList[i], subId[v])
      BY <1>4, <1>5, <2>3 DEF InTables, HasId
    <3> QED
      BY <2>1, <3>1, <3>2 DEF MapSound, InTables
  <2> QED
    BY <2>2, <2>3
<1>11. MapInv'
  <2>1. ASSUME NEW i \in Sensor, NEW x \in Members(extList'[i])
        PROVE  \E v \in Worker : InTables(v)' /\ subId'[v] = x
    BY <1>3, <1>5, <2>1 DEF IInv, MapInv, InTables
  <2> QED
    BY <1>10, <2>1 DEF MapInv
<1>12. FanInv' /\ DeliveryInv' /\ OwnInv'
  BY <1>3, StreamQuiet DEF workerVars
<1> QED
  BY <1>6, <1>7, <1>8, <1>11, <1>12 DEF IInv

(* del_worker: by then no list has the id any more.                        *)
LEMMA DelWorkerInv ==
  ASSUME IInv, NEW w \in Worker, DelWorker(w)
  PROVE  IInv'
<1>1. PICK e : e = subId[w]
  OBVIOUS
<1>2. /\ spc[w] = "unmapping" /\ HasId(w) /\ InTables(w) /\ rmutex = None
      /\ next[w] = Len(handle[w])
      /\ spc' = [spc EXCEPT ![w] = "terminate"]
      /\ workerStore' = [workerStore EXCEPT ![e] = None]
      /\ UNCHANGED <<subId, used, handle, sensor, next, store2, dmutex, extList,
                     threadVars, rmutex, workerVars>>
  BY <1>1 DEF DelWorker, Goto, Unmapped, EraseEntry, HasId, InTables
<1>3. /\ e \in Ids
      /\ \A v \in Worker : HasId(v) /\ subId[v] = e => v = w
  BY <1>1, <1>2, OwnId
<1>4. /\ \A v \in Worker \ {w} : spc'[v] = spc[v]
      /\ spc'[w] = "terminate"
      /\ \A v \in Worker : HasId(v)' <=> HasId(v)
      /\ \A v \in Worker : InTables(v)' <=> InTables(v) /\ v # w
      /\ \A v \in Worker : InTables(v) => HasId(v)
  BY <1>2 DEF IInv, TypeOK, HasId, InTables
<1>5. TypeOK'
  BY <1>2, <1>3 DEF IInv, TypeOK, WorkerTypeOK, workerVars, threadVars
<1>6. IdInv'
  BY <1>2, <1>4 DEF IInv, IdInv
<1>7. TableInv'
  BY <1>1, <1>2, <1>3, <1>4, Distinct DEF IInv, TypeOK, TableInv
<1>8. ThreadInv'
  BY <1>2, <1>4 DEF IInv, ThreadInv, workerVars
<1>9. LoopInv' /\ SensorInv'
  BY <1>2, <1>4 DEF IInv, LoopInv, SensorInv
<1>10. ASSUME NEW i \in Sensor PROVE e \notin Members(extList[i])
  <2>1. PICK h \in Seq(Sensor) : h = handle[w]
    BY DEF IInv, TypeOK
  <2>2. PICK list \in Seq(Ids) : list = extList[i]
    BY DEF IInv, TypeOK
  <2>3. /\ UpTo(h, Len(h), i) = Count(h, i) /\ Count(h, i) \in Nat
        /\ Count(list, e) \in Nat
        /\ Count(list, e) = 0 <=> e \notin Members(list)
    BY CountIs
  <2>4. /\ Count(list, e) <= Count(h, i)
        /\ UpTo(h, Len(h), i) # 0 => Count(list, e) = 0
    BY <1>1, <1>2, <2>1, <2>2 DEF IInv, MapInv, MapSound
  <2> QED
    BY <2>2, <2>3, <2>4
<1>11. MapInv'
  <2>1. ASSUME NEW i \in Sensor, NEW v \in Worker PROVE MapSound(v, i)'
    BY <1>2, <1>4 DEF IInv, MapInv, MapSound
  <2>2. ASSUME NEW i \in Sensor, NEW x \in Members(extList[i])
        PROVE  \E v \in Worker : InTables(v)' /\ subId[v] = x
    BY <1>1, <1>4, <1>10 DEF IInv, MapInv
  <2> QED
    BY <1>2, <2>1, <2>2 DEF MapInv
<1>12. FanInv' /\ DeliveryInv' /\ OwnInv'
  BY <1>2, StreamQuiet DEF workerVars
<1> QED
  BY <1>5, <1>6, <1>7, <1>8, <1>9, <1>11, <1>12 DEF IInv

(* setTerminate, both steps, touches a worker that is out of the tables.   *)
LEMMA TerminateInv ==
  ASSUME IInv, NEW w \in Worker, SetTerminate(w) \/ NotifyTerminate(w)
  PROVE  IInv'
<1>1. /\ \/ spc[w] = "terminate" /\ spc' = [spc EXCEPT ![w] = "notify"]
         \/ spc[w] = "notify" /\ spc' = [spc EXCEPT ![w] = "join"]
      /\ UNCHANGED <<subId, used, handle, sensor, next, store2, dmutex,
                     extList, workerStore, threadVars, rmutex, q, m, out>>
  BY DEF SetTerminate, NotifyTerminate, Goto, tableVars
<1>2. /\ \A v \in Worker \ {w} : spc'[v] = spc[v]
      /\ spc'[w] \in {"notify", "join"}
      /\ \A v \in Worker : HasId(v)' <=> HasId(v)
      /\ \A v \in Worker : InTables(v)' <=> InTables(v)
  BY <1>1 DEF IInv, TypeOK, HasId, InTables
<1>3. /\ \/ wpc' = wpc
         \/ wpc[w] = "waiting" /\ wpc' = [wpc EXCEPT ![w] = "woken"]
      /\ \/ dontTerminate' = dontTerminate
         \/ dontTerminate' = [dontTerminate EXCEPT ![w] = FALSE]
  BY DEF SetTerminate, NotifyTerminate, ClearFlag, NotifyOne
<1>4. TypeOK'
  BY <1>1, <1>3 DEF IInv, TypeOK, WorkerTypeOK, threadVars
<1>5. IdInv' /\ TableInv'
  BY <1>1, <1>2 DEF IInv, IdInv, TableInv
<1>6. ThreadInv'
  <2>1. /\ spc[w] \in {"terminate", "notify"}
        /\ \A v \in Worker \ {w} : /\ wpc'[v] = wpc[v]
                                    /\ dontTerminate'[v] = dontTerminate[v]
        /\ wpc'[w] = wpc[w] \/ (wpc[w] = "waiting" /\ wpc'[w] = "woken")
        /\ dontTerminate'[w] => dontTerminate[w]
    BY <1>1, <1>3 DEF IInv, TypeOK, WorkerTypeOK
  <2> QED
    BY <1>1, <1>2, <2>1 DEF IInv, ThreadInv, InTables
<1>7. LoopInv' /\ SensorInv'
  BY <1>1, <1>2 DEF IInv, LoopInv, SensorInv
<1>8. MapInv'
  <2>1. ASSUME NEW i \in Sensor, NEW v \in Worker PROVE MapSound(v, i)'
    BY <1>1, <1>2 DEF IInv, MapInv, MapSound
  <2> QED
    BY <1>1, <1>2, <2>1 DEF IInv, MapInv
<1>9. FanInv' /\ DeliveryInv' /\ OwnInv'
  <2>1. \A v \in Worker : wpc'[v] = "write" <=> wpc[v] = "write"
    BY <1>3 DEF IInv, TypeOK, WorkerTypeOK
  <2> QED
    BY <1>1, <1>2, <2>1, StreamQuiet
<1> QED
  BY <1>4, <1>5, <1>6, <1>7, <1>8, <1>9 DEF IInv

(* The thread has ended, and the worker leaves its store.                  *)
LEMMA JoinInv ==
  ASSUME IInv, NEW w \in Worker, Join(w)
  PROVE  IInv'
<1>1. PICK e : e = subId[w]
  OBVIOUS
<1>2. /\ spc[w] = "join" /\ HasId(w) /\ wpc[w] = "done"
      /\ spc' = [spc EXCEPT ![w] = "joined"]
      /\ store2' = [store2 EXCEPT ![e] = None]
      /\ UNCHANGED <<subId, used, handle, sensor, next, dmutex, extList,
                     workerStore, threadVars, rmutex, workerVars>>
  BY <1>1 DEF Join, Goto, Joined, HasId, tableVars
<1>3. /\ e \in Ids
      /\ \A v \in Worker : HasId(v) /\ subId[v] = e => v = w
  BY <1>1, <1>2, OwnId
<1>4. /\ \A v \in Worker \ {w} : spc'[v] = spc[v]
      /\ spc'[w] = "joined"
      /\ \A v \in Worker : HasId(v)' <=> HasId(v)
      /\ \A v \in Worker : InTables(v)' <=> InTables(v)
  BY <1>2 DEF IInv, TypeOK, HasId, InTables
<1>5. TypeOK'
  BY <1>2, <1>3 DEF IInv, TypeOK, WorkerTypeOK, workerVars, threadVars
<1>6. IdInv'
  BY <1>2, <1>4 DEF IInv, IdInv
<1>7. TableInv'
  BY <1>1, <1>2, <1>3, <1>4, Distinct DEF IInv, TypeOK, TableInv
<1>8. ThreadInv'
  BY <1>2, <1>4 DEF IInv, ThreadInv, workerVars, InTables
<1>9. LoopInv' /\ SensorInv'
  BY <1>2, <1>4 DEF IInv, LoopInv, SensorInv
<1>10. MapInv'
  <2>1. ASSUME NEW i \in Sensor, NEW v \in Worker PROVE MapSound(v, i)'
    BY <1>2, <1>4 DEF IInv, MapInv, MapSound
  <2> QED
    BY <1>2, <1>4, <2>1 DEF IInv, MapInv
<1>11. FanInv' /\ DeliveryInv' /\ OwnInv'
  BY <1>2, <1>4, StreamQuiet DEF workerVars
<1> QED
  BY <1>5, <1>6, <1>7, <1>8, <1>9, <1>10, <1>11 DEF IInv

(* The id is given back, with the sensors that nobody else has.            *)
LEMMA RemoveRequestInv ==
  ASSUME IInv, NEW w \in Worker, RemoveRequest(w)
  PROVE  IInv'
<1>1. PICK e : e = subId[w]
  OBVIOUS
<1>2. /\ spc[w] = "joined" /\ HasId(w)
      /\ spc' = [spc EXCEPT ![w] = "done"]
      /\ used' = used \ {e} /\ dmutex' = None
      /\ sensor' = [i \in Sensor |->
                      IF \E v \in Worker \ {w} :
                           spc[v] # "done" /\ i \in Members(handle[v])
                      THEN sensor[i] ELSE None]
      /\ UNCHANGED <<subId, handle, next, store2, extList, workerStore,
                     threadVars, rmutex, workerVars>>
  BY <1>1 DEF RemoveRequest, Goto, Deallocate, HasId, tableVars
<1>3. /\ e \in Ids
      /\ \A v \in Worker : HasId(v) /\ subId[v] = e => v = w
  BY <1>1, <1>2, OwnId
<1>4. /\ \A v \in Worker \ {w} : spc'[v] = spc[v]
      /\ spc'[w] = "done"
      /\ \A v \in Worker : HasId(v)' <=> HasId(v) /\ v # w
      /\ \A v \in Worker : InTables(v)' <=> InTables(v)
  BY <1>2 DEF IInv, TypeOK, HasId, InTables
<1>5. TypeOK'
  BY <1>2 DEF IInv, TypeOK, WorkerTypeOK, workerVars, threadVars
<1>6. IdInv'
  BY <1>1, <1>2, <1>3, <1>4 DEF IInv, IdInv
<1>7. TableInv'
  BY <1>2, <1>4 DEF IInv, TableInv
<1>8. ThreadInv'
  BY <1>2, <1>4 DEF IInv, ThreadInv, workerVars, InTables
<1>9. LoopInv'
  BY <1>2, <1>4 DEF IInv, LoopInv
<1>10. SensorInv'
  BY <1>2, <1>4 DEF SensorInv
<1>11. MapInv'
  <2>1. ASSUME NEW i \in Sensor, NEW v \in Worker PROVE MapSound(v, i)'
    BY <1>2, <1>4 DEF IInv, MapInv, MapSound
  <2> QED
    BY <1>2, <1>4, <2>1 DEF IInv, MapInv
<1>12. FanInv' /\ DeliveryInv' /\ OwnInv'
  BY <1>2, <1>4, StreamQuiet DEF workerVars
<1> QED
  BY <1>5, <1>6, <1>7, <1>8, <1>9, <1>10, <1>11, <1>12 DEF IInv

(* A new stream takes an id that nobody has, and sensors of its own or in  *)
(* use; nothing was delivered to it.                                       *)
LEMMA SubscribeInv ==
  ASSUME IInv, NEW w \in Worker, NEW paths \in Requests, Subscribe(w, paths)
  PROVE  IInv'
<1>1. PICK e : e = NextId(used)
  OBVIOUS
<1>2. e \in Ids /\ e \notin used
  <2>1. PICK u : u = used
    OBVIOUS
  <2>2. /\ NextId(u) \in Ids \cup {NullId}
        /\ NextId(u) \in Ids => NextId(u) \notin u
    BY NextIdIsFree
  <2> QED
    BY <1>1, <2>1, <2>2 DEF Subscribe
<1>3. paths \in Seq(Path)
  BY ReceiverAssumption
<1>4. PICK id \in [Members(paths) -> Sensor] :
        /\ handle' = [handle EXCEPT ![w] = [k \in DOMAIN paths |-> id[paths[k]]]]
        /\ sensor' = [i \in Sensor |->
                        IF \E p \in Members(paths) : id[p] = i
                        THEN CHOOSE p \in Members(paths) : id[p] = i
                        ELSE sensor[i]]
  BY DEF Subscribe
<1>5. PICK h : h = [k \in DOMAIN paths |-> id[paths[k]]]
  OBVIOUS
<1>6. used' = used \cup {e} /\ handle' = [handle EXCEPT ![w] = h]
  <2>1. {e} \ {NullId} = {e}
    BY <1>2, Distinct
  <2>2. used' = used \cup ({e} \ {NullId})
    BY <1>1 DEF Subscribe, Allocate
  <2> QED
    BY <1>4, <1>5, <2>1, <2>2
<1>7. /\ spc[w] = "idle" /\ spc' = [spc EXCEPT ![w] = "created"]
      /\ subId' = [subId EXCEPT ![w] = e]
      /\ wpc[w] = "none" /\ wpc' = [wpc EXCEPT ![w] = "while"]
      /\ store2' = [store2 EXCEPT ![e] = w]
      /\ UNCHANGED <<next, dmutex, extList, workerStore, threadVars, rmutex,
                     dontTerminate, q, m, out>>
  BY <1>1 DEF Subscribe, Goto, StartThread, WGoto, tableVars
<1>8. /\ h \in Seq(Sensor) /\ Len(h) = Len(paths)
      /\ \A p \in Members(paths) : id[p] \in Members(h)
      /\ Members(paths) \subseteq Path
  <2>1. DOMAIN paths = 1 .. Len(paths) /\ Len(paths) \in Nat
        /\ \A k \in DOMAIN paths : paths[k] \in Members(paths) /\ paths[k] \in Path
    BY <1>3 DEF Members
  <2>2. h \in [1 .. Len(paths) -> Sensor]
    BY <1>4, <1>5, <2>1
  <2>3. h \in Seq(Sensor) /\ Len(h) = Len(paths)
    BY <2>1, <2>2
  <2> QED
    BY <1>5, <2>1, <2>3 DEF Members
<1>9. /\ \A v \in Worker \ {w} : /\ spc'[v] = spc[v] /\ subId'[v] = subId[v]
                                  /\ handle'[v] = handle[v] /\ wpc'[v] = wpc[v]
      /\ spc'[w] = "created" /\ subId'[w] = e /\ handle'[w] = h
      /\ wpc'[w] = "while"
      /\ \A v \in Worker : HasId(v)' <=> HasId(v) \/ v = w
      /\ \A v \in Worker : InTables(v)' <=> InTables(v)
      /\ ~HasId(w) /\ ~InTables(w)
  BY <1>6, <1>7 DEF IInv, TypeOK, WorkerTypeOK, HasId, InTables
<1>10. TypeOK'
  <2>1. sensor' \in [Sensor -> Path \cup {None}]
    BY <1>4, <1>8 DEF IInv, TypeOK
  <2> QED
    BY <1>2, <1>6, <1>7, <1>8, <2>1 DEF IInv, TypeOK, WorkerTypeOK, threadVars
<1>11. IdInv'
  BY <1>2, <1>6, <1>7, <1>9 DEF IInv, IdInv
<1>12. TableInv'
  <2>1. \A v \in Worker : HasId(v) => subId[v] # e
    BY <1>2 DEF IInv, IdInv
  <2>2. \A v \in Worker : InTables(v) => HasId(v)
    BY DEF InTables, HasId
  <2> QED
    BY <1>2, <1>6, <1>7, <1>9, <2>1, <2>2 DEF IInv, TypeOK, TableInv
<1>13. ThreadInv'
  BY <1>6, <1>7, <1>9 DEF IInv, ThreadInv
<1>14. LoopInv'
  <2>1. Len(h) \in Nat
    BY <1>8
  <2> QED
    BY <1>6, <1>7, <1>9, <2>1 DEF IInv, LoopInv
<1>15. SensorInv'
  <2>1. ASSUME NEW i \in Sensor, sensor'[i] # None
        PROVE  i \in Members(h) \/ sensor[i] # None
    BY <1>4, <1>8, <2>1
  <2>2. Members(handle[w]) = {}
    BY <1>6, <1>7 DEF IInv, LoopInv, Members
  <2> QED
    BY <1>9, <2>1, <2>2 DEF IInv, SensorInv
<1>16. MapInv'
  <2>1. ASSUME NEW i \in Sensor, NEW v \in Worker PROVE MapSound(v, i)'
    BY <1>6, <1>7, <1>9 DEF IInv, MapInv, MapSound
  <2>2. ASSUME NEW i \in Sensor, NEW x \in Members(extList'[i])
        PROVE  \E v \in Worker : InTables(v)' /\ subId'[v] = x
    <3>1. PICK v \in Worker : InTables(v) /\ subId[v] = x
      BY <1>7, <2>2 DEF IInv, MapInv
    <3> QED
      BY <1>9, <3>1
  <2> QED
    BY <2>1, <2>2 DEF MapInv
<1>17. FanInv'
  BY <1>6, <1>7 DEF IInv, FanInv, threadVars
<1>18. DeliveryInv'
  <2>1. ToCome' = ToCome /\ UNCHANGED <<rpc, packet, received>>
    BY <1>6, <1>7 DEF ToCome, threadVars
  <2>2. ASSUME NEW v \in Worker \ {w} PROVE DeliverySound(v)'
    <3>1. Delivery(v)' = Delivery(v)
      BY <1>6, <1>7, <1>9 DEF Delivery
    <3> QED
      BY <1>9, <2>1, <3>1 DEF IInv, DeliveryInv, DeliverySound, Ordered
  <2>3. Delivery(w)' = <<>>
    <3>1. q'[w] = <<>> /\ out'[w] = <<>>
      BY <1>6, <1>7 DEF IInv, ThreadInv
    <3> QED
      BY <1>9, <3>1 DEF Delivery
  <2>4. \A x \in Packet : Count(<<>>, x) <= Count(h, x.id)
    BY <1>8, CountEmpty, CountIs
  <2>5. DeliverySound(w)'
    BY <1>9, <2>3, <2>4 DEF DeliverySound, Ordered
  <2> QED
    BY <2>2, <2>5 DEF DeliveryInv
<1>19. OwnInv'
  BY <1>6, <1>7, <1>9 DEF IInv, OwnInv, ThreadInv
<1> QED
  BY <1>10, <1>11, <1>12, <1>13, <1>14, <1>15, <1>16, <1>17, <1>18, <1>19 DEF IInv

-----------------------------------------------------------------------------
(* The worker's thread.                                                    *)

(* A packet's number and its internal id.                                  *)
LEMMA PacketIs == \A x \in Packet : x.n \in Nat /\ x.id \in Sensor \cup {None}
  BY ReceiverAssumption DEF Packet

(* A delivery is a sequence of packets.                                    *)
LEMMA DeliveryType ==
  ASSUME IInv, NEW w \in Worker
  PROVE  /\ Delivery(w) \in Seq(Packet)
         /\ out[w] \in Seq(Packet) /\ q[w] \in Seq(Packet)
<1>1. out[w] \in Seq(Packet) /\ q[w] \in Seq(Packet)
  BY DEF IInv, TypeOK, WorkerTypeOK
<1>2. wpc[w] = "write" => Tail(q[w]) \in Seq(Packet)
  BY <1>1 DEF IInv, ThreadInv
<1> QED
  BY <1>1, <1>2 DEF Delivery

(* The steps of workers and receiver leave streams and tables alone.       *)
LEMMA TablesQuiet ==
  ASSUME IInv, UNCHANGED <<streamVars, tableVars>>
  PROVE  IdInv' /\ TableInv' /\ LoopInv' /\ MapInv' /\ SensorInv'
<1> USE DEF IInv, streamVars, tableVars
<1>1. IdInv' /\ TableInv'
  BY DEF IdInv, TableInv, HasId, InTables
<1>2. LoopInv' /\ SensorInv'
  BY DEF LoopInv, SensorInv
<1>3. ASSUME NEW i \in Sensor, NEW v \in Worker PROVE MapSound(v, i)'
  BY DEF MapInv, MapSound
<1>4. MapInv'
  BY <1>3 DEF MapInv, InTables
<1> QED
  BY <1>1, <1>2, <1>4

(* A worker's step leaves the receiver alone too.                          *)
LEMMA WorkerQuiet ==
  ASSUME IInv, UNCHANGED Rest
  PROVE  /\ IdInv' /\ TableInv' /\ LoopInv' /\ MapInv' /\ SensorInv' /\ FanInv'
         /\ WorkerTypeOK(Packet)' => TypeOK'
<1> USE DEF IInv, Rest
<1>1. IdInv' /\ TableInv' /\ LoopInv' /\ MapInv' /\ SensorInv'
  BY TablesQuiet
<1>2. FanInv'
  BY DEF FanInv, threadVars, tableVars
<1>3. WorkerTypeOK(Packet)' => TypeOK'
  BY DEF TypeOK, streamVars, tableVars, threadVars
<1> QED
  BY <1>1, <1>2, <1>3

(* Nor does it matter to the deliveries how far the thread is, as long as  *)
(* it delivers nothing.                                                    *)
LEMMA SameDeliveries ==
  ASSUME IInv, UNCHANGED Rest, \A v \in Worker : Delivery(v)' = Delivery(v)
  PROVE  DeliveryInv'
<1>1. ToCome' = ToCome /\ UNCHANGED <<rpc, packet, received, handle, subId, spc>>
  BY DEF ToCome, Rest, threadVars, streamVars
<1>2. ASSUME NEW v \in Worker PROVE DeliverySound(v)'
  BY <1>1 DEF IInv, DeliveryInv, DeliverySound, Ordered, InTables
<1> QED
  BY <1>2 DEF DeliveryInv

(* Tests, waits and wakeups.                                               *)
LEMMA WaitInv ==
  ASSUME IInv, NEW w \in Worker, UNCHANGED Rest,
         While(w) \/ Wakeup(w) \/ Test(w) \/ Wait(w) \/ SpuriousWakeup(w)
  PROVE  IInv'
<1>1. UNCHANGED <<dontTerminate, q, out, spc>>
  BY DEF While, Wakeup, Test, Wait, SpuriousWakeup, Rest, streamVars
<1>2. /\ \A v \in Worker : wpc[v] = "test" => m[v] = v
      /\ wpc \in [Worker -> {"none", "while", "test", "wait", "waiting", "woken",
                             "deliver", "write", "done"}]
      /\ m \in [Worker -> Worker \cup {None}]
  BY DEF IInv, TypeOK, WorkerTypeOK, ThreadInv
<1>3. PICK to \in {"while", "test", "wait", "waiting", "woken", "deliver", "done"},
           own \in {w, None} :
        /\ wpc[w] \notin {"none", "deliver", "write", "done"}
        /\ wpc' = [wpc EXCEPT ![w] = to]
        /\ m' = m \/ m' = [m EXCEPT ![w] = own]
        /\ to = "done" => ~dontTerminate[w]
        /\ to = "deliver" => q[w] # <<>>
        /\ to \in {"test", "wait", "deliver"} => m'[w] = w
  <2>1. CASE While(w)
    BY <1>2, <2>1 DEF While, WGoto
  <2>2. CASE Wakeup(w)
    BY <1>2, <2>2 DEF Wakeup, WGoto
  <2>3. CASE Test(w)
    BY <1>2, <2>3 DEF Test, WGoto
  <2>4. CASE Wait(w)
    BY <1>2, <2>4 DEF Wait, WGoto
  <2>5. CASE SpuriousWakeup(w)
    BY <1>2, <2>5 DEF SpuriousWakeup, WGoto
  <2> QED
    BY <2>1, <2>2, <2>3, <2>4, <2>5
<1>4. /\ wpc'[w] = to /\ \A v \in Worker \ {w} : wpc'[v] = wpc[v] /\ m'[v] = m[v]
      /\ wpc' \in [Worker -> {"none", "while", "test", "wait", "waiting", "woken",
                              "deliver", "write", "done"}]
      /\ m' \in [Worker -> Worker \cup {None}]
  BY <1>2, <1>3
<1>5. WorkerTypeOK(Packet)'
  BY <1>1, <1>4 DEF IInv, TypeOK, WorkerTypeOK
<1>6. ThreadInv'
  <2>1. spc[w] \notin {"idle", "joined", "done"}
    BY <1>3 DEF IInv, ThreadInv
  <2> QED
    BY <1>1, <1>3, <1>4, <2>1 DEF IInv, ThreadInv, InTables
<1>7. \A v \in Worker : Delivery(v)' = Delivery(v)
  BY <1>1, <1>3, <1>4 DEF Delivery
<1>8. OwnInv'
  BY <1>1 DEF IInv, OwnInv, Rest, streamVars
<1> QED
  BY <1>5, <1>6, <1>7, <1>8, WorkerQuiet, SameDeliveries DEF IInv

(* A packet that is dropped from the middle of a delivery leaves the rest  *)
(* as it was.                                                              *)
LEMMA DropOne ==
  ASSUME NEW o \in Seq(Packet), NEW l \in Seq(Packet), l # <<>>
  PROVE  /\ \A x \in Packet : Count(o \o Tail(l), x) <= Count(o \o l, x)
         /\ \A k \in DOMAIN (o \o Tail(l)) : \E j \in DOMAIN (o \o l) :
              (o \o Tail(l))[k] = (o \o l)[j]
         /\ Ordered(o \o l) => Ordered(o \o Tail(l))
<1>1. PICK t, d, e : t = Tail(l) /\ d = o \o l /\ e = o \o t
  OBVIOUS
<1>2. /\ t \in Seq(Packet) /\ d \in Seq(Packet) /\ e \in Seq(Packet)
      /\ Len(e) = Len(o) + Len(t) /\ Len(d) = Len(o) + Len(l)
      /\ Len(t) = Len(l) - 1
      /\ Len(o) \in Nat /\ Len(t) \in Nat /\ Len(l) \in Nat
  BY <1>1
<1>3. ASSUME NEW x \in Packet PROVE Count(e, x) <= Count(d, x)
  <2>1. Count(l, x) = Count(t, x) + (IF Head(l) = x THEN 1 ELSE 0)
    BY <1>1, CountTail
  <2>2. Count(e, x) = Count(o, x) + Count(t, x)
    BY <1>1, <1>2, CountConcat, ZenonT(60)
  <2>3. Count(d, x) = Count(o, x) + Count(l, x)
    BY <1>1, CountConcat
  <2>4. Count(o, x) \in Nat /\ Count(t, x) \in Nat
    BY <1>2, CountIs
  <2> QED
    BY <2>1, <2>2, <2>3, <2>4
<1> DEFINE from == [k \in DOMAIN e |-> IF k <= Len(o) THEN k ELSE k + 1]
<1>4. ASSUME NEW k \in DOMAIN e
      PROVE  /\ from[k] \in DOMAIN d /\ e[k] = d[from[k]]
  <2>1. CASE k <= Len(o)
    BY <1>1, <1>2, <2>1
  <2>2. CASE k > Len(o)
    <3>1. k - Len(o) \in 1 .. Len(t) /\ k + 1 \in 1 .. Len(d)
      BY <1>2, <2>2
    <3>2. e[k] = t[k - Len(o)]
      BY <1>1, <1>2, <2>2, <3>1
    <3>3. t[k - Len(o)] = l[(k - Len(o)) + 1]
      BY <1>1, <1>2, <3>1
    <3>4. d[k + 1] = l[(k + 1) - Len(o)]
      BY <1>1, <1>2, <2>2, <3>1
    <3>5. (k + 1) - Len(o) = (k - Len(o)) + 1
      BY <1>2, <2>2
    <3>6. from[k] = k + 1
      BY <1>2, <2>2
    <3>7. k + 1 \in DOMAIN d
      BY <1>2, <3>1
    <3>8. e[k] = d[k + 1]
      BY <3>2, <3>3, <3>4, <3>5
    <3> HIDE DEF from
    <3> QED
      BY <3>6, <3>7, <3>8
  <2> QED
    BY <1>2, <2>1, <2>2
<1>5. ASSUME Ordered(d), NEW j \in DOMAIN e, NEW k \in DOMAIN e, j <= k
      PROVE  e[j].n <= e[k].n
  <2>1. from[j] <= from[k]
    BY <1>2, <1>5
  <2> HIDE DEF from
  <2> QED
    BY <1>4, <1>5, <2>1 DEF Ordered
<1> HIDE DEF from
<1> QED
  BY <1>1, <1>3, <1>4, <1>5 DEF Ordered

(* A packet goes from the queue to the client, and stays in the queue      *)
(* until it is written; or it is dropped, because the worker is to end.    *)
LEMMA DeliverInv ==
  ASSUME IInv, NEW w \in Worker, UNCHANGED Rest, Deliver(w)
  PROVE  IInv'
<1>1. wpc[w] = "deliver" /\ q[w] # <<>> /\ m[w] = w
  BY DEF IInv, ThreadInv, Deliver, WGoto
<1>2. PICK o \in Seq(Packet), l \in Seq(Packet) : o = out[w] /\ l = q[w]
  BY DeliveryType
<1>3. l # <<>> /\ Head(l) \in Packet /\ Tail(l) \in Seq(Packet)
  BY <1>1, <1>2
<1>4. UNCHANGED <<spc, handle, dontTerminate>>
  BY DEF Rest, streamVars, Deliver
<1>5. Delivery(w) = o \o l
  BY <1>1, <1>2 DEF Delivery
<1>6. CASE dontTerminate[w]
  <2>1. /\ wpc' = [wpc EXCEPT ![w] = "write"]
        /\ out' = [out EXCEPT ![w] = Append(o, Head(l))]
        /\ UNCHANGED <<q, m>>
    BY <1>2, <1>6 DEF Deliver, WGoto
  <2>2. /\ \A v \in Worker \ {w} : wpc'[v] = wpc[v] /\ out'[v] = out[v]
        /\ wpc'[w] = "write" /\ out'[w] = Append(o, Head(l))
    BY <2>1 DEF IInv, TypeOK, WorkerTypeOK
  <2>3. WorkerTypeOK(Packet)'
    BY <1>3, <1>4, <2>1 DEF IInv, TypeOK, WorkerTypeOK
  <2>4. ThreadInv'
    BY <1>1, <1>4, <2>1, <2>2 DEF IInv, ThreadInv, InTables
  <2>5. Append(o, Head(l)) \o Tail(l) = o \o l
    BY <1>3
  <2>6. \A v \in Worker : Delivery(v)' = Delivery(v)
    BY <1>2, <1>5, <2>1, <2>2, <2>5 DEF Delivery
  <2>7. OwnInv'
    <3>1. \A k \in DOMAIN l : l[k].id \in Members(handle[w])
      BY <1>2 DEF IInv, OwnInv
    <3>2. \A k \in DOMAIN o : o[k].id \in Members(handle[w])
      BY <1>2 DEF IInv, OwnInv
    <3>3. Head(l).id \in Members(handle[w])
      BY <1>3, <3>1
    <3>4. \A k \in DOMAIN Append(o, Head(l)) :
            Append(o, Head(l))[k].id \in Members(handle[w])
      BY <1>3, <3>2, <3>3
    <3> QED
      BY <1>4, <2>1, <2>2, <3>4 DEF IInv, OwnInv
  <2> QED
    BY <2>3, <2>4, <2>6, <2>7, WorkerQuiet, SameDeliveries DEF IInv
<1>7. CASE ~dontTerminate[w]
  <2>1. /\ wpc' = [wpc EXCEPT ![w] = "while"]
        /\ q' = [q EXCEPT ![w] = Tail(l)]
        /\ m' = [m EXCEPT ![w] = None]
        /\ UNCHANGED out
    BY <1>2, <1>7 DEF Deliver, WGoto, Pop
  <2>2. /\ \A v \in Worker \ {w} : wpc'[v] = wpc[v] /\ q'[v] = q[v] /\ m'[v] = m[v]
        /\ wpc'[w] = "while" /\ q'[w] = Tail(l)
    BY <2>1 DEF IInv, TypeOK, WorkerTypeOK
  <2>3. WorkerTypeOK(Packet)'
    BY <1>3, <1>4, <2>1 DEF IInv, TypeOK, WorkerTypeOK
  <2>4. ThreadInv'
    BY <1>1, <1>4, <2>1, <2>2 DEF IInv, ThreadInv, InTables
  <2>5. DeliveryInv'
    <3>1. UNCHANGED <<rpc, packet, received, handle, subId, spc>> /\ ToCome' = ToCome
      BY DEF ToCome, Rest, threadVars, streamVars
    <3>2. ASSUME NEW v \in Worker \ {w} PROVE DeliverySound(v)'
      <4>1. wpc'[v] = wpc[v] /\ q'[v] = q[v] /\ out'[v] = out[v]
        BY <2>1, <2>2
      <4>2. Delivery(v)' = Delivery(v)
        BY <4>1 DEF Delivery
      <4> QED
        BY <3>1, <4>2 DEF IInv, DeliveryInv, DeliverySound, Ordered, InTables
    <3>3. PICK d, e : d = o \o l /\ e = o \o Tail(l)
      OBVIOUS
    <3>4. Delivery(w)' = e /\ Delivery(w) = d
      BY <1>2, <1>5, <2>1, <2>2, <3>3 DEF Delivery
    <3>5. /\ \A x \in Packet : Count(e, x) <= Count(d, x)
          /\ \A k \in DOMAIN e : \E j \in DOMAIN d : e[k] = d[j]
          /\ Ordered(d) => Ordered(e)
          /\ d \in Seq(Packet) /\ e \in Seq(Packet)
      <4>1. /\ \A x \in Packet : Count(o \o Tail(l), x) <= Count(o \o l, x)
            /\ \A k \in DOMAIN (o \o Tail(l)) : \E j \in DOMAIN (o \o l) :
                 (o \o Tail(l))[k] = (o \o l)[j]
            /\ Ordered(o \o l) => Ordered(o \o Tail(l))
        BY <1>3, DropOne
      <4>2. o \o l \in Seq(Packet) /\ o \o Tail(l) \in Seq(Packet)
        BY <1>3
      <4> QED
        BY <3>3, <4>1, <4>2
    <3>6. DeliverySound(w)
      BY DEF IInv, DeliveryInv
    <3>7. \A k \in DOMAIN e : e[k].n <= received /\ (rpc = "lookup" => e[k].n # received)
      BY <3>4, <3>5, <3>6 DEF DeliverySound
    <3>8. PICK h \in Seq(Sensor) : h = handle[w]
      BY DEF IInv, TypeOK
    <3>9. \A x : Count(e, x) \in Nat /\ Count(d, x) \in Nat /\ Count(h, x) \in Nat
      BY <3>5, CountIs
    <3>10. \A x \in Packet : Count(e, x) <= Count(h, x.id)
      BY <3>4, <3>5, <3>6, <3>8, <3>9 DEF DeliverySound
    <3>11. rpc \in {"fan", "notify"} /\ InTables(w) =>
             Count(e, packet) + Count(ToCome, subId[w]) <= Count(h, packet.id)
      <4>1. PICK c, p, f : c = Count(ToCome, subId[w]) /\ p = packet /\ f = p.id
        OBVIOUS
      <4>2. p \in Packet
        BY <4>1 DEF IInv, TypeOK
      <4>3. rpc \in {"fan", "notify"} => c \in Nat
        <5>1. ASSUME rpc \in {"fan", "notify"} PROVE ToCome \in Seq(Ids)
          BY <5>1 DEF ToCome, IInv, TypeOK, FanInv
        <5> QED
          BY <4>1, <5>1, CountIs
      <4>4. Count(e, p) <= Count(d, p)
        BY <3>5, <4>2
      <4>5. rpc \in {"fan", "notify"} /\ InTables(w) => Count(d, p) + c <= Count(h, f)
        BY <3>4, <3>6, <3>8, <4>1 DEF DeliverySound
      <4>6. rpc \in {"fan", "notify"} /\ InTables(w) => Count(e, p) + c <= Count(h, f)
        BY <3>9, <4>3, <4>4, <4>5
      <4> QED
        BY <4>1, <4>6
    <3>12. DeliverySound(w)'
      BY <3>1, <3>4, <3>5, <3>6, <3>7, <3>8, <3>10, <3>11 DEF DeliverySound, InTables
    <3> QED
      BY <3>2, <3>12 DEF DeliveryInv
  <2>6. OwnInv'
    <3>1. \A k \in DOMAIN l : l[k].id \in Members(handle[w])
      BY <1>2 DEF IInv, OwnInv
    <3>2. \A k \in DOMAIN Tail(l) : Tail(l)[k].id \in Members(handle[w])
      BY <1>3, <3>1
    <3> QED
      BY <1>4, <2>1, <2>2, <3>2 DEF IInv, OwnInv
  <2> QED
    BY <2>3, <2>4, <2>5, <2>6, WorkerQuiet DEF IInv
<1> QED
  BY <1>6, <1>7 DEF IInv, TypeOK, WorkerTypeOK

(* The written packet leaves the queue.                                    *)
LEMMA WrittenInv ==
  ASSUME IInv, NEW w \in Worker, UNCHANGED Rest, Written(w)
  PROVE  IInv'
<1>1. wpc[w] = "write" /\ q[w] # <<>> /\ m[w] = w
  BY DEF IInv, ThreadInv, Written, WGoto
<1>2. PICK l \in Seq(Packet) : l = q[w]
  BY DeliveryType
<1>3. l # <<>> /\ Tail(l) \in Seq(Packet)
  BY <1>1, <1>2
<1>4. /\ wpc' = [wpc EXCEPT ![w] = "while"]
      /\ q' = [q EXCEPT ![w] = Tail(l)]
      /\ m' = [m EXCEPT ![w] = None]
      /\ UNCHANGED <<out, dontTerminate, spc, handle>>
  BY <1>2 DEF Written, WGoto, PopWritten, Pop, Rest, streamVars
<1>5. /\ \A v \in Worker \ {w} : wpc'[v] = wpc[v] /\ q'[v] = q[v] /\ m'[v] = m[v]
      /\ wpc'[w] = "while" /\ q'[w] = Tail(l)
  BY <1>4 DEF IInv, TypeOK, WorkerTypeOK
<1>6. WorkerTypeOK(Packet)'
  BY <1>3, <1>4 DEF IInv, TypeOK, WorkerTypeOK
<1>7. ThreadInv'
  BY <1>1, <1>4, <1>5 DEF IInv, ThreadInv, InTables
<1>8. \A v \in Worker : Delivery(v)' = Delivery(v)
  <2>1. ASSUME NEW v \in Worker \ {w} PROVE Delivery(v)' = Delivery(v)
    <3>1. wpc'[v] = wpc[v] /\ q'[v] = q[v] /\ out'[v] = out[v]
      BY <1>4, <1>5
    <3> QED
      BY <3>1 DEF Delivery
  <2>2. Delivery(w)' = Delivery(w)
    BY <1>1, <1>2, <1>4, <1>5 DEF Delivery
  <2> QED
    BY <2>1, <2>2
<1>9. OwnInv'
  <2>1. \A k \in DOMAIN l : l[k].id \in Members(handle[w])
    BY <1>2 DEF IInv, OwnInv
  <2>2. \A k \in DOMAIN Tail(l) : Tail(l)[k].id \in Members(handle[w])
    BY <1>3, <2>1
  <2> QED
    BY <1>4, <1>5, <2>2 DEF IInv, OwnInv
<1> QED
  BY <1>6, <1>7, <1>8, <1>9, WorkerQuiet, SameDeliveries DEF IInv

-----------------------------------------------------------------------------
(* The receiver's thread.                                                  *)

(* What the receiver does outside of the workers' queues and their         *)
(* condition variables leaves the workers alone.                           *)
LEMMA WorkersQuiet ==
  ASSUME IInv, UNCHANGED <<streamVars, workerVars>>
  PROVE  /\ ThreadInv' /\ OwnInv' /\ WorkerTypeOK(Packet)'
         /\ \A v \in Worker : Delivery(v)' = Delivery(v)
<1> USE DEF IInv, streamVars, workerVars
<1>1. ThreadInv' /\ OwnInv'
  BY DEF ThreadInv, OwnInv, InTables
<1>2. WorkerTypeOK(Packet)'
  BY DEF TypeOK, WorkerTypeOK
<1>3. \A v \in Worker : Delivery(v)' = Delivery(v)
  BY DEF Delivery
<1> QED
  BY <1>1, <1>2, <1>3

(* A packet is younger than all that were delivered.                       *)
LEMMA ReceiveInv ==
  ASSUME IInv, NEW i \in Sensor, Receive(i)
  PROVE  IInv'
<1>1. /\ rpc = "recv" /\ rpc' = "lookup"
      /\ received < MaxPackets /\ received' = received + 1
      /\ packet' = [n |-> received + 1, id |-> i]
      /\ UNCHANGED <<todo, streamVars, tableVars, rmutex, workerVars>>
  BY DEF Receive
<1>2. received \in Nat /\ MaxPackets \in Nat
  BY ReceiverAssumption DEF IInv, TypeOK
<1>3. IdInv' /\ TableInv' /\ LoopInv' /\ MapInv' /\ SensorInv'
  BY <1>1, TablesQuiet
<1>4. /\ ThreadInv' /\ OwnInv' /\ WorkerTypeOK(Packet)'
      /\ \A v \in Worker : Delivery(v)' = Delivery(v)
  BY <1>1, WorkersQuiet
<1>5. TypeOK'
  <2>1. packet' \in Packet /\ received' \in 0 .. MaxPackets
    BY <1>1, <1>2 DEF IInv, TypeOK, Packet
  <2> QED
    BY <1>1, <1>4, <2>1 DEF IInv, TypeOK, streamVars, tableVars
<1>6. FanInv'
  BY <1>1 DEF IInv, FanInv
<1>7. ASSUME NEW v \in Worker PROVE DeliverySound(v)'
  <2>1. PICK d \in Seq(Packet) : d = Delivery(v)
    BY DeliveryType
  <2>2. \A k \in DOMAIN d : d[k].n \in Nat /\ d[k].n <= received
    <3>1. \A k \in DOMAIN d : d[k] \in Packet
      OBVIOUS
    <3>2. \A k \in DOMAIN d : d[k].n <= received
      BY <2>1 DEF IInv, DeliveryInv, DeliverySound
    <3> QED
      BY <3>1, <3>2, PacketIs
  <2>3. \A k \in DOMAIN d : d[k].n <= received + 1 /\ d[k].n # received + 1
    BY <1>2, <2>2
  <2>4. Delivery(v)' = d /\ handle' = handle
    BY <1>1, <1>4, <2>1 DEF streamVars
  <2>5. DeliverySound(v)
    BY DEF IInv, DeliveryInv
  <2> QED
    BY <1>1, <2>1, <2>3, <2>4, <2>5 DEF DeliverySound, Ordered
<1> QED
  BY <1>3, <1>4, <1>5, <1>6, <1>7 DEF IInv, DeliveryInv

(* No list has a stream's id more often than its handle names the sensor.  *)
LEMMA ListedAtMost ==
  ASSUME IInv, NEW w \in Worker, NEW i \in Sensor, InTables(w)
  PROVE  Count(extList[i], subId[w]) <= Count(handle[w], i)
<1>1. PICK h \in Seq(Sensor) : h = handle[w]
  BY DEF IInv, TypeOK
<1>2. PICK n \in 0 .. Len(h) : n = next[w]
  <2>1. next[w] \in Nat /\ next[w] <= Len(h) /\ Len(h) \in Nat
    BY <1>1 DEF IInv, TypeOK, LoopInv
  <2> QED
    BY <2>1
<1>3. UpTo(h, n, i) <= Count(h, i) /\ Count(h, i) \in Nat
  BY UpToBound, CountIs
<1>4. MapSound(w, i)
  BY DEF IInv, MapInv
<1> QED
  BY <1>1, <1>2, <1>3, <1>4 DEF MapSound, InTables

(* The fan-out begins with the packet in no delivery.                      *)
LEMMA LookupInv ==
  ASSUME IInv, Lookup
  PROVE  IInv'
<1>1. /\ rpc = "lookup" /\ rmutex = None
      /\ UNCHANGED <<received, streamVars, tableVars, workerVars>>
      /\ \/ /\ rpc' = "recv" /\ packet' = NoPacket
            /\ UNCHANGED <<todo, rmutex>>
         \/ /\ rpc' = "fan" /\ todo' = extList[packet.id] /\ rmutex' = Receiver
            /\ UNCHANGED packet
  BY DEF Lookup
<1>2. packet.id \in Sensor /\ packet.n = received /\ packet \in Packet
  BY <1>1 DEF IInv, TypeOK, FanInv
<1>3. IdInv' /\ TableInv' /\ LoopInv' /\ MapInv' /\ SensorInv'
  BY <1>1, TablesQuiet
<1>4. /\ ThreadInv' /\ OwnInv' /\ WorkerTypeOK(Packet)'
      /\ \A v \in Worker : Delivery(v)' = Delivery(v)
  BY <1>1, WorkersQuiet
<1>5. TypeOK'
  <2>1. NoPacket \in Packet
    BY ReceiverAssumption DEF NoPacket, Packet
  <2>2. packet' \in Packet /\ todo' \in Seq(Ids) /\ rmutex' \in {None, Receiver}
        /\ rpc' \in {"recv", "lookup", "fan", "notify"}
    BY <1>1, <1>2, <2>1 DEF IInv, TypeOK
  <2> QED
    BY <1>1, <1>4, <2>2 DEF IInv, TypeOK, streamVars, tableVars
<1>6. FanInv'
  BY <1>1, <1>2, Distinct DEF FanInv, tableVars
<1>7. ASSUME NEW v \in Worker PROVE DeliverySound(v)'
  <2>1. PICK d \in Seq(Packet) : d = Delivery(v)
    BY DeliveryType
  <2>2. DeliverySound(v)
    BY DEF IInv, DeliveryInv
  <2>3. Delivery(v)' = d /\ handle' = handle /\ subId' = subId /\ spc' = spc
    BY <1>1, <1>4, <2>1 DEF streamVars
  <2>4. PICK p : p = packet
    OBVIOUS
  <2>5. Count(d, p) = 0
    <3>1. p \notin Members(d)
      BY <1>1, <1>2, <2>1, <2>2, <2>4 DEF DeliverySound, Members
    <3> QED
      BY <3>1, CountIs
  <2>6. ASSUME rpc' = "fan", InTables(v)
        PROVE  Count(d, packet') + Count(ToCome', subId[v]) <= Count(handle[v], packet'.id)
    <3>1. ToCome' = extList[packet.id] /\ packet' = p
      BY <1>1, <2>4, <2>6 DEF ToCome
    <3>2. Count(extList[packet.id], subId[v]) <= Count(handle[v], packet.id)
      BY <1>2, <2>6, ListedAtMost
    <3>3. PICK list \in Seq(Ids), e \in Ids \cup {NullId} :
            list = extList[packet.id] /\ e = subId[v]
      BY <1>2 DEF IInv, TypeOK
    <3>4. Count(list, e) \in Nat
      BY CountIs
    <3> QED
      BY <2>4, <2>5, <3>1, <3>2, <3>3, <3>4
  <2> QED
    BY <1>1, <2>1, <2>2, <2>3, <2>6 DEF DeliverySound, Ordered, InTables
<1> QED
  BY <1>3, <1>4, <1>5, <1>6, <1>7 DEF IInv, DeliveryInv

(* An id of the fan-out leads to the stream that has it.                   *)
LEMMA HeadFound ==
  ASSUME IInv, rpc \in {"fan", "notify"}, todo # <<>>
  PROVE  /\ Head(todo) \in Ids /\ Tail(todo) \in Seq(Ids)
         /\ workerStore[Head(todo)] \in Worker
         /\ InTables(workerStore[Head(todo)])
         /\ subId[workerStore[Head(todo)]] = Head(todo)
<1>1. PICK t \in Seq(Ids) : t = todo
  BY DEF IInv, TypeOK
<1>2. Tail(t) \in Seq(Ids) /\ Head(t) \in Ids /\ Head(t) \in Members(t)
  BY <1>1, CountTail
<1>3. packet.id \in Sensor /\ Head(t) \in Members(extList[packet.id])
  BY <1>1, <1>2 DEF IInv, FanInv
<1>4. PICK w \in Worker : InTables(w) /\ subId[w] = Head(t)
  BY <1>3 DEF IInv, MapInv
<1>5. workerStore[Head(t)] = w
  BY <1>2, <1>4 DEF IInv, TableInv
<1> QED
  BY <1>1, <1>2, <1>4, <1>5

(* The packet goes to the worker of the next id, once more than before and *)
(* once less to come.                                                      *)
LEMMA PushPacketInv ==
  ASSUME IInv, PushPacket
  PROVE  IInv'
<1>1. PICK e, w, t : e = Head(todo) /\ w = workerStore[e] /\ t = Tail(todo)
  OBVIOUS
<1>2. rpc = "fan" /\ todo # <<>>
  BY DEF PushPacket
<1>3. /\ e \in Ids /\ t \in Seq(Ids) /\ w \in Worker /\ InTables(w) /\ subId[w] = e
  BY <1>1, <1>2, HeadFound
<1>4. /\ m[w] = None /\ q' = [q EXCEPT ![w] = Append(@, packet)] /\ rpc' = "notify"
      /\ UNCHANGED <<todo, packet, received, streamVars, tableVars, rmutex, wpc,
                     dontTerminate, m, out>>
  BY <1>1, <1>3, Distinct DEF PushPacket, Push
<1>5. packet.id \in Sensor /\ packet \in Packet /\ packet.n = received
  BY <1>2 DEF IInv, TypeOK, FanInv
<1>6. wpc[w] # "write" /\ spc[w] # "idle"
  BY <1>3, <1>4, Distinct DEF IInv, ThreadInv, InTables
<1>7. IdInv' /\ TableInv' /\ LoopInv' /\ MapInv' /\ SensorInv'
  BY <1>4, TablesQuiet
<1>8. TypeOK'
  <2>1. q \in [Worker -> Seq(Packet)]
    BY DEF IInv, TypeOK, WorkerTypeOK
  <2>2. Append(q[w], packet) \in Seq(Packet)
    BY <1>3, <1>5, <2>1
  <2>3. q' \in [Worker -> Seq(Packet)]
    BY <1>4, <2>1, <2>2
  <2>4. /\ todo' = todo /\ packet' = packet /\ received' = received
        /\ UNCHANGED <<spc, subId, used, handle, sensor, next, store2, dmutex,
                       workerStore, extList, rmutex, wpc, dontTerminate, m, out>>
    BY <1>4 DEF streamVars, tableVars
  <2> QED
    BY <1>4, <2>3, <2>4 DEF IInv, TypeOK, WorkerTypeOK
<1>9. \A v \in Worker \ {w} : q'[v] = q[v]
  BY <1>4 DEF IInv, TypeOK, WorkerTypeOK
<1>10. PICK o \in Seq(Packet), l \in Seq(Packet), p \in Packet :
         o = out[w] /\ l = q[w] /\ p = packet
  BY <1>3, <1>5, DeliveryType
<1>11. q'[w] = Append(l, p)
  BY <1>3, <1>4, <1>10 DEF IInv, TypeOK, WorkerTypeOK
<1>12. ThreadInv'
  <2>1. Append(l, p) # <<>>
    OBVIOUS
  <2>2. UNCHANGED spc
    BY <1>4 DEF streamVars
  <2> QED
    BY <1>4, <1>6, <1>9, <1>11, <2>1, <2>2 DEF IInv, ThreadInv, InTables
<1>13. FanInv'
  BY <1>2, <1>4 DEF IInv, FanInv, tableVars
<1>14. packet.id \in Members(handle[w])
  <2>1. PICK h \in Seq(Sensor), list \in Seq(Ids), i \in Sensor :
          h = handle[w] /\ list = extList[packet.id] /\ i = packet.id
    BY <1>3, <1>5 DEF IInv, TypeOK
  <2>2. Count(list, e) <= Count(h, i)
    BY <1>3, <1>5, <2>1, ListedAtMost
  <2>3. e \in Members(list)
    <3>1. PICK td \in Seq(Ids) : td = todo
      BY DEF IInv, TypeOK
    <3>2. e \in Members(td)
      BY <1>1, <1>2, <3>1, CountTail
    <3> QED
      BY <1>2, <2>1, <3>1, <3>2 DEF IInv, FanInv
  <2>4. /\ Count(list, e) \in Nat /\ (Count(list, e) = 0 <=> e \notin Members(list))
        /\ Count(h, i) \in Nat /\ (Count(h, i) = 0 <=> i \notin Members(h))
    BY CountIs
  <2> QED
    BY <2>1, <2>2, <2>3, <2>4
<1>15. OwnInv'
  <2>1. \A k \in DOMAIN l : l[k].id \in Members(handle[w])
    BY <1>3, <1>10 DEF IInv, OwnInv
  <2>2. \A k \in DOMAIN Append(l, p) : Append(l, p)[k].id \in Members(handle[w])
    BY <1>10, <1>14, <2>1
  <2>3. UNCHANGED <<out, handle>>
    BY <1>4 DEF streamVars
  <2> QED
    BY <1>9, <1>11, <2>2, <2>3 DEF IInv, OwnInv
<1>16. ASSUME NEW v \in Worker PROVE DeliverySound(v)'
  <2>1. UNCHANGED <<received, packet, handle, subId, spc>>
    BY <1>4 DEF streamVars
  <2>2. DeliverySound(v)
    BY DEF IInv, DeliveryInv
  <2>3. PICK td \in Seq(Ids), x \in Ids \cup {NullId}, d \in Seq(Packet) :
          td = todo /\ x = subId[v] /\ d = Delivery(v)
    BY DeliveryType DEF IInv, TypeOK
  <2>4. /\ Count(td, x) = Count(t, x) + (IF e = x THEN 1 ELSE 0)
        /\ Count(t, x) \in Nat /\ Count(d, p) \in Nat
    BY <1>1, <1>2, <1>3, <2>3, CountTail, CountIs
  <2>5. ToCome = td /\ ToCome' = t
    BY <1>1, <1>2, <1>4, <2>3 DEF ToCome
  <2>6. CASE v # w
    <3>1. Delivery(v)' = d
      <4>1. wpc'[v] = wpc[v] /\ q'[v] = q[v] /\ out'[v] = out[v]
        BY <1>4, <1>9, <2>6
      <4> QED
        BY <2>3, <4>1 DEF Delivery
    <3>2. PICK b : b = Count(handle[v], packet.id)
      OBVIOUS
    <3>3. InTables(v) => b \in Nat /\ Count(d, p) + Count(td, x) <= b
      <4>1. PICK h \in Seq(Sensor), i \in Sensor :
              h = handle[v] /\ i = packet.id
        BY <1>5 DEF IInv, TypeOK
      <4>2. Count(h, i) \in Nat
        BY CountIs
      <4> QED
        BY <1>2, <1>10, <2>2, <2>3, <2>5, <3>2, <4>1, <4>2 DEF DeliverySound
    <3>4. InTables(v) => Count(d, p) + Count(t, x) <= b
      BY <2>4, <3>3
    <3> QED
      BY <1>2, <1>4, <1>10, <2>1, <2>2, <2>3, <2>5, <3>1, <3>2, <3>4
         DEF DeliverySound, Ordered, InTables
  <2>7. CASE v = w
    <3>1. d = o \o l /\ Delivery(v)' = o \o Append(l, p)
      BY <1>4, <1>6, <1>10, <1>11, <2>3, <2>7 DEF Delivery
    <3>2. Delivery(v)' = Append(d, p)
      BY <3>1
    <3>3. PICK a : a = Append(d, p)
      OBVIOUS
    <3>4. /\ \A k \in DOMAIN d : d[k].n \in Nat /\ d[k].n <= received
          /\ p.n = received /\ received \in Nat
      <4>1. \A k \in DOMAIN d : d[k] \in Packet
        OBVIOUS
      <4>2. \A k \in DOMAIN d : d[k].n <= received
        BY <2>2, <2>3 DEF DeliverySound
      <4>3. p.n = received /\ p.n \in Nat
        BY <1>5, <1>10, PacketIs
      <4> QED
        BY <4>1, <4>2, <4>3, PacketIs
    <3>5. /\ DOMAIN a = 1 .. Len(d) + 1 /\ DOMAIN d = 1 .. Len(d) /\ Len(d) \in Nat
          /\ \A k \in 1 .. Len(d) : a[k] = d[k]
          /\ a[Len(d) + 1] = p
      BY <3>3
    <3>6. \A k \in DOMAIN a : a[k].n <= received
      <4>1. ASSUME NEW k \in DOMAIN a PROVE a[k].n <= received
        <5>1. CASE k \in DOMAIN d
          BY <3>4, <3>5, <5>1
        <5>2. CASE k = Len(d) + 1
          BY <3>4, <3>5, <5>2
        <5> QED
          BY <3>5, <5>1, <5>2
      <4> QED
        BY <4>1
    <3>7. Ordered(a)
      <4>1. Ordered(d)
        BY <2>2, <2>3 DEF DeliverySound
      <4>2. ASSUME NEW j \in DOMAIN a, NEW k \in DOMAIN a, j <= k
            PROVE  a[j].n <= a[k].n
        <5>1. CASE k \in DOMAIN d
          BY <3>5, <4>1, <4>2, <5>1 DEF Ordered
        <5>2. CASE k = Len(d) + 1
          BY <3>4, <3>5, <3>6, <5>2
        <5> QED
          BY <3>5, <5>1, <5>2
      <4> QED
        BY <4>2 DEF Ordered
    <3>8. \A y \in Packet : Count(a, y) = Count(d, y) + (IF p = y THEN 1 ELSE 0)
      BY <3>3, CountAppend
    <3>9. PICK h \in Seq(Sensor), i \in Sensor : h = handle[v] /\ i = p.id
      BY <1>5, <1>10 DEF IInv, TypeOK
    <3>10. Count(d, p) + Count(td, x) <= Count(h, i) /\ Count(h, i) \in Nat /\ e = x
      BY <1>2, <1>3, <1>10, <2>2, <2>3, <2>5, <2>7, <3>9, CountIs DEF DeliverySound
    <3>11. Count(a, p) + Count(t, x) <= Count(h, i)
      BY <2>4, <3>8, <3>10
    <3>12. \A y \in Packet : Count(a, y) <= Count(h, y.id)
      <4>1. ASSUME NEW y \in Packet PROVE Count(a, y) <= Count(h, y.id)
        <5>1. CASE y = p
          BY <2>4, <3>8, <3>9, <3>10, <3>11, <5>1
        <5>2. CASE y # p
          <6>1. Count(d, y) \in Nat /\ Count(d, y) <= Count(h, y.id)
            BY <2>2, <2>3, <3>9, CountIs DEF DeliverySound
          <6> QED
            BY <3>8, <5>2, <6>1
        <5> QED
          BY <5>1, <5>2
      <4> QED
        BY <4>1
    <3>13. Delivery(v)' = a
      BY <3>2, <3>3
    <3> QED
      BY <1>4, <1>10, <2>1, <2>3, <2>5, <3>6, <3>7, <3>9, <3>11, <3>12, <3>13
         DEF DeliverySound
  <2> QED
    BY <2>6, <2>7
<1> QED
  BY <1>7, <1>8, <1>12, <1>13, <1>15, <1>16 DEF IInv, DeliveryInv

(* The worker is notified, and the fan-out goes on.                        *)
LEMMA NotifyPacketInv ==
  ASSUME IInv, NotifyPacket
  PROVE  IInv'
<1>1. PICK w, t : w = workerStore[Head(todo)] /\ t = Tail(todo)
  OBVIOUS
<1>2. /\ rpc = "notify" /\ rpc' = "fan" /\ todo' = t /\ todo # <<>>
      /\ wpc' = IF wpc[w] = "waiting" THEN [wpc EXCEPT ![w] = "woken"] ELSE wpc
      /\ UNCHANGED <<packet, received, streamVars, tableVars, rmutex,
                     dontTerminate, q, m, out>>
  BY <1>1 DEF NotifyPacket, Announce, NotifyOne, IInv, FanInv
<1>3. t \in Seq(Ids) /\ w \in Worker
  BY <1>1, <1>2, HeadFound
<1>4. /\ \A v \in Worker : wpc'[v] = wpc[v] \/ (wpc[v] = "waiting" /\ wpc'[v] = "woken")
      /\ wpc' \in [Worker -> {"none", "while", "test", "wait", "waiting", "woken",
                              "deliver", "write", "done"}]
  BY <1>2 DEF IInv, TypeOK, WorkerTypeOK
<1>5. IdInv' /\ TableInv' /\ LoopInv' /\ MapInv' /\ SensorInv'
  BY <1>2, TablesQuiet
<1>6. TypeOK'
  BY <1>2, <1>3, <1>4 DEF IInv, TypeOK, WorkerTypeOK, streamVars, tableVars
<1>7. ThreadInv'
  BY <1>2, <1>4 DEF IInv, ThreadInv, streamVars, InTables
<1>8. OwnInv'
  BY <1>2 DEF IInv, OwnInv, streamVars
<1>9. FanInv'
  <2>1. PICK td \in Seq(Ids) : td = todo
    BY DEF IInv, TypeOK
  <2>2. Members(Tail(td)) \subseteq Members(td)
    BY <1>2, <2>1, CountTail
  <2> QED
    BY <1>1, <1>2, <2>1, <2>2 DEF IInv, FanInv, tableVars
<1>10. ASSUME NEW v \in Worker PROVE DeliverySound(v)'
  <2>1. Delivery(v)' = Delivery(v)
    <3>1. (wpc'[v] = "write" <=> wpc[v] = "write") /\ q'[v] = q[v] /\ out'[v] = out[v]
      BY <1>2, <1>4
    <3> QED
      BY <3>1 DEF Delivery
  <2>2. ToCome' = ToCome /\ UNCHANGED <<packet, received, handle, subId, spc>>
    BY <1>1, <1>2 DEF ToCome, streamVars
  <2>3. DeliverySound(v)
    BY DEF IInv, DeliveryInv
  <2> QED
    BY <1>2, <2>1, <2>2, <2>3 DEF DeliverySound, Ordered, InTables
<1> QED
  BY <1>5, <1>6, <1>7, <1>8, <1>9, <1>10 DEF IInv, DeliveryInv

(* The fan-out ends, and the mutex is free.                                *)
LEMMA FanDoneInv ==
  ASSUME IInv, FanDone
  PROVE  IInv'
<1>1. /\ rpc = "fan" /\ rpc' = "recv" /\ rmutex' = None /\ packet' = NoPacket
      /\ UNCHANGED <<todo, received, streamVars, tableVars, workerVars>>
  BY DEF FanDone
<1>2. IdInv' /\ TableInv' /\ LoopInv' /\ MapInv' /\ SensorInv'
  BY <1>1, TablesQuiet
<1>3. /\ ThreadInv' /\ OwnInv' /\ WorkerTypeOK(Packet)'
      /\ \A v \in Worker : Delivery(v)' = Delivery(v)
  BY <1>1, WorkersQuiet
<1>4. TypeOK'
  <2>1. NoPacket \in Packet
    BY ReceiverAssumption DEF NoPacket, Packet
  <2> QED
    BY <1>1, <1>3, <2>1 DEF IInv, TypeOK, streamVars, tableVars
<1>5. FanInv'
  BY <1>1, Distinct DEF FanInv
<1>6. ASSUME NEW v \in Worker PROVE DeliverySound(v)'
  <2>1. DeliverySound(v) /\ handle' = handle
    BY <1>1 DEF IInv, DeliveryInv, streamVars
  <2> QED
    BY <1>1, <1>3, <2>1 DEF DeliverySound, Ordered
<1> QED
  BY <1>2, <1>3, <1>4, <1>5, <1>6 DEF IInv, DeliveryInv

-----------------------------------------------------------------------------
(* The initial state.                                                      *)
LEMMA InitInv == Init => IInv
<1> SUFFICES ASSUME Init PROVE IInv
  OBVIOUS
<1> USE DEF Init, WorkerInit
<1>1. TypeOK
  <2>1. NoPacket \in Packet
    BY ReceiverAssumption DEF NoPacket, Packet
  <2> QED
    BY <2>1, ReceiverAssumption DEF TypeOK, WorkerTypeOK
<1>2. IdInv /\ TableInv
  BY Distinct DEF IdInv, TableInv, HasId, InTables
<1>3. ThreadInv
  BY DEF ThreadInv, InTables
<1>4. LoopInv /\ SensorInv /\ OwnInv
  BY DEF LoopInv, SensorInv, OwnInv
<1>5. MapInv
  BY DEF MapInv, MapSound, Members
<1>6. FanInv
  BY Distinct DEF FanInv
<1>7. ASSUME NEW w \in Worker PROVE DeliverySound(w)
  <2>1. Delivery(w) = <<>> /\ handle[w] = <<>>
    BY DEF Delivery
  <2>2. \A x \in Packet : Count(<<>>, x) <= Count(<<>>, x.id)
    BY CountEmpty
  <2> QED
    BY <2>1, <2>2 DEF DeliverySound, Ordered
<1> QED
  BY <1>1, <1>2, <1>3, <1>4, <1>5, <1>6, <1>7 DEF IInv, DeliveryInv

(* The invariant of receiver, tables, streams and workers.                 *)
THEOREM Invariant == Spec => []IInv
<1>1. IInv /\ [Next]_vars => IInv'
  <2> SUFFICES ASSUME IInv, [Next]_vars PROVE IInv'
    OBVIOUS
  <2>1. ASSUME NEW w \in Worker, NEW paths \in Requests, Subscribe(w, paths)
        PROVE  IInv'
    BY <2>1, SubscribeInv
  <2>2. ASSUME NEW w \in Worker, StreamStep(w) \/ BeginCleanup(w)
        PROVE  IInv'
    BY <2>2, AddWorkerInv, AddMappingInv, SendMetaDataInv, BeginCleanupInv,
       DelMappingInv, DelWorkerInv, TerminateInv, JoinInv, RemoveRequestInv
       DEF StreamStep
  <2>3. ASSUME NEW w \in Worker, WorkerStep(w) \/ SpuriousWakeup(w), UNCHANGED Rest
        PROVE  IInv'
    BY <2>3, WaitInv, DeliverInv, WrittenInv DEF WorkerStep
  <2>4. ASSUME NEW i \in Sensor, Receive(i) PROVE IInv'
    BY <2>4, ReceiveInv
  <2>5. CASE ReceiverStep
    BY <2>5, LookupInv, PushPacketInv, NotifyPacketInv, FanDoneInv DEF ReceiverStep
  <2>6. CASE UNCHANGED vars
    <3>1. UNCHANGED Rest /\ UNCHANGED <<streamVars, workerVars>>
      BY <2>6 DEF vars, Rest
    <3>2. /\ ThreadInv' /\ OwnInv' /\ WorkerTypeOK(Packet)'
          /\ \A v \in Worker : Delivery(v)' = Delivery(v)
      BY <3>1, WorkersQuiet
    <3> QED
      BY <3>1, <3>2, WorkerQuiet, SameDeliveries DEF IInv
  <2> QED
    BY <2>1, <2>2, <2>3, <2>4, <2>5, <2>6 DEF Next
<1> QED
  BY <1>1, InitInv, PTL DEF Spec

(* Whatever is subscribed and cancelled meanwhile, and although ids are    *)
(* used again at once: a worker that the receiver can reach runs and is    *)
(* not told to end, every id of a fan-out has its worker, and the lists of *)
(* add_mapping and del_mapping are those of the handles.                   *)
THEOREM TablesStaySound == Spec => []TablesSound
<1>1. IInv => TablesSound
  <2> SUFFICES ASSUME IInv PROVE TablesSound
    OBVIOUS
  <2>1. ReachableRuns
    <3>1. ASSUME NEW e \in Ids, NEW w, w = workerStore[e], w # None
          PROVE  /\ wpc[w] \notin {"none", "done"}
                 /\ dontTerminate[w]
                 /\ subId[w] = e /\ store2[e] = w
      <4>1. w \in Worker
        BY <3>1 DEF IInv, TypeOK
      <4>2. InTables(w) /\ subId[w] = e
        BY <3>1, <4>1 DEF IInv, TableInv
      <4>3. store2[e] = w
        BY <4>1, <4>2 DEF IInv, TableInv, InTables, HasId
      <4>4. dontTerminate[w] /\ wpc[w] \notin {"none", "done"}
        BY <4>1, <4>2 DEF IInv, ThreadInv, InTables
      <4> QED
        BY <4>2, <4>3, <4>4
    <3> QED
      BY <3>1 DEF ReachableRuns
  <2>2. FanFinds
    <3>1. ASSUME rpc \in {"fan", "notify"}, NEW k \in DOMAIN todo
          PROVE  workerStore[todo[k]] # None
      <4>1. todo[k] \in Ids /\ todo[k] \in Members(todo)
        BY DEF IInv, TypeOK, Members
      <4>2. PICK w \in Worker : InTables(w) /\ subId[w] = todo[k]
        BY <3>1, <4>1 DEF IInv, FanInv, MapInv
      <4>3. workerStore[todo[k]] = w
        BY <4>1, <4>2 DEF IInv, TableInv
      <4> QED
        BY <4>3, Distinct
    <3> QED
      BY <3>1 DEF FanFinds
  <2>3. MappedExactly
    <3>1. ASSUME NEW i \in Sensor, NEW e \in Members(extList[i])
          PROVE  /\ e \in used
                 /\ \E w \in Worker : /\ subId[w] = e
                                      /\ spc[w] \in {"mapping", "serving", "unmapping"}
      <4>1. PICK w \in Worker : InTables(w) /\ subId[w] = e
        BY DEF IInv, MapInv
      <4> QED
        BY <4>1 DEF IInv, IdInv, InTables, HasId
    <3>2. ASSUME NEW i \in Sensor, NEW w \in Worker, spc[w] = "serving"
          PROVE  Count(extList[i], subId[w]) = Count(handle[w], i)
      BY <3>2 DEF IInv, MapInv, MapSound
    <3> QED
      BY <3>1, <3>2 DEF MappedExactly
  <2> QED
    BY <2>1, <2>2, <2>3 DEF IInv, TablesSound
<1> QED
  BY <1>1, Invariant, PTL

(* A client gets packets of its own internal ids only, in the order they   *)
(* were received, and each as often as it listed the path: fan-out, queue  *)
(* and write.                                                              *)
THEOREM DeliveriesRight == Spec => []DeliveredRight
<1>1. IInv => DeliveredRight
  <2> SUFFICES ASSUME IInv PROVE DeliveredRight
    OBVIOUS
  <2>1. ASSUME NEW w \in Worker, NEW k \in DOMAIN (out[w] \o q[w])
        PROVE  (out[w] \o q[w])[k].id \in Members(handle[w])
    <3>1. PICK o \in Seq(Packet), l \in Seq(Packet) : o = out[w] /\ l = q[w]
      BY DeliveryType
    <3>2. /\ Len(o) \in Nat /\ Len(l) \in Nat
          /\ DOMAIN (o \o l) = 1 .. Len(o) + Len(l)
          /\ DOMAIN o = 1 .. Len(o) /\ DOMAIN l = 1 .. Len(l)
      OBVIOUS
    <3>3. /\ \A j \in DOMAIN o : o[j].id \in Members(handle[w])
          /\ \A j \in DOMAIN l : l[j].id \in Members(handle[w])
      BY <3>1 DEF IInv, OwnInv
    <3>4. CASE k \in 1 .. Len(o)
      <4>1. (o \o l)[k] = o[k]
        BY <3>2, <3>4
      <4> QED
        BY <3>1, <3>2, <3>3, <3>4, <4>1
    <3>5. CASE k - Len(o) \in 1 .. Len(l)
      <4>1. (o \o l)[k] = l[k - Len(o)]
        BY <2>1, <3>1, <3>2, <3>5
      <4> QED
        BY <3>1, <3>2, <3>3, <3>5, <4>1
    <3> QED
      <4>1. k \in 1 .. Len(o) + Len(l)
        BY <2>1, <3>1, <3>2
      <4> QED
        BY <3>2, <3>4, <3>5, <4>1
  <2>2. ASSUME NEW w \in Worker, NEW d, d = Delivery(w)
        PROVE  /\ \A k \in 1 .. Len(d) - 1 : d[k].n <= d[k + 1].n
               /\ \A k \in DOMAIN d : Count(d, d[k]) <= Count(handle[w], d[k].id)
    <3>1. d \in Seq(Packet)
      BY <2>2, DeliveryType
    <3>2. DeliverySound(w)
      BY DEF IInv, DeliveryInv
    <3>3. /\ Ordered(d)
          /\ \A x \in Packet : Count(d, x) <= Count(handle[w], x.id)
      BY <2>2, <3>2 DEF DeliverySound
    <3> QED
      BY <3>1, <3>3 DEF Ordered
  <2> QED
    BY <2>1, <2>2 DEF DeliveredRight, OnlyMapped, InOrder
<1> QED
  BY <1>1, Invariant, PTL

-----------------------------------------------------------------------------
(* That nothing is lost.                                                   *)

(* The receiver adds its packet to the delivery of the worker it is at.    *)
LEMMA PushDelivers ==
  ASSUME IInv, PushPacket, NEW v \in Worker
  PROVE  Delivery(v)' = IF v = workerStore[Head(todo)]
                        THEN Append(Delivery(v), packet) ELSE Delivery(v)
<1>1. PICK w : w = workerStore[Head(todo)]
  OBVIOUS
<1>2. w \in Worker /\ InTables(w)
  BY <1>1, HeadFound DEF PushPacket
<1>3. /\ m[w] = None /\ q' = [q EXCEPT ![w] = Append(@, packet)]
      /\ UNCHANGED <<out, wpc>>
  BY <1>1, <1>2, Distinct DEF PushPacket, Push
<1>4. wpc[w] # "write"
  BY <1>2, <1>3, Distinct DEF IInv, ThreadInv
<1>5. q \in [Worker -> Seq(Packet)] /\ packet \in Packet
  BY DEF IInv, TypeOK, WorkerTypeOK
<1>6. CASE v # w
  <2>1. out'[v] = out[v] /\ q'[v] = q[v] /\ wpc'[v] = wpc[v]
    BY <1>3, <1>5, <1>6
  <2> QED
    BY <1>1, <1>6, <2>1 DEF Delivery
<1>7. CASE v = w
  <2>1. q'[v] = Append(q[v], packet)
    BY <1>3, <1>5, <1>7
  <2>2. Delivery(v) = out[v] \o q[v] /\ Delivery(v)' = out[v] \o Append(q[v], packet)
    BY <1>3, <1>4, <1>7, <2>1 DEF Delivery
  <2>3. PICK o \in Seq(Packet), l \in Seq(Packet), p \in Packet :
          o = out[v] /\ l = q[v] /\ p = packet
    BY <1>5, DeliveryType
  <2>4. Delivery(v)' = Append(Delivery(v), packet)
    <3>1. Delivery(v)' = o \o Append(l, p) /\ Delivery(v) = o \o l
      BY <2>2, <2>3
    <3>2. o \o Append(l, p) = Append(o \o l, p)
      OBVIOUS
    <3> QED
      BY <2>3, <3>1, <3>2
  <2> QED
    BY <1>1, <1>7, <2>4
<1> QED
  BY <1>6, <1>7

(* What a step does to a delivery: nothing, or it is the worker's that is  *)
(* told to end, or the receiver adds its packet.                           *)
LEMMA DeliveryStep ==
  ASSUME IInv, [Next]_vars, NEW v \in Worker
  PROVE  \/ Delivery(v)' = Delivery(v)
         \/ ~dontTerminate[v] /\ ~dontTerminate'[v]
         \/ /\ PushPacket /\ v = workerStore[Head(todo)]
            /\ Delivery(v)' = Append(Delivery(v), packet)
<1>1. /\ out[v] \in Seq(Packet) /\ q[v] \in Seq(Packet)
      /\ wpc \in [Worker -> {"none", "while", "test", "wait", "waiting", "woken",
                             "deliver", "write", "done"}]
      /\ q \in [Worker -> Seq(Packet)] /\ out \in [Worker -> Seq(Packet)]
  BY DEF IInv, TypeOK, WorkerTypeOK
<1>2. CASE UNCHANGED <<out, q>> /\ (wpc'[v] = "write" <=> wpc[v] = "write")
  BY <1>2 DEF Delivery
<1>3. ASSUME NEW w \in Worker, NEW paths \in Requests, Subscribe(w, paths)
      PROVE  UNCHANGED <<out, q>> /\ (wpc'[v] = "write" <=> wpc[v] = "write")
  BY <1>1, <1>3 DEF Subscribe, StartThread, WGoto
<1>4. ASSUME NEW w \in Worker, StreamStep(w) \/ BeginCleanup(w)
      PROVE  UNCHANGED <<out, q>> /\ (wpc'[v] = "write" <=> wpc[v] = "write")
  <2>1. CASE NotifyTerminate(w)
    BY <1>1, <2>1 DEF NotifyTerminate, NotifyOne
  <2>2. CASE SetTerminate(w)
    BY <2>2 DEF SetTerminate
  <2>3. CASE UNCHANGED workerVars
    BY <2>3 DEF workerVars
  <2> QED
    BY <1>4, <2>1, <2>2, <2>3 DEF StreamStep, BeginCleanup, AddWorker, AddMapping,
       SendMetaData, DelMapping, DelWorker, Join, RemoveRequest
<1>5. ASSUME NEW w \in Worker,
             \/ While(w) \/ Wakeup(w) \/ Test(w) \/ Wait(w) \/ SpuriousWakeup(w)
      PROVE  UNCHANGED <<out, q>> /\ (wpc'[v] = "write" <=> wpc[v] = "write")
  BY <1>1, <1>5 DEF While, Wakeup, Test, Wait, SpuriousWakeup, WGoto
<1>6. ASSUME NEW w \in Worker, Deliver(w), ~(~dontTerminate[v] /\ ~dontTerminate'[v])
      PROVE  Delivery(v)' = Delivery(v)
  <2>1. PICK o \in Seq(Packet), l \in Seq(Packet) : o = out[w] /\ l = q[w]
    BY DeliveryType
  <2>2. l # <<>> /\ wpc[w] = "deliver" /\ dontTerminate' = dontTerminate
    BY <1>6, <2>1 DEF Deliver, WGoto, IInv, ThreadInv
  <2>3. CASE v # w
    <3>1. out'[v] = out[v] /\ q'[v] = q[v] /\ wpc'[v] = wpc[v]
      BY <1>1, <1>6, <2>3 DEF Deliver, WGoto, Pop
    <3> QED
      BY <3>1 DEF Delivery
  <2>4. CASE v = w
    <3>1. wpc'[v] = "write" /\ q'[v] = l /\ out'[v] = Append(o, Head(l))
      BY <1>1, <1>6, <2>1, <2>2, <2>4 DEF Deliver, WGoto
    <3>2. Append(o, Head(l)) \o Tail(l) = o \o l
      BY <2>2
    <3> QED
      BY <2>1, <2>2, <2>4, <3>1, <3>2 DEF Delivery
  <2> QED
    BY <2>3, <2>4
<1>7. ASSUME NEW w \in Worker, Written(w)
      PROVE  Delivery(v)' = Delivery(v)
  <2>1. CASE v # w
    <3>1. out'[v] = out[v] /\ q'[v] = q[v] /\ wpc'[v] = wpc[v]
      BY <1>1, <1>7, <2>1 DEF Written, WGoto, PopWritten, Pop
    <3> QED
      BY <3>1 DEF Delivery
  <2>2. CASE v = w
    <3>1. /\ wpc[v] = "write" /\ wpc'[v] = "while"
          /\ q'[v] = Tail(q[v]) /\ out'[v] = out[v]
      BY <1>1, <1>7, <2>2 DEF Written, WGoto, PopWritten, Pop
    <3> QED
      BY <3>1 DEF Delivery
  <2> QED
    BY <2>1, <2>2
<1>8. CASE PushPacket
  BY <1>8, PushDelivers
<1>9. CASE NotifyPacket
  <2>1. UNCHANGED <<out, q>> /\ (wpc'[v] = "write" <=> wpc[v] = "write")
    BY <1>1, <1>9 DEF NotifyPacket, Announce, NotifyOne
  <2> QED
    BY <1>2, <2>1
<1>10. CASE UNCHANGED vars \/ Lookup \/ FanDone \/ \E i \in Sensor : Receive(i)
  <2>1. UNCHANGED workerVars
    BY <1>10 DEF vars, Lookup, FanDone, Receive
  <2> QED
    BY <1>2, <2>1 DEF workerVars
<1> QED
  BY <1>2, <1>3, <1>4, <1>5, <1>6, <1>7, <1>8, <1>9, <1>10
     DEF Next, WorkerStep, ReceiverStep

(* What a worker was given it writes, until it is told to end.             *)
THEOREM NothingIsLost == Spec => NothingLost
<1>1. IInv /\ [Next]_vars =>
        [\A w \in Worker : dontTerminate'[w] => KeepsAll(Delivery(w), Delivery(w)')]_vars
  <2> SUFFICES ASSUME IInv, [Next]_vars, NEW w \in Worker, dontTerminate'[w]
               PROVE  KeepsAll(Delivery(w), Delivery(w)')
    OBVIOUS
  <2>1. PICK d \in Seq(Packet), p \in Packet : d = Delivery(w) /\ p = packet
    BY DeliveryType DEF IInv, TypeOK
  <2>2. Delivery(w)' = d \/ Delivery(w)' = Append(d, p)
    BY <2>1, DeliveryStep
  <2>3. KeepsAll(d, d) /\ KeepsAll(d, Append(d, p))
    BY DEF KeepsAll
  <2> QED
    BY <2>1, <2>2, <2>3
<1> QED
  BY <1>1, Invariant, PTL DEF Spec, NothingLost

(* A stream's step changes no queue and puts no worker to sleep; while the *)
(* receiver is at work it changes no entry of workerStore.                 *)
LEMMA StreamsLetSleep ==
  ASSUME IInv, NEW w \in Worker,
         \/ \E paths \in Requests : Subscribe(w, paths)
         \/ StreamStep(w) \/ BeginCleanup(w)
  PROVE  /\ UNCHANGED <<q, rpc, todo>>
         /\ rpc = "notify" => workerStore' = workerStore
         /\ \A v \in Worker : wpc'[v] \in {"wait", "waiting"} => wpc'[v] = wpc[v]
<1>1. UNCHANGED <<q, rpc, todo>>
  BY DEF Subscribe, StreamStep, BeginCleanup, AddWorker, AddMapping,
         SendMetaData, DelMapping, DelWorker, SetTerminate, NotifyTerminate,
         Join, RemoveRequest, threadVars, workerVars
<1>2. rmutex = None => rpc # "notify"
  BY Distinct DEF IInv, FanInv
<1>3. rpc = "notify" => workerStore' = workerStore
  BY <1>2 DEF Subscribe, StreamStep, BeginCleanup, AddWorker, AddMapping,
         SendMetaData, DelMapping, DelWorker, SetTerminate, NotifyTerminate,
         Join, RemoveRequest, tableVars
<1>4. ASSUME NEW v \in Worker, wpc'[v] \in {"wait", "waiting"} PROVE wpc'[v] = wpc[v]
  <2>1. \/ wpc' = wpc
        \/ wpc' = [wpc EXCEPT ![w] = "while"] \/ wpc' = [wpc EXCEPT ![w] = "woken"]
    BY DEF Subscribe, StreamStep, BeginCleanup, AddWorker, AddMapping,
           SendMetaData, DelMapping, DelWorker, SetTerminate, NotifyTerminate,
           NotifyOne, Join, RemoveRequest, StartThread, WGoto, workerVars
  <2> QED
    BY <1>4, <2>1 DEF IInv, TypeOK, WorkerTypeOK
<1> QED
  BY <1>1, <1>3, <1>4

(* A worker goes to sleep only when it has found its queue empty, and has  *)
(* held its mutex since.                                                   *)
LEMMA WorkersSleepEmpty ==
  ASSUME IInv, NeverStranded, NEW w \in Worker, WorkerStep(w) \/ SpuriousWakeup(w)
  PROVE  /\ \A v \in Worker \ {w} : wpc'[v] = wpc[v] /\ q'[v] = q[v]
         /\ wpc'[w] \in {"wait", "waiting"} => q'[w] = <<>>
<1> USE DEF IInv, TypeOK, WorkerTypeOK, WGoto
<1>1. CASE While(w) \/ Wakeup(w) \/ Deliver(w) \/ Written(w) \/ SpuriousWakeup(w)
  BY <1>1 DEF While, Wakeup, Deliver, Written, PopWritten, Pop, SpuriousWakeup
<1>2. CASE Test(w)
  BY <1>2 DEF Test
<1>3. CASE Wait(w)
  BY <1>3 DEF Wait, NeverStranded
<1> QED
  BY <1>1, <1>2, <1>3 DEF WorkerStep

(* A push into a sleeping worker's queue is the one that the notification  *)
(* follows, and finds no worker between its test and its wait.             *)
LEMMA PushWakes ==
  ASSUME IInv, NeverStranded, ReceiverStep
  PROVE  NeverStranded'
<1> USE DEF IInv, TypeOK, WorkerTypeOK
<1>1. CASE Lookup \/ FanDone
  <2>1. rpc # "notify" /\ UNCHANGED <<wpc, q>>
    BY <1>1 DEF Lookup, FanDone, workerVars
  <2> QED
    BY <2>1 DEF NeverStranded
<1>2. CASE PushPacket
  <2>1. PICK w : w = workerStore[Head(todo)]
    OBVIOUS
  <2>2. rpc = "fan" /\ todo # <<>> /\ w \in Worker /\ UNCHANGED <<wpc, workerStore>>
    BY <1>2, <2>1, HeadFound DEF PushPacket, tableVars
  <2>3. /\ m[w] = None /\ q' = [q EXCEPT ![w] = Append(@, packet)]
        /\ rpc' = "notify" /\ todo' = todo
    BY <1>2, <2>1, <2>2, Distinct DEF PushPacket, Push
  <2>4. wpc[w] # "wait"
    BY <2>2, <2>3, Distinct DEF ThreadInv
  <2>5. \A v \in Worker \ {w} : q'[v] = q[v]
    BY <2>3
  <2> QED
    BY <2>1, <2>2, <2>3, <2>4, <2>5 DEF NeverStranded
<1>3. CASE NotifyPacket
  <2>1. PICK w : w = workerStore[Head(todo)]
    OBVIOUS
  <2>2. w \in Worker
    BY <1>3, <2>1, HeadFound DEF NotifyPacket, FanInv
  <2>3. /\ wpc' = IF wpc[w] = "waiting" THEN [wpc EXCEPT ![w] = "woken"] ELSE wpc
        /\ q' = q
    BY <1>3, <2>1 DEF NotifyPacket, Announce, NotifyOne
  <2>4. ASSUME NEW v \in Worker, wpc'[v] \in {"wait", "waiting"} PROVE q[v] = <<>>
    <3>1. wpc'[v] = wpc[v] /\ (v = w => wpc[v] = "wait")
      BY <2>2, <2>3, <2>4
    <3> QED
      BY <2>1, <2>4, <3>1 DEF NeverStranded
  <2> QED
    BY <2>3, <2>4 DEF NeverStranded
<1> QED
  BY <1>1, <1>2, <1>3 DEF ReceiverStep

(* No packet is stranded in the queue of a sleeping worker, however        *)
(* receiver, workers and the threads that end them interleave: the queue's *)
(* mutex leaves no room between the worker's test and its wait.            *)
THEOREM NoPacketStranded == Spec => []NeverStranded
<1>1. Init => NeverStranded
  BY DEF Init, WorkerInit, NeverStranded
<1>2. IInv /\ NeverStranded /\ [Next]_vars => NeverStranded'
  <2> SUFFICES ASSUME IInv, NeverStranded, [Next]_vars PROVE NeverStranded'
    OBVIOUS
  <2>1. ASSUME NEW w \in Worker,
               \/ \E paths \in Requests : Subscribe(w, paths)
               \/ StreamStep(w) \/ BeginCleanup(w)
        PROVE  NeverStranded'
    BY <2>1, StreamsLetSleep DEF NeverStranded
  <2>2. ASSUME NEW w \in Worker, WorkerStep(w) \/ SpuriousWakeup(w), UNCHANGED Rest
        PROVE  NeverStranded'
    <3>1. UNCHANGED <<rpc, todo, workerStore>>
      BY <2>2 DEF Rest, threadVars, tableVars
    <3> QED
      BY <2>2, <3>1, WorkersSleepEmpty DEF NeverStranded
  <2>3. ASSUME NEW i \in Sensor, Receive(i) PROVE NeverStranded'
    BY <2>3 DEF Receive, NeverStranded, workerVars
  <2>4. CASE ReceiverStep
    BY <2>4, PushWakes
  <2>5. CASE UNCHANGED vars
    BY <2>5 DEF vars, NeverStranded, workerVars, threadVars, tableVars
  <2> QED
    BY <2>1, <2>2, <2>3, <2>4, <2>5 DEF Next
<1> QED
  BY <1>1, <1>2, Invariant, PTL DEF Spec

(* During a fan-out: what was delivered of the packet and what is still to *)
(* come is what the packet's list has, for every stream in the tables.     *)
FanExact ==
  rpc \in {"fan", "notify"} =>
    \A w \in Worker : InTables(w) =>
      Count(Delivery(w), packet) + Count(ToCome, subId[w])
        = Count(extList[packet.id], subId[w])

(* While the receiver has its mutex, no stream enters its tables, and the  *)
(* lists stay as they are; no worker in the tables is told to end.         *)
LEMMA FanUndisturbed ==
  ASSUME IInv, FanExact, [Next]_vars, rpc \in {"fan", "notify"},
         UNCHANGED <<rpc, todo, packet>>
  PROVE  FanExact'
<1>1. rmutex = Receiver
  BY DEF IInv, FanInv
<1>2. /\ UNCHANGED extList
      /\ \A v \in Worker : InTables(v)' => InTables(v) /\ subId'[v] = subId[v]
  <2>1. ASSUME NEW w \in Worker, NEW paths \in Requests, Subscribe(w, paths)
        PROVE  /\ UNCHANGED extList
               /\ \A v \in Worker : InTables(v)' => InTables(v) /\ subId'[v] = subId[v]
    BY <2>1 DEF Subscribe, Goto, tableVars, InTables, IInv, TypeOK
  <2>2. ASSUME NEW w \in Worker, StreamStep(w) \/ BeginCleanup(w)
        PROVE  /\ UNCHANGED extList
               /\ \A v \in Worker : InTables(v)' => InTables(v) /\ subId'[v] = subId[v]
    <3>1. ~(AddWorker(w) \/ AddMapping(w) \/ DelMapping(w) \/ DelWorker(w))
      BY <1>1, Distinct DEF AddWorker, AddMapping, DelMapping, DelWorker
    <3>2. UNCHANGED <<extList, subId>>
      BY <2>2, <3>1 DEF StreamStep, BeginCleanup, SendMetaData, SetTerminate,
         NotifyTerminate, Join, RemoveRequest, tableVars
    <3>3. \A v \in Worker : InTables(v)' => InTables(v)
      BY <2>2, <3>1 DEF StreamStep, BeginCleanup, SendMetaData, SetTerminate,
         NotifyTerminate, Join, RemoveRequest, Goto, InTables, IInv, TypeOK
    <3> QED
      BY <3>2, <3>3
  <2>3. CASE \/ UNCHANGED vars \/ ReceiverStep \/ \E i \in Sensor : Receive(i)
             \/ UNCHANGED Rest
    BY <2>3 DEF vars, Rest, ReceiverStep, Lookup, PushPacket, NotifyPacket,
       FanDone, Receive, streamVars, tableVars, InTables
  <2> QED
    BY <2>1, <2>2, <2>3 DEF Next
<1>3. ASSUME NEW v \in Worker, InTables(v)
      PROVE  Delivery(v)' = Delivery(v)
  <2>1. dontTerminate[v]
    BY <1>3 DEF IInv, ThreadInv
  <2>2. ~PushPacket
    BY DEF PushPacket
  <2> QED
    BY <2>1, <2>2, DeliveryStep
<1>4. ToCome' = ToCome
  BY DEF ToCome
<1> QED
  BY <1>2, <1>3, <1>4 DEF FanExact

(* The fan-out begins, goes on by a packet or a notification, and ends.    *)
LEMMA FanMoves ==
  ASSUME IInv, IInv', FanExact, [Next]_vars,
         ReceiverStep \/ \E i \in Sensor : Receive(i)
  PROVE  FanExact'
<1>1. UNCHANGED streamVars /\ UNCHANGED tableVars
  BY DEF ReceiverStep, Lookup, PushPacket, NotifyPacket, FanDone, Receive
<1>2. \A v \in Worker : (InTables(v)' <=> InTables(v)) /\ subId'[v] = subId[v]
  BY <1>1 DEF streamVars, InTables
<1>3. CASE FanDone \/ \E i \in Sensor : Receive(i)
  BY <1>3 DEF FanDone, Receive, FanExact
<1>4. ASSUME Lookup, rpc' = "fan", NEW v \in Worker, InTables(v)
      PROVE  Count(Delivery(v)', packet') + Count(ToCome', subId'[v])
               = Count(extList'[packet'.id], subId'[v])
  <2>1. PICK d \in Seq(Packet), p \in Packet, e \in Ids \cup {NullId} :
          d = Delivery(v) /\ p = packet /\ e = subId[v]
    BY DeliveryType DEF IInv, TypeOK
  <2>2. rpc = "lookup" /\ packet' = p /\ ToCome' = extList[p.id]
    BY <1>4, <2>1 DEF Lookup, ToCome
  <2>3. Delivery(v)' = d
    BY <1>4, <2>1 DEF Delivery, Lookup, workerVars
  <2>4. PICK list \in Seq(Ids) : list = extList[p.id]
    BY <2>1, <2>2 DEF IInv, TypeOK, FanInv
  <2>5. p \notin Members(d)
    BY <2>1, <2>2 DEF IInv, FanInv, DeliveryInv, DeliverySound, Members
  <2>6. Count(d, p) = 0 /\ Count(list, e) \in Nat
    BY <2>5, CountIs
  <2> QED
    BY <1>1, <1>2, <2>1, <2>2, <2>3, <2>4, <2>6 DEF tableVars
<1>5. ASSUME PushPacket, NEW v \in Worker, InTables(v)
      PROVE  Count(Delivery(v)', packet') + Count(ToCome', subId'[v])
               = Count(extList'[packet'.id], subId'[v])
  <2>1. PICK w, e, t : w = workerStore[Head(todo)] /\ e = Head(todo) /\ t = Tail(todo)
    OBVIOUS
  <2>2. PICK d \in Seq(Packet), p \in Packet, x \in Ids \cup {NullId}, td \in Seq(Ids) :
          d = Delivery(v) /\ p = packet /\ x = subId[v] /\ td = todo
    BY DeliveryType DEF IInv, TypeOK
  <2>3. /\ rpc = "fan" /\ todo # <<>> /\ packet' = p
        /\ w \in Worker /\ InTables(w) /\ subId[w] = e
    BY <1>5, <2>1, <2>2, HeadFound DEF PushPacket
  <2>4. ToCome = td /\ ToCome' = t
    <3>1. rpc' = "notify" /\ todo' = todo
      BY <1>5, <2>1, <2>3, Distinct DEF PushPacket
    <3> QED
      BY <2>1, <2>2, <2>3, <3>1 DEF ToCome
  <2>5. /\ Count(td, x) = Count(t, x) + (IF e = x THEN 1 ELSE 0)
        /\ Count(t, x) \in Nat /\ Count(d, p) \in Nat
    <3>1. td # <<>> /\ e = Head(td) /\ t = Tail(td)
      BY <2>1, <2>2, <2>3
    <3>2. /\ Count(td, x) = Count(Tail(td), x) + (IF Head(td) = x THEN 1 ELSE 0)
          /\ Tail(td) \in Seq(Ids)
      BY <3>1, CountTail
    <3> QED
      BY <3>1, <3>2, CountIs
  <2>6. Count(d, p) + Count(td, x) = Count(extList[p.id], x)
    BY <1>5, <2>2, <2>3, <2>4 DEF FanExact
  <2>7. Count(Delivery(v)', p) = Count(d, p) + (IF e = x THEN 1 ELSE 0)
    <3>1. CASE v = w
      <4>1. Delivery(v)' = Append(d, p)
        BY <1>5, <2>1, <2>2, <3>1, PushDelivers
      <4>2. Count(Append(d, p), p) = Count(d, p) + 1
        BY CountAppend
      <4> QED
        BY <2>2, <2>3, <3>1, <4>1, <4>2
    <3>2. CASE v # w
      <4>1. Delivery(v)' = d
        BY <1>5, <2>1, <2>2, <3>2, PushDelivers
      <4>2. e # x
        <5>1. HasId(v) /\ HasId(w)
          BY <1>5, <2>3 DEF InTables, HasId
        <5> QED
          BY <2>2, <2>3, <3>2, <5>1, OwnId
      <4> QED
        BY <2>5, <4>1, <4>2
    <3> QED
      BY <3>1, <3>2
  <2> QED
    BY <1>1, <1>2, <1>5, <2>2, <2>3, <2>4, <2>5, <2>6, <2>7 DEF tableVars
<1>6. ASSUME NotifyPacket, NEW v \in Worker, InTables(v)
      PROVE  Count(Delivery(v)', packet') + Count(ToCome', subId'[v])
               = Count(extList'[packet'.id], subId'[v])
  <2>1. /\ rpc = "notify" /\ rpc' = "fan" /\ todo' = Tail(todo)
        /\ packet' = packet
    BY <1>6 DEF NotifyPacket
  <2>2. ToCome' = ToCome
    BY <2>1 DEF ToCome
  <2>3. dontTerminate[v]
    BY <1>6 DEF IInv, ThreadInv
  <2>4. Delivery(v)' = Delivery(v)
    BY <2>1, <2>3, DeliveryStep DEF PushPacket
  <2>5. Count(Delivery(v), packet) + Count(ToCome, subId[v])
          = Count(extList[packet.id], subId[v])
    BY <1>6, <2>1 DEF FanExact
  <2> QED
    BY <1>1, <1>2, <2>1, <2>2, <2>4, <2>5 DEF tableVars
<1>7. CASE Lookup
  <2>1. rpc' \in {"fan", "notify"} => rpc' = "fan"
    BY <1>7 DEF Lookup
  <2> QED
    BY <1>2, <1>4, <1>7, <2>1 DEF FanExact
<1>8. CASE PushPacket
  BY <1>2, <1>5, <1>8 DEF FanExact
<1>9. CASE NotifyPacket
  BY <1>2, <1>6, <1>9 DEF FanExact
<1> QED
  BY <1>3, <1>7, <1>8, <1>9 DEF ReceiverStep

(* Every step keeps the balance of the fan-out.                            *)
LEMMA FanExactStep ==
  ASSUME IInv, IInv', FanExact, [Next]_vars
  PROVE  FanExact'
<1>1. CASE ReceiverStep \/ \E i \in Sensor : Receive(i)
  BY <1>1, FanMoves
<1>2. CASE ~(ReceiverStep \/ \E i \in Sensor : Receive(i))
  <2>1. UNCHANGED <<rpc, todo, packet>>
    BY <1>2 DEF Next, vars, Rest, threadVars, Subscribe, StreamStep, BeginCleanup,
       AddWorker, AddMapping, SendMetaData, DelMapping, DelWorker, SetTerminate,
       NotifyTerminate, Join, RemoveRequest
  <2> QED
    BY <2>1, FanUndisturbed DEF FanExact
<1> QED
  BY <1>1, <1>2

(* With the lists of serving streams being those of their handles, no      *)
(* serving client misses a copy of a packet.                               *)
THEOREM FansReachAll == Spec => []FanReachesAll
<1>1. Init => FanExact
  BY DEF Init, FanExact
<1>2. IInv /\ FanExact => FanReachesAll
  <2> SUFFICES ASSUME IInv, FanExact, rpc \in {"fan", "notify"},
                      NEW w \in Worker, spc[w] = "serving"
               PROVE  Count(Delivery(w), packet) + Count(ToCome, subId[w])
                        = Count(handle[w], packet.id)
    BY DEF FanReachesAll
  <2>1. InTables(w) /\ packet.id \in Sensor
    BY DEF InTables, IInv, FanInv
  <2> QED
    BY <2>1 DEF FanExact, IInv, MapInv, MapSound
<1>3. IInv /\ IInv' /\ FanExact /\ [Next]_vars => FanExact'
  BY FanExactStep
<1> QED
  BY <1>1, <1>2, <1>3, Invariant, PTL DEF Spec

-----------------------------------------------------------------------------
(* Every packet comes to the queues it is for, and is not left in one.     *)
THEOREM PacketsReachAll == Spec => []PacketsReach
BY FansReachAll, NoPacketStranded, PTL DEF PacketsReach

(* When every stream has returned, threads, table entries, ids and sensors *)
(* are gone.                                                               *)
THEOREM EmptyInTheEnd == Spec => []NothingLeft
<1>1. IInv => NothingLeft
  <2> SUFFICES ASSUME IInv, \A w \in Worker : spc[w] = "done"
               PROVE  /\ \A w \in Worker : wpc[w] = "done"
                      /\ \A e \in Ids : store2[e] = None /\ workerStore[e] = None
                      /\ \A i \in Sensor : extList[i] = <<>> /\ sensor[i] = None
                      /\ used = {}
    BY DEF NothingLeft
  <2>1. \A w \in Worker : wpc[w] = "done" /\ ~HasId(w) /\ ~InTables(w)
    BY DEF IInv, ThreadInv, HasId, InTables
  <2>2. \A e \in Ids : store2[e] = None /\ workerStore[e] = None
    BY <2>1 DEF IInv, TypeOK, TableInv
  <2>3. ASSUME NEW i \in Sensor PROVE extList[i] = <<>> /\ sensor[i] = None
    <3>1. Members(extList[i]) = {}
      BY <2>1 DEF IInv, MapInv
    <3>2. extList[i] \in Seq(Ids)
      BY DEF IInv, TypeOK
    <3>3. extList[i] = <<>>
      <4>1. PICK list \in Seq(Ids) : list = extList[i]
        BY <3>2
      <4>2. \A k \in 1 .. Len(list) : list[k] \in Members(list)
        BY DEF Members
      <4>3. Len(list) \in Nat /\ ~(1 \in 1 .. Len(list))
        BY <3>1, <4>1, <4>2
      <4>4. Len(list) = 0
        BY <4>3
      <4> QED
        BY <4>1, <4>4
    <3> QED
      BY <3>3 DEF IInv, SensorInv
  <2>4. used = {}
    BY <2>1 DEF IInv, IdInv
  <2> QED
    BY <2>1, <2>2, <2>3, <2>4
<1> QED
  BY <1>1, Invariant, PTL
-----------------------------------------------------------------------------
(* The workers implement the abstract subscriptions.                       *)

(* createSubscriptionUdpWorker enters store2 under a free id.              *)
LEMMA SubscribeEnters ==
  ASSUME IInv, NEW w \in Worker, NEW paths \in Requests, Subscribe(w, paths)
  PROVE  Workers!SubNext
<1>1. PICK e : e = NextId(used)
  OBVIOUS
<1>2. e \in Ids /\ e \notin used
  <2>1. PICK u : u = used
    OBVIOUS
  <2>2. /\ NextId(u) \in Ids \cup {NullId}
        /\ NextId(u) \in Ids => NextId(u) \notin u
    BY NextIdIsFree
  <2> QED
    BY <1>1, <2>1, <2>2 DEF Subscribe
<1>3. /\ spc[w] = "idle" /\ spc' = [spc EXCEPT ![w] = "created"]
      /\ subId' = [subId EXCEPT ![w] = e]
      /\ store2' = [store2 EXCEPT ![e] = w]
  BY <1>1 DEF Subscribe, Goto
<1>4. store2[e] = None
  BY <1>2 DEF IInv, TypeOK, TableInv, IdInv
<1>5. Life(w) = "none" /\ Life(w)' = "stored"
      /\ \A v \in Worker \ {w} : Life(v)' = Life(v)
  BY <1>3 DEF IInv, TypeOK, Life
<1>6. [v \in Worker |-> Life(v)'] = [[v \in Worker |-> Life(v)] EXCEPT ![w] = "stored"]
  BY <1>5
<1>7. Workers!Enter(w, e)
  BY <1>3, <1>4, <1>5, <1>6 DEF Workers!Enter
<1> QED
  BY <1>2, <1>7 DEF Workers!SubNext, Ids, Workers!Ids

(* Once its thread was joined, a worker leaves store2 by its own entry.    *)
LEMMA JoinErases ==
  ASSUME IInv, NEW w \in Worker, Join(w)
  PROVE  Workers!Erase(w)
<1>1. /\ spc[w] = "join" /\ spc' = [spc EXCEPT ![w] = "joined"]
      /\ store2' = [store2 EXCEPT ![subId[w]] = None] /\ subId' = subId
  BY DEF Join, Goto
<1>2. Life(w) = "stored" /\ Life(w)' = "erased"
      /\ \A v \in Worker \ {w} : Life(v)' = Life(v)
  BY <1>1 DEF IInv, TypeOK, Life
<1>3. [v \in Worker |-> Life(v)'] = [[v \in Worker |-> Life(v)] EXCEPT ![w] = "erased"]
  BY <1>2
<1> QED
  BY <1>1, <1>2, <1>3 DEF Workers!Erase

(* The stream deletes what left store2 before.                             *)
LEMMA RemoveDeletes ==
  ASSUME IInv, NEW w \in Worker, RemoveRequest(w)
  PROVE  Workers!Delete(w)
<1>1. /\ spc[w] = "joined" /\ spc' = [spc EXCEPT ![w] = "done"]
      /\ UNCHANGED <<store2, subId>>
  BY DEF RemoveRequest, Goto
<1>2. Life(w) = "erased" /\ Life(w)' = "deleted"
      /\ \A v \in Worker \ {w} : Life(v)' = Life(v)
  BY <1>1 DEF IInv, TypeOK, Life
<1>3. [v \in Worker |-> Life(v)'] = [[v \in Worker |-> Life(v)] EXCEPT ![w] = "deleted"]
  BY <1>2
<1> QED
  BY <1>1, <1>2, <1>3 DEF Workers!Delete

(* No other step of a stream is seen in store2.                            *)
LEMMA StreamStutters ==
  ASSUME IInv, NEW w \in Worker,
         \/ AddWorker(w) \/ AddMapping(w) \/ SendMetaData(w) \/ BeginCleanup(w)
         \/ DelMapping(w) \/ DelWorker(w) \/ SetTerminate(w)
         \/ NotifyTerminate(w)
  PROVE  UNCHANGED Workers!subVars
<1>1. UNCHANGED <<store2, subId>>
  BY DEF AddWorker, AddMapping, SendMetaData, BeginCleanup, DelMapping,
         DelWorker, SetTerminate, NotifyTerminate
<1>2. \A v \in Worker : Life(v)' = Life(v)
  BY DEF AddWorker, AddMapping, SendMetaData, BeginCleanup, DelMapping,
         DelWorker, SetTerminate, NotifyTerminate, Goto, Life, IInv, TypeOK
<1> QED
  BY <1>1, <1>2 DEF Workers!subVars

(* Nor is a step of a worker's thread or of the receiver.                  *)
LEMMA ThreadsStutter ==
  ASSUME UNCHANGED <<spc, subId, store2>>
  PROVE  UNCHANGED Workers!subVars
BY DEF Life, Workers!subVars

(* The streams' side of the workers implements the abstract subscriptions, *)
(* for any number of workers and external ids: each step enters, erases or *)
(* deletes one worker, or none is touched.                                 *)
THEOREM WorkersImplement == Spec => WorkersAreSubscriptions
<1>1. Init => Workers!SubInit
  <2> SUFFICES ASSUME Init PROVE Workers!SubInit
    OBVIOUS
  <2>1. \A w \in Worker : Life(w) = "none"
    BY DEF Init, Life
  <2> QED
    BY <2>1 DEF Workers!SubInit, Init, Ids, NullId, Workers!Ids, Workers!NullId
<1>2. IInv /\ [Next]_vars => [Workers!SubNext]_(Workers!subVars)
  <2> SUFFICES ASSUME IInv, [Next]_vars
               PROVE  Workers!SubNext \/ UNCHANGED Workers!subVars
    OBVIOUS
  <2>1. ASSUME NEW w \in Worker, NEW paths \in Requests, Subscribe(w, paths)
        PROVE  Workers!SubNext
    BY <2>1, SubscribeEnters
  <2>2. ASSUME NEW w \in Worker, StreamStep(w) \/ BeginCleanup(w)
        PROVE  Workers!SubNext \/ UNCHANGED Workers!subVars
    <3>1. CASE Join(w)
      BY <3>1, JoinErases DEF Workers!SubNext
    <3>2. CASE RemoveRequest(w)
      BY <3>2, RemoveDeletes DEF Workers!SubNext
    <3> QED
      BY <2>2, <3>1, <3>2, StreamStutters DEF StreamStep
  <2>3. CASE \/ \E w \in Worker : UNCHANGED Rest
             \/ \E i \in Sensor : Receive(i)
             \/ ReceiverStep \/ UNCHANGED vars
    <3>1. UNCHANGED <<spc, subId, store2>>
      BY <2>3 DEF Rest, Receive, ReceiverStep, Lookup, PushPacket,
                  NotifyPacket, FanDone, vars, streamVars
    <3> QED
      BY <3>1, ThreadsStutter
  <2> QED
    BY <2>1, <2>2, <2>3 DEF Next
<1> QED
  BY <1>1, <1>2, Invariant, PTL DEF Spec, WorkersAreSubscriptions, Workers!SubSpec
=============================================================================
