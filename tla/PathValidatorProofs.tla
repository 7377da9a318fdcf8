------------------------ MODULE PathValidatorProofs ------------------------
(***************************************************************************)
(* What validate_path answers, for any table of supported paths, any       *)
(* number of threads and any frequencies.                                  *)
(***************************************************************************)
EXTENDS PathValidator, TLAPS

(* Object k is the last of the first n objects that is about path p.       *)
IsLast(p, k, n) ==
  /\ file[k].path = p
  /\ \A j \in 1 .. n : file[j].path = p => j <= k

(* The entry of a path is that of the last object read for it; a path no   *)
(* object was about has no entry, or the null one that a search made.      *)
LoadInv ==
  /\ \A p \in Path :
       \/ \E k \in 1 .. loaded : IsLast(p, k, loaded) /\ db[p] = Info(file[k])
       \/ /\ \A k \in 1 .. loaded : file[k].path # p
          /\ db[p] \in {Absent, Null}
  /\ server = "serving" => loaded = Len(file)
  /\ server # "serving" => \A t \in Thread : tpc[t] = "idle"

(* What a thread knows: it inserts a listed path only after a race, and    *)
(* its answer is the entry's, or a refusal.                                *)
ThreadInv ==
  \A t \in Thread :
    LET p == asked[t].path
    IN  /\ tpc[t] # "idle" => asked[t] \in Message
        /\ tpc[t] = "insert" /\ db[p].state = "info" => t \in raced
        /\ tpc[t] = "done" =>
             \/ answer[t] = Cleared /\ (db[p].state = "info" => t \in raced)
             \/ /\ db[p].state = "info"
                /\ answer[t] = Validated(db[p], asked[t])

(* The inductive invariant.                                                *)
IInv == TypeOK /\ LoadInv /\ ThreadInv
-----------------------------------------------------------------------------
(* Arithmetic of whole seconds.                                            *)

(* Division rounds down to a multiple.                                     *)
LEMMA DivBound ==
  ASSUME NEW n \in Nat, NEW u \in Nat \ {0}
  PROVE  /\ n \div u \in Nat
         /\ (n \div u) * u <= n
         /\ n < (n \div u) * u + u
<1>1. n \div u \in Nat
  OBVIOUS
<1>2. (n \div u) * u <= n
  OBVIOUS
<1>3. n < (n \div u) * u + u
  OBVIOUS
<1> QED
  BY <1>1, <1>2, <1>3

(* A number without remainder is its quotient's multiple.                  *)
LEMMA NoRemainder ==
  ASSUME NEW n \in Nat, NEW u \in Nat \ {0}, n % u = 0
  PROVE  n = (n \div u) * u
  OBVIOUS

(* A multiple has no remainder.                                            *)
LEMMA MultipleMod ==
  ASSUME NEW m \in Nat, NEW u \in Nat \ {0}
  PROVE  (m * u) % u = 0
  OBVIOUS

(* Less than one unit above a multiple, division finds the multiple.       *)
LEMMA MultipleDiv ==
  ASSUME NEW m \in Nat, NEW u \in Nat \ {0}, NEW h \in Nat, h < u
  PROVE  (m * u + h) \div u = m
  OBVIOUS

(* A number below the modulus is its own remainder.                        *)
LEMMA SmallMod ==
  ASSUME NEW n \in Nat, NEW u \in Nat \ {0}, n < u
  PROVE  n % u = n
  OBVIOUS

(* Distinct multiples are at least one unit apart.                         *)
LEMMA Apart ==
  ASSUME NEW a \in Nat, NEW b \in Nat, NEW u \in Nat, a < b
  PROVE  a * u + u <= b * u /\ a * u \in Nat /\ b * u \in Nat
<1>1. (a + 1) * u = a * u + u /\ a * u \in Nat /\ b * u \in Nat
  OBVIOUS
<1>2. a + 1 <= b /\ a + 1 \in Nat
  OBVIOUS
<1>3. \A x, y, z \in Nat : x <= y => x * z <= y * z
  OBVIOUS
<1> QED
  BY <1>1, <1>2, <1>3

-----------------------------------------------------------------------------
(* The entries.                                                            *)

(* The fields of the entry made from an object.                            *)
LEMMA InfoFields ==
  ASSUME NEW e, NEW i, i = Info(e)
  PROVE  /\ i.filter = Default(e.filter, TRUE)
         /\ i.suppress = Default(e.suppress, FALSE)
         /\ i.silent = Default(e.silent, FALSE)
         /\ i.min = Default(e.min, DefaultMin)
         /\ i.max = Default(e.max, DefaultMax)
<1>1. PICK a, b, c : /\ a = Default(e.filter, TRUE)
                     /\ b = Default(e.suppress, FALSE)
                     /\ c = Default(e.silent, FALSE)
  OBVIOUS
<1>2. i = [state |-> "info", filter |-> a, suppress |-> b, silent |-> c,
           min |-> Default(e.min, DefaultMin),
           max |-> Default(e.max, DefaultMax)]
  BY <1>1 DEF Info
<1>3. /\ i.filter = a /\ i.suppress = b /\ i.silent = c
      /\ i.min = Default(e.min, DefaultMin)
      /\ i.max = Default(e.max, DefaultMax)
  BY <1>2
<1> QED
  BY <1>1, <1>3

(* An entry made from an object has every field, and its greatest          *)
(* frequency can be rounded without overflow.                              *)
LEMMA InfoIs ==
  ASSUME NEW f \in Files, NEW k \in 1 .. Len(f), NEW i, i = Info(f[k])
  PROVE  /\ f[k] \in JsonObject /\ k \in DOMAIN f
         /\ i.state = "info" /\ i # Absent /\ i # Null
         /\ i.filter \in BOOLEAN /\ i.suppress \in BOOLEAN
         /\ i.silent \in BOOLEAN
         /\ i.min \in Nat /\ i.max \in Nat /\ i.max + Half < Mod
<1>1. f \in Seq(JsonObject) /\ f[k] \in JsonObject /\ k \in DOMAIN f
  BY ValidatorAssumption
<1>2. PICK e \in JsonObject : e = f[k]
  BY <1>1
<1>3. i = Info(e)
  BY <1>2
<1>4. i.state = "info" /\ i # Absent /\ i # Null
  BY <1>3 DEF Info, Absent, Null
<1>5. /\ i.filter = Default(e.filter, TRUE)
      /\ i.suppress = Default(e.suppress, FALSE)
      /\ i.silent = Default(e.silent, FALSE)
      /\ i.min = Default(e.min, DefaultMin)
      /\ i.max = Default(e.max, DefaultMax)
  BY <1>3, InfoFields
<1>6. /\ e.filter \in BOOLEAN \cup {Unset} /\ e.suppress \in BOOLEAN \cup {Unset}
      /\ e.silent \in BOOLEAN \cup {Unset}
  BY DEF JsonObject
<1>7. e.min \in Nat \cup {Unset} /\ e.max \in Nat \cup {Unset}
  BY DEF JsonObject
<1>8. i.filter \in BOOLEAN /\ i.suppress \in BOOLEAN /\ i.silent \in BOOLEAN
  BY <1>5, <1>6 DEF Default
<1>9. i.min \in Nat /\ i.max \in Nat
  BY <1>5, <1>7, ValidatorAssumption DEF Default
<1>10. i.max + Half < Mod
  BY <1>1, <1>2, <1>5, ValidatorAssumption DEF Default
<1> QED
  BY <1>1, <1>4, <1>8, <1>9, <1>10

(* A frequency that was adjusted is a number.                              *)
LEMMA FrequencyType ==
  ASSUME NEW n \in Nat, NEW i, i.min \in Nat, i.max \in Nat
  PROVE  SampleFrequency(n, i) \in Nat
<1>0. Unit \in Nat \ {0} /\ Half \in Nat /\ Mod \in Nat \ {0}
  BY ValidatorAssumption
<1>1. (n + Half) % Mod \in Nat
  BY <1>0
<1>2. PICK m \in Nat : m = (n + Half) % Mod
  BY <1>1
<1>3. m \div Unit \in Nat
  BY <1>0, DivBound
<1>4. (m \div Unit) * Unit \in Nat
  BY <1>0, <1>3
<1>5. ((m \div Unit) * Unit) % Mod \in Nat
  BY <1>0, <1>4
<1>6. RoundToThousandths(n, i.max) \in Nat
  BY <1>2, <1>5 DEF RoundToThousandths
<1> QED
  BY <1>6 DEF SampleFrequency

(* What validate_path may make of a message.                               *)
AnswerType == [path : Path \cup {Unset}, filter : BOOLEAN,
               suppress : BOOLEAN, silent : BOOLEAN, freq : Nat]

(* What validate_path leaves of a message is a message; of a path with an  *)
(* entry, one that is not empty.                                           *)
LEMMA ValidatedType ==
  ASSUME NEW f \in Files, NEW k \in 1 .. Len(f), NEW msg \in Message,
         NEW i, i = Info(f[k])
  PROVE  Validated(i, msg) \in AnswerType /\ Validated(i, msg) # Cleared
<1>1. /\ i.state = "info"
      /\ i.filter \in BOOLEAN /\ i.suppress \in BOOLEAN /\ i.silent \in BOOLEAN
      /\ i.min \in Nat /\ i.max \in Nat
  BY InfoIs
<1>2. msg.path \in Path /\ msg.freq \in Nat
  <2>1. msg.path \in Path /\ msg.freq \in Frequency
    BY DEF Message
  <2>2. Frequency \subseteq Nat
    BY ValidatorAssumption
  <2> QED
    BY <2>1, <2>2
<1>3. SampleFrequency(msg.freq, i) \in Nat
  BY <1>1, <1>2, FrequencyType
<1>4. Validated(i, msg) = [path |-> msg.path,
        filter |-> msg.filter /\ i.filter,
        suppress |-> msg.suppress /\ i.suppress,
        silent |-> msg.silent /\ i.silent,
        freq |-> SampleFrequency(msg.freq, i)]
  BY <1>1 DEF Validated
<1>5. Validated(i, msg).path = msg.path
  BY <1>4
<1>6. Cleared.path = Unset
  BY DEF Cleared
<1>7. Validated(i, msg) # Cleared
  BY <1>2, <1>5, <1>6, ValidatorAssumption
<1>8. Validated(i, msg) \in AnswerType
  BY <1>2, <1>3, <1>4 DEF AnswerType
<1> QED
  BY <1>7, <1>8

(* The empty message is one.                                               *)
LEMMA ClearedType == Cleared \in AnswerType /\ Cleared \notin Message
<1>1. Cleared \in AnswerType
  BY DEF Cleared, AnswerType
<1>2. Cleared.path = Unset
  BY DEF Cleared
<1>3. Cleared \notin Message
  BY <1>2, ValidatorAssumption DEF Message
<1> QED
  BY <1>1, <1>3

(* An entry is missing, null, or made from an object that was read.        *)
LEMMA EntryIs ==
  ASSUME TypeOK, NEW p \in Path
  PROVE  /\ db[p].state = "info" => db[p] # Absent /\ db[p] # Null
         /\ db[p].state # "info" => db[p] \in {Absent, Null}
         /\ db[p].state = "info" =>
              \E f \in Files : \E k \in 1 .. Len(f) : db[p] = Info(f[k])
<1>1. Absent.state # "info" /\ Null.state # "info"
  BY DEF Absent, Null
<1>2. CASE db[p] \in {Absent, Null}
  BY <1>1, <1>2
<1>3. CASE \E k \in 1 .. loaded : db[p] = Info(file[k])
  <2>1. PICK k \in 1 .. loaded : db[p] = Info(file[k])
    BY <1>3
  <2>2. PICK f \in Files : f = file /\ k \in 1 .. Len(f)
    <3>1. file \in Files /\ loaded \in 0 .. Len(file)
      BY DEF TypeOK
    <3>2. PICK f \in Files : f = file
      BY <3>1
    <3>3. Len(f) \in Nat
      BY ValidatorAssumption
    <3> QED
      BY <2>1, <3>1, <3>2, <3>3
  <2>3. Info(f[k]).state = "info"
    BY <2>2, InfoIs
  <2> QED
    BY <1>1, <2>1, <2>2, <2>3
<1> QED
  BY <1>2, <1>3 DEF TypeOK

-----------------------------------------------------------------------------
(* The inductive invariant, action by action.                              *)

(* It holds before the file is read.                                       *)
LEMMA InitIInv == Init => IInv
<1> SUFFICES ASSUME Init
             PROVE  IInv
  OBVIOUS
<1>1. TypeOK
  <2>1. file \in Files /\ loaded \in 0 .. Len(file)
    <3>1. PICK f \in Files : f = file
      BY DEF Init
    <3>2. Len(f) \in Nat
      BY ValidatorAssumption
    <3> QED
      BY <3>1, <3>2 DEF Init
  <2>2. /\ answer \in [Thread -> AnswerType]
        /\ asked \in [Thread -> Message \cup {Cleared}]
    BY ClearedType DEF Init
  <2>3. db \in [Path -> {Absent, Null} \cup {Info(file[k]) : k \in 1 .. loaded}]
    BY DEF Init
  <2> QED
    BY <2>1, <2>2, <2>3 DEF Init, TypeOK, AnswerType
<1>2. LoadInv
  BY DEF Init, LoadInv
<1>3. ThreadInv
  BY DEF Init, ThreadInv
<1> QED
  BY <1>1, <1>2, <1>3 DEF IInv

(* Reading one more object: it becomes the last one about its path.        *)
LEMMA LoadNextIInv ==
  ASSUME IInv, LoadNext
  PROVE  IInv'
<1>0. /\ TypeOK /\ LoadInv /\ server = "loading" /\ loaded < Len(file)
      /\ UNCHANGED <<file, tpc, asked, answer, raced>>
  BY DEF IInv, LoadNext
<1>1. PICK f \in Files, n \in Nat : f = file /\ n = loaded /\ n < Len(f)
  BY <1>0 DEF TypeOK
<1>2. f[n + 1] \in JsonObject /\ n + 1 \in 1 .. Len(f) /\ Len(f) \in Nat
  BY <1>1, ValidatorAssumption
<1>3. PICK e \in JsonObject : e = f[n + 1]
  BY <1>2
<1>4. \A t \in Thread : tpc[t] = "idle"
  BY <1>0 DEF LoadInv
<1>5. CASE e.path = Unset
  <2>1. server' = "failed" /\ loaded' = loaded /\ db' = db
    BY <1>1, <1>3, <1>5 DEF LoadNext
  <2>2. TypeOK'
    BY <2>1, <1>0 DEF TypeOK
  <2>3. LoadInv'
    BY <2>1, <1>0, <1>4 DEF LoadInv, IsLast
  <2>4. ThreadInv'
    BY <1>0, <1>4 DEF ThreadInv
  <2> QED
    BY <2>2, <2>3, <2>4 DEF IInv
<1>6. CASE e.path # Unset
  <2>0. PICK p \in Path : p = e.path
    BY <1>6 DEF JsonObject
  <2>1. /\ server' = server /\ loaded' = n + 1
        /\ db' = [db EXCEPT ![p] = Info(e)]
    BY <1>1, <1>3, <1>6, <2>0 DEF LoadNext
  <2>2. TypeOK'
    <3>1. loaded' \in 0 .. Len(file)
      BY <1>1, <1>2, <2>1
    <3>2. /\ \A k \in 1 .. n : k \in 1 .. (n + 1)
          /\ n + 1 \in 1 .. (n + 1)
      OBVIOUS
    <3>3. db \in [Path -> {Absent, Null} \cup {Info(f[k]) : k \in 1 .. (n + 1)}]
      BY <3>2, <1>0, <1>1 DEF TypeOK
    <3>4. Info(e) \in {Info(f[k]) : k \in 1 .. (n + 1)}
      BY <3>2, <1>3
    <3>5. db' \in [Path -> {Absent, Null} \cup {Info(f[k]) : k \in 1 .. (n + 1)}]
      BY <3>3, <3>4, <2>1
    <3> QED
      BY <3>1, <3>5, <2>1, <1>0, <1>1 DEF TypeOK
  <2>3. LoadInv'
    <3>1. ASSUME NEW q \in Path
          PROVE  \/ \E k \in 1 .. (n + 1) :
                      /\ f[k].path = q /\ db'[q] = Info(f[k])
                      /\ \A j \in 1 .. (n + 1) : f[j].path = q => j <= k
                 \/ /\ \A k \in 1 .. (n + 1) : f[k].path # q
                    /\ db'[q] \in {Absent, Null}
      <4>1. CASE q = p
        <5>1. /\ f[n + 1].path = q /\ db'[q] = Info(f[n + 1])
              /\ \A j \in 1 .. (n + 1) : j <= n + 1
              /\ n + 1 \in 1 .. (n + 1)
          BY <4>1, <2>0, <2>1, <1>0, <1>3 DEF TypeOK
        <5> QED
          BY <5>1
      <4>2. CASE q # p
        <5>1. db'[q] = db[q] /\ f[n + 1].path # q
          BY <4>2, <2>0, <2>1, <1>0, <1>3 DEF TypeOK
        <5>2. \A j \in 1 .. (n + 1) : j \in 1 .. n \/ j = n + 1
          OBVIOUS
        <5>3. 1 .. n \subseteq 1 .. (n + 1)
          OBVIOUS
        <5>4. CASE \E k \in 1 .. n :
                     /\ f[k].path = q /\ db[q] = Info(f[k])
                     /\ \A j \in 1 .. n : f[j].path = q => j <= k
          BY <5>1, <5>2, <5>3, <5>4
        <5>5. CASE (\A k \in 1 .. n : f[k].path # q) /\ db[q] \in {Absent, Null}
          BY <5>1, <5>2, <5>5
        <5> QED
          BY <5>4, <5>5, <1>0, <1>1 DEF LoadInv, IsLast
      <4> QED
        BY <4>1, <4>2
    <3> QED
      BY <3>1, <2>1, <1>0, <1>1, <1>4 DEF LoadInv, IsLast
  <2>4. ThreadInv'
    BY <1>0, <1>4 DEF ThreadInv
  <2> QED
    BY <2>2, <2>3, <2>4 DEF IInv
<1> QED
  BY <1>5, <1>6

(* Starting to serve, once every object is read.                           *)
LEMMA LoadedIInv ==
  ASSUME IInv, Loaded
  PROVE  IInv'
<1>0. /\ TypeOK /\ LoadInv /\ ThreadInv
      /\ server = "loading" /\ loaded = Len(file) /\ server' = "serving"
      /\ UNCHANGED <<file, loaded, db, tpc, asked, answer, raced>>
  BY DEF IInv, Loaded
<1>1. TypeOK'
  BY <1>0 DEF TypeOK
<1>2. LoadInv'
  BY <1>0 DEF LoadInv, IsLast
<1>3. ThreadInv'
  BY <1>0 DEF ThreadInv
<1> QED
  BY <1>1, <1>2, <1>3 DEF IInv

(* A thread starts to validate a path.                                     *)
LEMMA AskIInv ==
  ASSUME IInv, NEW t \in Thread, NEW msg \in Message, Ask(t, msg)
  PROVE  IInv'
<1>0. /\ TypeOK /\ LoadInv /\ ThreadInv /\ server = "serving"
      /\ tpc' = [tpc EXCEPT ![t] = "search"]
      /\ asked' = [asked EXCEPT ![t] = msg]
      /\ answer' = [answer EXCEPT ![t] = Cleared]
      /\ UNCHANGED <<file, loaded, server, db, raced>>
  BY DEF IInv, Ask
<1>1. TypeOK'
  <2>1. answer' \in [Thread -> AnswerType]
    BY <1>0, ClearedType DEF TypeOK, AnswerType
  <2> QED
    BY <2>1, <1>0 DEF TypeOK, AnswerType
<1>2. LoadInv'
  BY <1>0 DEF LoadInv, IsLast
<1>3. ThreadInv'
  BY <1>0 DEF ThreadInv, TypeOK
<1> QED
  BY <1>1, <1>2, <1>3 DEF IInv

(* The search: an entry decides the answer; a path without one, or one     *)
(* that a race hid, goes on to the insertion.                              *)
LEMMA SearchIInv ==
  ASSUME IInv, NEW t \in Thread, Search(t)
  PROVE  IInv'
<1>0. /\ TypeOK /\ LoadInv /\ ThreadInv /\ tpc[t] = "search"
      /\ UNCHANGED <<file, loaded, server, db, asked>>
  BY DEF IInv, Search
<1>1. PICK msg \in Message : msg = asked[t]
  BY <1>0 DEF ThreadInv
<1>2. PICK p \in Path : p = msg.path
  BY DEF Message
<1>3. raced' \in SUBSET Thread /\ raced \subseteq raced'
      /\ (Inserting(t) => t \in raced')
  BY <1>0 DEF Search, TypeOK
<1>4. server = "serving"
  BY <1>0 DEF LoadInv
<1>5. CASE db[p] # Absent /\ Return(t, Validated(db[p], msg))
  <2>1. /\ tpc' = [tpc EXCEPT ![t] = "done"]
        /\ answer' = [answer EXCEPT ![t] = Validated(db[p], msg)]
    BY <1>5 DEF Return
  <2>2. Validated(db[p], msg) \in AnswerType
    <3>1. CASE db[p].state = "info"
      BY <3>1, <1>0, EntryIs, ValidatedType
    <3>2. CASE db[p].state # "info"
      BY <3>2, ClearedType DEF Validated
    <3> QED
      BY <3>1, <3>2
  <2>3. TypeOK'
    BY <2>1, <2>2, <1>0, <1>3 DEF TypeOK, AnswerType
  <2>4. LoadInv'
    BY <2>1, <1>0, <1>4 DEF LoadInv, IsLast
  <2>5. db[p].state # "info" => Validated(db[p], msg) = Cleared
    BY DEF Validated
  <2>6. ThreadInv'
    BY <2>1, <2>5, <1>0, <1>1, <1>2, <1>3 DEF ThreadInv, TypeOK
  <2> QED
    BY <2>3, <2>4, <2>6 DEF IInv
<1>6. CASE /\ db[p] = Absent \/ Inserting(t)
           /\ tpc' = [tpc EXCEPT ![t] = "insert"] /\ answer' = answer
  <2>1. TypeOK'
    BY <1>0, <1>3, <1>6 DEF TypeOK
  <2>2. LoadInv'
    BY <1>0, <1>4, <1>6 DEF LoadInv, IsLast
  <2>3. db[p].state = "info" => t \in raced'
    BY <1>3, <1>6 DEF Absent
  <2>4. ThreadInv'
    BY <2>3, <1>0, <1>1, <1>2, <1>3, <1>6 DEF ThreadInv, TypeOK
  <2> QED
    BY <2>1, <2>2, <2>4 DEF IInv
<1> QED
  BY <1>1, <1>2, <1>5, <1>6 DEF Search

(* The insertion: only a path without an entry gets one, a null one.       *)
LEMMA InsertIInv ==
  ASSUME IInv, NEW t \in Thread, Insert(t)
  PROVE  IInv'
<1>0. /\ TypeOK /\ LoadInv /\ ThreadInv /\ tpc[t] = "insert"
      /\ tpc' = [tpc EXCEPT ![t] = "done"]
      /\ answer' = [answer EXCEPT ![t] = Cleared]
      /\ UNCHANGED <<file, loaded, server, asked, raced>>
  BY DEF IInv, Insert, Return
<1>1. PICK msg \in Message : msg = asked[t]
  BY <1>0 DEF ThreadInv
<1>2. PICK p \in Path : p = msg.path
  BY DEF Message
<1>3. db' = [db EXCEPT ![p] = IF @ = Absent THEN Null ELSE @]
  BY <1>1, <1>2 DEF Insert, InsertNull
<1>4. \A q \in Path : \/ db'[q] = db[q]
                      \/ db[q] = Absent /\ db'[q] = Null
  BY <1>0, <1>3 DEF TypeOK
<1>5. TypeOK'
  <2>1. db' \in [Path -> {Absent, Null} \cup {Info(file[k]) : k \in 1 .. loaded}]
    BY <1>0, <1>3 DEF TypeOK
  <2>2. answer' \in [Thread -> AnswerType]
    BY <1>0, ClearedType DEF TypeOK, AnswerType
  <2> QED
    BY <2>1, <2>2, <1>0 DEF TypeOK, AnswerType
<1>6. LoadInv'
  <2>1. server = "serving"
    BY <1>0 DEF LoadInv
  <2>2. ASSUME NEW q \in Path
        PROVE  \/ \E k \in 1 .. loaded :
                    IsLast(q, k, loaded) /\ db'[q] = Info(file[k])
               \/ /\ \A k \in 1 .. loaded : file[k].path # q
                  /\ db'[q] \in {Absent, Null}
    <3>1. CASE db'[q] = db[q]
      BY <3>1, <1>0 DEF LoadInv
    <3>2. CASE db[q] = Absent /\ db'[q] = Null
      <4>1. \A k \in 1 .. loaded : Info(file[k]) # Absent
        BY DEF Info, Absent
      <4> QED
        BY <3>2, <4>1, <1>0 DEF LoadInv
    <3> QED
      BY <3>1, <3>2, <1>4
  <2> QED
    BY <2>1, <2>2, <1>0 DEF LoadInv, IsLast
<1>7. ThreadInv'
  <2>1. Absent.state # "info" /\ Null.state # "info"
    BY DEF Absent, Null
  <2>2. \A q \in Path : /\ db'[q].state = "info" <=> db[q].state = "info"
                        /\ db[q].state = "info" => db'[q] = db[q]
    BY <2>1, <1>4
  <2>3. \A s \in Thread : tpc[s] # "idle" => asked[s].path \in Path
    BY <1>0 DEF ThreadInv, Message
  <2> QED
    BY <2>2, <2>3, <1>0, <1>1, <1>2 DEF ThreadInv, TypeOK
<1> QED
  BY <1>5, <1>6, <1>7 DEF IInv

(* The caller takes the answer.                                            *)
LEMMA TakeIInv ==
  ASSUME IInv, NEW t \in Thread, Take(t)
  PROVE  IInv'
<1>0. /\ TypeOK /\ LoadInv /\ ThreadInv /\ tpc[t] = "done"
      /\ tpc' = [tpc EXCEPT ![t] = "idle"]
      /\ asked' = [asked EXCEPT ![t] = Cleared]
      /\ answer' = [answer EXCEPT ![t] = Cleared]
      /\ raced' = raced \ {t}
      /\ UNCHANGED <<file, loaded, server, db>>
  BY DEF IInv, Take
<1>1. TypeOK'
  <2>1. answer' \in [Thread -> AnswerType]
    BY <1>0, ClearedType DEF TypeOK, AnswerType
  <2> QED
    BY <2>1, <1>0 DEF TypeOK, AnswerType
<1>2. LoadInv'
  BY <1>0 DEF LoadInv, IsLast, TypeOK
<1>3. ThreadInv'
  BY <1>0 DEF ThreadInv, TypeOK
<1> QED
  BY <1>1, <1>2, <1>3 DEF IInv

(* The invariant holds in every reachable state of the validator.          *)
THEOREM Invariant == Spec => []IInv
<1>1. IInv /\ [Next]_vars => IInv'
  <2> SUFFICES ASSUME IInv, [Next]_vars
               PROVE  IInv'
    OBVIOUS
  <2>1. CASE UNCHANGED vars
    BY <2>1 DEF vars, IInv, TypeOK, LoadInv, ThreadInv, IsLast
  <2>2. CASE Next
    BY <2>2, LoadNextIInv, LoadedIInv, AskIInv, SearchIInv, InsertIInv,
       TakeIInv DEF Next
  <2> QED
    BY <2>1, <2>2
<1> QED
  BY InitIInv, <1>1, PTL DEF Spec

-----------------------------------------------------------------------------
(* What the invariant says of the table.                                   *)

(* While the agent serves, the entry of a listed path is that of the last  *)
(* object about it, and no other path has a real entry.                    *)
LEMMA EntryIsLast ==
  ASSUME IInv, server = "serving", NEW p \in Path
  PROVE  /\ db[p].state = "info" <=> Listed(p)
         /\ Listed(p) => \E f \in Files : \E k \in 1 .. Len(f) :
              /\ file = f /\ LastObject(p) = f[k] /\ db[p] = Info(f[k])
              /\ f[k].path = p
<1>1. PICK f \in Files : f = file
  BY DEF IInv, TypeOK
<1>2. DOMAIN f = 1 .. Len(f) /\ loaded = Len(f) /\ Len(f) \in Nat
  BY <1>1, ValidatorAssumption DEF IInv, LoadInv
<1>3. Objects(p) = {k \in 1 .. Len(f) : f[k].path = p}
  BY <1>1, <1>2 DEF Objects
<1>4. CASE \E k \in 1 .. loaded : IsLast(p, k, loaded) /\ db[p] = Info(file[k])
  <2>1. PICK k \in 1 .. Len(f) :
          /\ f[k].path = p /\ db[p] = Info(f[k])
          /\ \A j \in 1 .. Len(f) : f[j].path = p => j <= k
    BY <1>1, <1>2, <1>4 DEF IsLast
  <2>2. k \in Objects(p) /\ \A j \in Objects(p) : j <= k
    BY <2>1, <1>3
  <2>3. \A m \in Objects(p) : (\A j \in Objects(p) : j <= m) => m = k
    BY <2>2, <1>2, <1>3
  <2>4. LastObject(p) = f[k]
    BY <2>2, <2>3, <1>1 DEF LastObject
  <2>5. db[p].state = "info"
    BY <2>1 DEF Info
  <2> QED
    BY <2>1, <2>2, <2>4, <2>5, <1>1 DEF Listed
<1>5. CASE (\A k \in 1 .. loaded : file[k].path # p) /\ db[p] \in {Absent, Null}
  <2>1. Objects(p) = {}
    BY <1>1, <1>2, <1>3, <1>5
  <2>2. db[p].state # "info"
    BY <1>5 DEF Absent, Null
  <2> QED
    BY <2>1, <2>2 DEF Listed
<1> QED
  BY <1>4, <1>5 DEF IInv, LoadInv

(* Every entry is null or comes from the file, and is the right one of the *)
(* two for its path, however many unknown paths are looked up.             *)
THEOREM TableIsFile == Spec => []DbInv
<1>1. IInv => DbInv
  BY EntryIsLast DEF IInv, DbInv, DbIsFile
<1> QED
  BY <1>1, Invariant, PTL

-----------------------------------------------------------------------------
(* What a client is told.                                                  *)

(* The bounds the repository's files give, and the defaults, are whole     *)
(* seconds, and 500 is half of 1000.                                       *)
WholeSecondBounds ==
  /\ 2 * Half = Unit
  /\ \A f \in Files : \A k \in DOMAIN f :
       LET i == Info(f[k])
       IN  i.min <= i.max /\ i.min % Unit = 0 /\ i.max % Unit = 0

(* Rounding a frequency within its bounds: no overflow, a whole second     *)
(* within the bounds, at most half a second away.                          *)
LEMMA RoundedIs ==
  ASSUME NEW n \in Nat, NEW a \in Nat, NEW b \in Nat, 2 * Half = Unit,
         a * Unit <= n, n <= b * Unit, b * Unit + Half < Mod
  PROVE  \E q \in Nat :
           /\ RoundToThousandths(n, b * Unit) = q * Unit
           /\ q * Unit \in Nat /\ a * Unit <= q * Unit /\ q * Unit <= b * Unit
           /\ q * Unit <= n + Half /\ n + Half < q * Unit + Unit
<1>0. Unit \in Nat \ {0} /\ Half \in Nat /\ Mod \in Nat \ {0}
      /\ a * Unit \in Nat /\ b * Unit \in Nat
  BY ValidatorAssumption
<1>1. n + Half \in Nat /\ n + Half < Mod
  BY <1>0
<1>2. (n + Half) % Mod = n + Half
  BY <1>0, <1>1, SmallMod
<1>3. PICK q \in Nat : q = (n + Half) \div Unit
  BY <1>0, <1>1, DivBound
<1>4. q * Unit <= n + Half /\ n + Half < q * Unit + Unit
  BY <1>0, <1>1, <1>3, DivBound
<1>5. q * Unit \in Nat
  BY <1>0
<1>6. q <= b
  <2> SUFFICES ASSUME b < q
               PROVE  FALSE
    OBVIOUS
  <2>1. b * Unit + Unit <= q * Unit
    BY <1>0, Apart
  <2>2. \A x, y, z, u, h \in Nat :
          x + u <= y /\ y <= z + h /\ z <= x /\ 2 * h = u => u = 0
    OBVIOUS
  <2> QED
    BY <2>1, <2>2, <1>0, <1>4, <1>5
<1>7. a <= q
  <2> SUFFICES ASSUME q < a
               PROVE  FALSE
    OBVIOUS
  <2>1. q * Unit + Unit <= a * Unit
    BY <1>0, Apart
  <2> QED
    BY <2>1, <1>0, <1>4, <1>5
<1>8. \A x, y, u \in Nat : x <= y => x * u <= y * u
  OBVIOUS
<1>9. a * Unit <= q * Unit /\ q * Unit <= b * Unit
  BY <1>0, <1>6, <1>7, <1>8
<1>10. q * Unit < Mod
  BY <1>0, <1>5, <1>9
<1>11. (q * Unit) % Mod = q * Unit
  BY <1>0, <1>5, <1>10, SmallMod
<1>12. RoundToThousandths(n, b * Unit) = q * Unit
  <2>1. ((((n + Half) % Mod) \div Unit) * Unit) % Mod = q * Unit
    BY <1>2, <1>3, <1>11
  <2>2. ~(q * Unit > b * Unit)
    BY <1>0, <1>5, <1>9
  <2> QED
    BY <2>1, <2>2 DEF RoundToThousandths
<1> QED
  BY <1>4, <1>5, <1>9, <1>12

(* What makes a number the nearest whole second.                           *)
LEMMA NearestIs ==
  ASSUME NEW n \in Nat, NEW min \in Nat, NEW max \in Nat,
         NEW r \in min .. max, r % Unit = 0,
         \A s \in min .. max : s % Unit = 0 =>
            \/ Distance(n, r) < Distance(n, s)
            \/ Distance(n, r) = Distance(n, s) /\ r >= s
  PROVE  Nearest(n, min, max) = r
<1> DEFINE S == {u \in min .. max : u % Unit = 0}
           Best(x) == \A s \in S : \/ Distance(n, x) < Distance(n, s)
                                   \/ Distance(n, x) = Distance(n, s) /\ x >= s
<1>1. r \in S /\ Best(r)
  OBVIOUS
<1>2. \A x \in S : Distance(n, x) \in Nat /\ x \in Nat
  BY DEF Distance
<1>3. ASSUME NEW x \in S, Best(x)
      PROVE  x = r
  <2>1. /\ \/ Distance(n, x) < Distance(n, r)
           \/ Distance(n, x) = Distance(n, r) /\ x >= r
        /\ \/ Distance(n, r) < Distance(n, x)
           \/ Distance(n, r) = Distance(n, x) /\ r >= x
    BY <1>1, <1>3
  <2>2. Distance(n, x) \in Nat /\ Distance(n, r) \in Nat /\ x \in Nat /\ r \in Nat
    BY <1>1, <1>2, <1>3
  <2>3. \A d, e, y, z \in Nat :
          /\ d < e \/ (d = e /\ y >= z)
          /\ e < d \/ (e = d /\ z >= y)
          => y = z
    OBVIOUS
  <2> HIDE DEF S, Best
  <2> QED
    BY <2>1, <2>2, <2>3
<1>4. Nearest(n, min, max) = CHOOSE x \in S : Best(x)
  BY DEF Nearest
<1> HIDE DEF S, Best
<1> QED
  BY <1>1, <1>3, <1>4

(* validate_path's frequency is the nearest whole second within the        *)
(* bounds, and adjusting it again changes nothing.                         *)
LEMMA FrequencyNearest ==
  ASSUME NEW n \in Nat, NEW i, i.min \in Nat, i.max \in Nat, 2 * Half = Unit,
         i.min <= i.max, i.min % Unit = 0, i.max % Unit = 0, i.max + Half < Mod,
         NEW x, x = SampleFrequency(n, i)
  PROVE  /\ x = Nearest(n, i.min, i.max)
         /\ (x \div Unit) * Unit = x
         /\ SampleFrequency(x, i) = x
<1>0. Unit \in Nat \ {0} /\ Half \in Nat /\ Half < Unit /\ Mod \in Nat \ {0}
  BY ValidatorAssumption
<1>1. PICK a \in Nat, b \in Nat : i.min = a * Unit /\ i.max = b * Unit
  <2>1. i.min \div Unit \in Nat /\ i.max \div Unit \in Nat
    BY <1>0, DivBound
  <2>2. i.min = (i.min \div Unit) * Unit /\ i.max = (i.max \div Unit) * Unit
    BY <1>0, NoRemainder
  <2> QED
    BY <2>1, <2>2
<1>2. PICK lo \in Nat, hi \in Nat :
        lo = a * Unit /\ hi = b * Unit /\ lo <= hi /\ hi + Half < Mod
  BY <1>1
<1>3. \A s \in lo .. hi : s % Unit = 0 =>
        \E m \in Nat : s = m * Unit /\ m * Unit \in Nat
  <2> SUFFICES ASSUME NEW s \in lo .. hi, s % Unit = 0
               PROVE  \E m \in Nat : s = m * Unit /\ m * Unit \in Nat
    OBVIOUS
  <2>1. s \in Nat
    OBVIOUS
  <2>2. s \div Unit \in Nat /\ s = (s \div Unit) * Unit
    BY <2>1, <1>0, DivBound, NoRemainder
  <2> QED
    BY <2>1, <2>2
<1>4. \E q \in Nat : /\ x = q * Unit /\ x \in lo .. hi
                     /\ \A s \in lo .. hi : s % Unit = 0 =>
                          \/ Distance(n, x) < Distance(n, s)
                          \/ Distance(n, x) = Distance(n, s) /\ x >= s
  <2>1. CASE n < lo
    <3>1. x = lo
      BY <2>1, <1>1, <1>2 DEF SampleFrequency
    <3>2. \A s \in lo .. hi : \/ Distance(n, lo) < Distance(n, s)
                              \/ Distance(n, lo) = Distance(n, s) /\ lo >= s
      BY <2>1 DEF Distance
    <3> QED
      BY <3>1, <3>2, <1>2
  <2>2. CASE n > hi
    <3>1. x = hi
      BY <2>2, <1>1, <1>2 DEF SampleFrequency
    <3>2. \A s \in lo .. hi : \/ Distance(n, hi) < Distance(n, s)
                              \/ Distance(n, hi) = Distance(n, s) /\ hi >= s
      BY <2>2 DEF Distance
    <3> QED
      BY <3>1, <3>2, <1>2
  <2>3. CASE lo <= n /\ n <= hi
    <3>1. x = RoundToThousandths(n, b * Unit)
      BY <2>3, <1>1, <1>2 DEF SampleFrequency
    <3>2. PICK q \in Nat :
            /\ RoundToThousandths(n, b * Unit) = q * Unit
            /\ q * Unit \in Nat /\ a * Unit <= q * Unit /\ q * Unit <= b * Unit
            /\ q * Unit <= n + Half /\ n + Half < q * Unit + Unit
      BY <2>3, <1>2, RoundedIs
    <3>3. PICK y \in Nat : /\ y = q * Unit /\ y = x /\ lo <= y /\ y <= hi
                           /\ y <= n + Half /\ n + Half < y + Unit
      BY <3>1, <3>2, <1>2
    <3>4. ASSUME NEW s \in lo .. hi, s % Unit = 0
          PROVE  \/ Distance(n, y) < Distance(n, s)
                 \/ Distance(n, y) = Distance(n, s) /\ y >= s
      <4>1. PICK m \in Nat : s = m * Unit /\ m * Unit \in Nat
        BY <3>4, <1>3
      <4>2. CASE m < q
        <5>1. s + Unit <= y
          BY <4>1, <4>2, <3>3, <1>0, Apart
        <5> QED
          BY <5>1, <3>3, <1>0 DEF Distance
      <4>3. CASE m > q
        <5>1. y + Unit <= s
          BY <4>1, <4>3, <3>3, <1>0, Apart
        <5> QED
          BY <5>1, <3>3, <1>0 DEF Distance
      <4>4. CASE m = q
        <5>1. s = y
          BY <4>1, <4>4, <3>3
        <5> QED
          BY <5>1
      <4> QED
        BY <4>2, <4>3, <4>4
    <3> QED
      BY <3>3, <3>4
  <2> QED
    BY <2>1, <2>2, <2>3
<1>5. PICK q \in Nat : /\ x = q * Unit /\ x \in lo .. hi
                       /\ \A s \in lo .. hi : s % Unit = 0 =>
                            \/ Distance(n, x) < Distance(n, s)
                            \/ Distance(n, x) = Distance(n, s) /\ x >= s
  BY <1>4
<1>6. x % Unit = 0 /\ x \in Nat
  BY <1>0, <1>5, MultipleMod
<1>7. x = Nearest(n, lo, hi)
  BY <1>5, <1>6, NearestIs
<1>8. (q * Unit + Half) \div Unit = q /\ (q * Unit) \div Unit = q
  <2>1. (q * Unit + Half) \div Unit = q
    BY <1>0, MultipleDiv
  <2>2. 0 \in Nat /\ 0 < Unit
    BY <1>0
  <2>3. (q * Unit + 0) \div Unit = q
    BY <2>2, <1>0, MultipleDiv
  <2> QED
    BY <2>1, <2>3, <1>5, <1>6
<1>9. (x \div Unit) * Unit = x
  <2>1. x \div Unit = q
    BY <1>5, <1>6, <1>8
  <2> QED
    BY <2>1, <1>5
<1>10. SampleFrequency(x, i) = x
  <2>1. /\ x \in Nat /\ lo <= x /\ x <= hi /\ x + Half \in Nat /\ x + Half < Mod
        /\ x < Mod
    BY <1>0, <1>2, <1>5
  <2>2. (x + Half) % Mod = x + Half /\ x % Mod = x
    BY <2>1, <1>0, SmallMod
  <2>3. ((x + Half) \div Unit) * Unit = x
    BY <1>5, <1>8
  <2>4. RoundToThousandths(x, i.max) = x
    BY <2>1, <2>2, <2>3, <1>1, <1>2 DEF RoundToThousandths
  <2> QED
    BY <2>1, <2>4, <1>1, <1>2 DEF SampleFrequency
<1>11. x = Nearest(n, i.min, i.max)
  BY <1>1, <1>2, <1>7
<1> QED
  BY <1>9, <1>10, <1>11

(* The answer to msg about path p, by the entry i of the object e.         *)
AnsweredBy(t, p, msg, e, i) ==
  /\ msg = asked[t] /\ msg.path = p /\ Listed(p)
  /\ e = LastObject(p) /\ i = Info(e) /\ db[p] = i /\ i.state = "info"
  /\ i.filter \in BOOLEAN /\ i.suppress \in BOOLEAN /\ i.silent \in BOOLEAN
  /\ answer[t] = Validated(i, msg)
  /\ LET x == SampleFrequency(msg.freq, i)
     IN  /\ x = Nearest(msg.freq, i.min, i.max)
         /\ (x \div Unit) * Unit = x
         /\ SampleFrequency(x, i) = x

(* The answer of a thread that has one: of the last object about its path. *)
LEMMA AnswerIs ==
  ASSUME IInv, WholeSecondBounds, NEW t \in Thread, tpc[t] = "done",
         answer[t] # Cleared
  PROVE  \E p \in Path : \E msg \in Message : \E e \in JsonObject : \E i :
           AnsweredBy(t, p, msg, e, i)
<1>0. server = "serving"
  BY DEF IInv, LoadInv
<1>1. PICK msg \in Message : msg = asked[t]
  BY DEF IInv, ThreadInv
<1>2. PICK p \in Path : p = msg.path
  BY DEF Message
<1>3. db[p].state = "info" /\ answer[t] = Validated(db[p], msg)
  BY <1>1, <1>2 DEF IInv, ThreadInv
<1>4. Listed(p)
  BY <1>0, <1>3, EntryIsLast
<1>5. PICK f \in Files : \E k \in 1 .. Len(f) :
        LastObject(p) = f[k] /\ db[p] = Info(f[k])
  BY <1>0, <1>4, EntryIsLast
<1>6. PICK k \in 1 .. Len(f) : LastObject(p) = f[k] /\ db[p] = Info(f[k])
  BY <1>5
<1>7. PICK e \in JsonObject, i \in {Info(f[k])} :
        e = f[k] /\ i = Info(f[k]) /\ k \in DOMAIN f
  BY InfoIs
<1>8. /\ i.state = "info" /\ i.filter \in BOOLEAN /\ i.suppress \in BOOLEAN
      /\ i.silent \in BOOLEAN
      /\ i.min \in Nat /\ i.max \in Nat /\ i.max + Half < Mod
  BY <1>7, InfoIs
<1>9. 2 * Half = Unit /\ i.min <= i.max /\ i.min % Unit = 0 /\ i.max % Unit = 0
  BY <1>7 DEF WholeSecondBounds
<1>10. msg.freq \in Nat
  <2>1. msg.freq \in Frequency
    BY DEF Message
  <2>2. Frequency \subseteq Nat
    BY ValidatorAssumption
  <2> QED
    BY <2>1, <2>2
<1>11. PICK x : x = SampleFrequency(msg.freq, i)
  OBVIOUS
<1>12. /\ x = Nearest(msg.freq, i.min, i.max) /\ (x \div Unit) * Unit = x
       /\ SampleFrequency(x, i) = x
  BY <1>8, <1>9, <1>10, <1>11, FrequencyNearest
<1>13. e = LastObject(p) /\ i = Info(e) /\ db[p] = i
  BY <1>6, <1>7
<1>14. answer[t] = Validated(i, msg)
  BY <1>3, <1>13
<1>15. AnsweredBy(t, p, msg, e, i)
  BY <1>1, <1>2, <1>4, <1>8, <1>11, <1>12, <1>13, <1>14 DEF AnsweredBy
<1> QED
  BY <1>15

(* The rate the device is configured with is the rate the client is told,  *)
(* and asking again for what was accepted changes nothing.                 *)
THEOREM ToldRatesConfigured ==
  ASSUME WholeSecondBounds
  PROVE  Spec => []ToldIsConfigured
<1>1. IInv => ToldIsConfigured
  <2> SUFFICES ASSUME IInv, NEW t \in Thread, tpc[t] = "done",
                      answer[t] # Cleared
               PROVE  /\ ReportingRate(answer[t].freq) = answer[t].freq
                      /\ Validated(db[answer[t].path], answer[t]) = answer[t]
    BY DEF ToldIsConfigured, Done
  <2>0. PICK p \in Path, msg \in Message, e \in JsonObject :
          \E i : AnsweredBy(t, p, msg, e, i)
    BY AnswerIs
  <2>1. PICK i : AnsweredBy(t, p, msg, e, i)
    BY <2>0
  <2>2. PICK a, b, c, x :
           /\ a = (msg.filter /\ i.filter) /\ b = (msg.suppress /\ i.suppress)
           /\ c = (msg.silent /\ i.silent) /\ x = SampleFrequency(msg.freq, i)
    OBVIOUS
  <2>3. PICK g : g = answer[t]
    OBVIOUS
  <2>4. g = [path |-> p, filter |-> a, suppress |-> b, silent |-> c, freq |-> x]
    <3>1. g = Validated(i, msg) /\ i.state = "info" /\ msg.path = p
      BY <2>1, <2>3 DEF AnsweredBy
    <3> QED
      BY <3>1, <2>2 DEF Validated
  <2>5. /\ g.path = p /\ g.filter = a /\ g.suppress = b /\ g.silent = c
        /\ g.freq = x
    BY <2>4
  <2>6. (x \div Unit) * Unit = x /\ SampleFrequency(x, i) = x
    BY <2>1, <2>2 DEF AnsweredBy
  <2>7. (a /\ i.filter) = a /\ (b /\ i.suppress) = b /\ (c /\ i.silent) = c
    BY <2>1, <2>2 DEF AnsweredBy
  <2>8. Validated(i, g) = [path |-> g.path, filter |-> g.filter /\ i.filter,
                           suppress |-> g.suppress /\ i.suppress,
                           silent |-> g.silent /\ i.silent,
                           freq |-> SampleFrequency(g.freq, i)]
    BY <2>1 DEF Validated, AnsweredBy
  <2>9. Validated(i, g) = g
    BY <2>4, <2>5, <2>6, <2>7, <2>8
  <2> QED
    BY <2>1, <2>3, <2>5, <2>6, <2>9 DEF ReportingRate, AnsweredBy
<1> QED
  BY <1>1, Invariant, PTL

(* What a client is answered is right: a path the file does not list is    *)
(* refused, one it lists is accepted with the options it supports and the  *)
(* nearest whole second in its range, unless its search raced with an      *)
(* insertion.  Of frequency 0, which asks for updates on every change and  *)
(* is answered with the minimum, nothing is claimed.                       *)
THEOREM AnswersRight ==
  ASSUME WholeSecondBounds
  PROVE  Spec => []AnswerRight
<1>1. IInv => AnswerRight
  <2> SUFFICES ASSUME IInv, NEW t \in Thread, tpc[t] = "done",
                      NEW msg, msg = asked[t]
               PROVE  /\ answer[t] # Cleared => Listed(msg.path)
                      /\ Listed(msg.path) /\ t \notin raced => answer[t] # Cleared
                      /\ answer[t] # Cleared =>
                           LET e == LastObject(msg.path)
                           IN  /\ answer[t].path = msg.path
                               /\ answer[t].filter <=> msg.filter /\ e.filter # FALSE
                               /\ answer[t].suppress <=> msg.suppress /\ e.suppress = TRUE
                               /\ answer[t].silent <=> msg.silent /\ e.silent = TRUE
                               /\ msg.freq # 0 =>
                                    answer[t].freq = Nearest(msg.freq, Min(msg.path),
                                                             Max(msg.path))
    BY DEF AnswerRight, Done
  <2>1. Listed(msg.path) /\ t \notin raced => answer[t] # Cleared
    <3>1. server = "serving" /\ msg \in Message
      BY DEF IInv, LoadInv, ThreadInv
    <3>2. PICK p \in Path : p = msg.path
      BY <3>1 DEF Message
    <3>3. SUFFICES ASSUME Listed(p), t \notin raced
                   PROVE  answer[t] # Cleared
      BY <3>2
    <3>4. db[p].state = "info"
      BY <3>1, <3>3, EntryIsLast
    <3>5. \E f \in Files : \E k \in 1 .. Len(f) : db[p] = Info(f[k])
      BY <3>4, EntryIs DEF IInv
    <3>6. answer[t] = Validated(db[p], msg)
      BY <3>2, <3>3, <3>4 DEF IInv, ThreadInv
    <3> QED
      BY <3>1, <3>5, <3>6, ValidatedType
  <2>2. ASSUME answer[t] # Cleared
        PROVE  /\ Listed(msg.path)
               /\ LET e == LastObject(msg.path)
                  IN  /\ answer[t].path = msg.path
                      /\ answer[t].filter <=> msg.filter /\ e.filter # FALSE
                      /\ answer[t].suppress <=> msg.suppress /\ e.suppress = TRUE
                      /\ answer[t].silent <=> msg.silent /\ e.silent = TRUE
                      /\ answer[t].freq = Nearest(msg.freq, Min(msg.path),
                                                  Max(msg.path))
    <3>0. PICK p \in Path, m \in Message, e \in JsonObject :
            \E i : AnsweredBy(t, p, m, e, i)
      BY <2>2, AnswerIs
    <3>1. PICK i : AnsweredBy(t, p, m, e, i)
      BY <3>0
    <3>2. m = msg /\ msg.path = p /\ Listed(p) /\ e = LastObject(p)
      BY <3>1 DEF AnsweredBy
    <3>3. PICK a, b, c, x :
            /\ a = (msg.filter /\ i.filter) /\ b = (msg.suppress /\ i.suppress)
            /\ c = (msg.silent /\ i.silent) /\ x = SampleFrequency(msg.freq, i)
      OBVIOUS
    <3>4. answer[t] = [path |-> p, filter |-> a, suppress |-> b, silent |-> c,
                       freq |-> x]
      BY <3>1, <3>2, <3>3 DEF AnsweredBy, Validated
    <3>5. /\ answer[t].path = p /\ answer[t].filter = a
          /\ answer[t].suppress = b /\ answer[t].silent = c
          /\ answer[t].freq = x
      BY <3>4
    <3>6. i = Info(e)
      BY <3>1 DEF AnsweredBy
    <3>7. /\ i.filter = Default(e.filter, TRUE)
          /\ i.suppress = Default(e.suppress, FALSE)
          /\ i.silent = Default(e.silent, FALSE)
          /\ i.min = Default(e.min, DefaultMin)
          /\ i.max = Default(e.max, DefaultMax)
      BY <3>6, InfoFields
    <3>8. x = Nearest(msg.freq, Min(p), Max(p))
      BY <3>1, <3>2, <3>3, <3>7 DEF AnsweredBy, Min, Max
    <3>9. /\ e.filter \in BOOLEAN \cup {Unset}
          /\ e.suppress \in BOOLEAN \cup {Unset}
          /\ e.silent \in BOOLEAN \cup {Unset}
      BY DEF JsonObject
    <3>10. i.filter <=> e.filter # FALSE
      BY <3>7, <3>9, ValidatorAssumption DEF Default
    <3>11. i.suppress <=> e.suppress = TRUE
      BY <3>7, <3>9, ValidatorAssumption DEF Default
    <3>12. i.silent <=> e.silent = TRUE
      BY <3>7, <3>9, ValidatorAssumption DEF Default
    <3>13. /\ answer[t].filter <=> msg.filter /\ e.filter # FALSE
           /\ answer[t].suppress <=> msg.suppress /\ e.suppress = TRUE
           /\ answer[t].silent <=> msg.silent /\ e.silent = TRUE
      BY <3>3, <3>5, <3>10, <3>11, <3>12
    <3> QED
      BY <3>2, <3>5, <3>8, <3>13
  <2> QED
    BY <2>1, <2>2
<1> QED
  BY <1>1, Invariant, PTL
=============================================================================
