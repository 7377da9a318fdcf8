---------------------------- MODULE CountingProofs ---------------------------
(***************************************************************************)
(* Counter and its rate threads, for any number of threads that are        *)
(* started one after another, any bound on the counts and any width; and   *)
(* the limits of a stream, which look at the counter of its message bus,   *)
(* for any limits, any width, and any number of messages and seconds.      *)
(***************************************************************************)
EXTENDS Counter, MessageStream, TLAPS

(* Between snapshots the counts only grow, unless they fell.               *)
GrowInv == ~fell => reference <= packets

(* A thread that met no other in computeRate is alone there, and what it   *)
(* has read is at least the reference that it is about to subtract.        *)
AloneInv ==
  \A r \in RateThread \ mixed :
    Inside(r) =>
      /\ \A t \in RateThread \ {r} : ~Inside(t)
      /\ tpc[r] = "divide" /\ ~fell => reference <= seen[r]

(* A thread that was cancelled was started; the destructor cancels the     *)
(* last one.                                                               *)
StartedInv == \A r \in cancelled : tpc[r] # "none"

(* The inductive invariant.                                                *)
IInv ==
  TypeOK /\ OneThread /\ StartedInv /\ GrowInv /\ AloneInv /\ RateSane

-----------------------------------------------------------------------------
(* uint64_t arithmetic leaves a number below the modulus alone.            *)
LEMMA SmallModulo ==
  ASSUME NEW a \in Nat, NEW m \in Nat, a < m
  PROVE  a % m = a
OBVIOUS

(* A remainder is smaller than the modulus.                                *)
LEMMA ModuloRange ==
  ASSUME NEW a \in Int, NEW m \in Nat \ {0}
  PROVE  a % m \in 0 .. m - 1
OBVIOUS

(* The quotients of computeRate's division by the seconds that passed.     *)
LEMMA DivideDown ==
  ASSUME NEW a \in Nat, NEW e \in 1 .. 2
  PROVE  a \div e \in Nat /\ a \div e <= a
<1>1. CASE e = 1
  BY <1>1
<1>2. CASE e = 2
  BY <1>2
<1> QED
  BY <1>1, <1>2
-----------------------------------------------------------------------------
(* The steps of the counting thread.                                       *)
LEMMA CountStep ==
  ASSUME IInv, NEW n \in 1 .. 2, NEW size \in 1 .. 2,
         Increment(n, size) \/ Decrement(n, size) \/ Reset
  PROVE  IInv'
<1> USE CounterAssumption DEF IInv, TypeOK, threadVars, rateVars, computeVars
<1>1. TypeOK'
  <2>1. CASE Increment(n, size)
    BY <2>1 DEF Increment
  <2>2. CASE Decrement(n, size)
    <3>0. bytes - size \in Nat /\ bytes - size < Mod
      BY <2>2 DEF Decrement, Enough
    <3>1. bytes' = bytes - size
      BY <2>2, <3>0, SmallModulo DEF Decrement
    <3> QED
      BY <2>2, <3>1 DEF Decrement, Enough
  <2>3. CASE Reset
    BY <2>3 DEF Reset
  <2> QED
    BY <2>1, <2>2, <2>3
<1>2. OneThread' /\ StartedInv'
  BY DEF OneThread, StartedInv, Increment, Decrement, Reset
<1>3. GrowInv' /\ AloneInv' /\ RateSane'
  <2>1. CASE Increment(n, size)
    BY <2>1 DEF Increment, GrowInv, AloneInv, RateSane, Inside
  <2>2. CASE Decrement(n, size)
    BY <2>2 DEF Decrement, GrowInv, AloneInv, RateSane, Inside
  <2>3. CASE Reset
    BY <2>3 DEF Reset, GrowInv, AloneInv, RateSane, Inside
  <2> QED
    BY <2>1, <2>2, <2>3
<1> QED
  BY <1>1, <1>2, <1>3

(* The steps of the managing thread: a thread is started only when the     *)
(* handle has none, and the handle is given up only with a cancellation.   *)
LEMMA ManageStep ==
  ASSUME IInv,
         DisableRate \/ Delete \/ \E r \in RateThread : EnableRate(r)
  PROVE  IInv'
<1> USE CounterAssumption
    DEF IInv, TypeOK, countVars, rateVars, computeVars, DisableRate, Delete,
        EnableRate, StopRate, NotStarted
<1>1. TypeOK'
  OBVIOUS
<1>2. OneThread' /\ StartedInv'
  BY DEF OneThread, StartedInv
<1>3. GrowInv' /\ AloneInv' /\ RateSane'
  BY DEF GrowInv, AloneInv, RateSane, Inside
<1> QED
  BY <1>1, <1>2, <1>3

(* A rate thread's sleep ends.                                             *)
LEMMA SleepStep ==
  ASSUME IInv, NEW r \in RateThread, Awake(r) \/ End(r)
  PROVE  IInv'
<1> USE CounterAssumption
    DEF IInv, TypeOK, countVars, rateVars, computeVars, Awake, End, MayAwake
<1>1. TypeOK'
  OBVIOUS
<1>2. OneThread' /\ StartedInv'
  BY DEF OneThread, StartedInv
<1>3. GrowInv' /\ AloneInv' /\ RateSane'
  BY DEF GrowInv, AloneInv, RateSane, Inside
<1> QED
  BY <1>1, <1>2, <1>3

(* A thread that enters computeRate mixes with those it finds there.       *)
LEMMA TakeTimeStep ==
  ASSUME IInv, NEW r \in RateThread, NEW e \in 0 .. 2, TakeTime(r, e)
  PROVE  IInv'
<1> DEFINE others == {t \in RateThread \ {r} : Inside(t)}
<1> USE CounterAssumption
    DEF IInv, TypeOK, countVars, rateVars, TakeTime, Goto
<1>1. mixed' = mixed \cup others \cup IF others = {} THEN {} ELSE {r}
  BY Zenon
<1> HIDE DEF others
<1>2. TypeOK'
  BY <1>1 DEF others
<1>3. OneThread' /\ StartedInv'
  BY DEF OneThread, StartedInv
<1>4. GrowInv' /\ RateSane'
  BY <1>1 DEF GrowInv, RateSane
<1>5. AloneInv'
  <2> SUFFICES ASSUME NEW t \in RateThread, t \notin mixed', Inside(t)'
               PROVE  /\ \A u \in RateThread \ {t} : ~Inside(u)'
                      /\ tpc'[t] = "divide" /\ ~fell' => reference' <= seen'[t]
    BY DEF AloneInv
  <2>1. CASE t = r
    <3>1. others = {}
      BY <1>1, <2>1
    <3> QED
      BY <2>1, <3>1 DEF others, Inside
  <2>2. CASE t # r
    <3>1. Inside(t)
      BY <2>2 DEF Inside
    <3>2. t \in others
      BY <2>2, <3>1 DEF others
    <3> QED
      BY <1>1, <3>2
  <2> QED
    BY <2>1, <2>2
<1> QED
  BY <1>2, <1>3, <1>4, <1>5

(* The count that is read is not below the reference, unless it fell.      *)
LEMMA ReadCountStep ==
  ASSUME IInv, NEW r \in RateThread, ReadCount(r)
  PROVE  IInv'
<1> USE CounterAssumption
    DEF IInv, TypeOK, countVars, rateVars, ReadCount, Goto
<1>1. TypeOK'
  OBVIOUS
<1>2. OneThread' /\ StartedInv'
  BY DEF OneThread, StartedInv
<1>3. GrowInv' /\ RateSane'
  BY DEF GrowInv, RateSane
<1>4. AloneInv'
  BY DEF AloneInv, GrowInv, Inside
<1> QED
  BY <1>1, <1>2, <1>3, <1>4

(* What was counted since the reference is what the counts grew by, so the *)
(* rate is at most the count.                                              *)
LEMMA DivideStep ==
  ASSUME IInv, NEW r \in RateThread, Divide(r)
  PROVE  IInv'
<1> USE CounterAssumption
    DEF IInv, TypeOK, countVars, computeVars, Divide, Goto
<1>1. Difference(r) \in 0 .. Mod - 1
  <2>1. seen[r] - reference \in Int /\ Mod \in Nat \ {0}
    OBVIOUS
  <2> QED
    BY <2>1, ModuloRange DEF Difference
<1>2. elapsed[r] # 0 => rate' \in Nat /\ rate' <= Difference(r)
  BY <1>1, DivideDown
<1>3. TypeOK'
  <2>1. rate' \in 0 .. Mod - 1
    BY <1>1, <1>2
  <2> QED
    BY <2>1
<1>4. OneThread' /\ StartedInv'
  BY DEF OneThread, StartedInv
<1>5. GrowInv' /\ AloneInv'
  BY DEF GrowInv, AloneInv, Inside
<1>6. RateSane'
  <2> SUFFICES ASSUME NEW t \in RateThread, tpc'[t] = "reference",
                      elapsed'[t] # 0, t \notin mixed', ~fell'
               PROVE  rate' <= seen'[t]
    BY DEF RateSane
  <2>1. t = r
    BY DEF AloneInv, Inside
  <2>2. reference <= seen[r]
    BY <2>1 DEF AloneInv, Inside
  <2>3. Difference(r) = seen[r] - reference
    <3>1. seen[r] - reference \in Nat /\ seen[r] - reference < Mod
      BY <2>2
    <3> QED
      BY <3>1, SmallModulo DEF Difference
  <2> QED
    BY <1>2, <2>1, <2>3
<1> QED
  BY <1>3, <1>4, <1>5, <1>6

(* The new reference is a count, now or before; fell says whether the      *)
(* counts are below it.                                                    *)
LEMMA TakeReferenceStep ==
  ASSUME IInv, NEW r \in RateThread, TakeReference(r)
  PROVE  IInv'
<1> USE CounterAssumption DEF IInv, TypeOK, TakeReference, Goto
<1>1. TypeOK'
  <2>1. fell' \in BOOLEAN
    <3>1. CASE reference' > packets
      BY <3>1
    <3>2. CASE ~(reference' > packets)
      BY <3>2
    <3> QED
      BY <3>1, <3>2
  <2>2. seen' \in [RateThread -> 0 .. MaxCount] /\ elapsed' \in [RateThread -> 0 .. 2]
    OBVIOUS
  <2> QED
    BY <2>1, <2>2
<1>2. OneThread' /\ StartedInv'
  BY DEF OneThread, StartedInv
<1>3. GrowInv'
  <2>1. CASE reference' > packets
    BY <2>1 DEF GrowInv
  <2>2. CASE ~(reference' > packets)
    BY <2>2 DEF GrowInv
  <2> QED
    BY <2>1, <2>2
<1>4. \A t \in RateThread \ {r} : Inside(t) => t \in mixed'
  BY DEF AloneInv, Inside
<1>5. AloneInv' /\ RateSane'
  BY <1>4 DEF AloneInv, RateSane, Inside
<1> QED
  BY <1>1, <1>2, <1>3, <1>5

(* The inductive invariant holds throughout.                               *)
THEOREM Invariant == Spec => []IInv
<1>1. Init => IInv
  <2> SUFFICES ASSUME Init PROVE IInv
    OBVIOUS
  <2>1. TypeOK
    <3>1. fell \in BOOLEAN /\ deleted \in BOOLEAN
      BY Zenon DEF Init
    <3>2. 0 \in 0 .. MaxCount /\ 0 \in 0 .. Mod - 1 /\ 0 \in 0 .. 2
      BY CounterAssumption
    <3>3. /\ handle \in RateThread \cup {None} /\ timed \in RateThread \cup {None}
          /\ cancelled \in SUBSET RateThread /\ mixed \in SUBSET RateThread
      BY DEF Init
    <3>4. /\ tpc \in [RateThread -> {"none", "sleep", "compute", "count", "divide",
                                     "reference", "ended"}]
          /\ elapsed \in [RateThread -> 0 .. 2]
          /\ seen \in [RateThread -> 0 .. MaxCount]
      BY <3>2 DEF Init
    <3> QED
      BY <3>1, <3>2, <3>3, <3>4 DEF Init, TypeOK
  <2>2. OneThread /\ StartedInv
    BY CounterAssumption DEF Init, OneThread, StartedInv
  <2>3. GrowInv /\ AloneInv /\ RateSane
    BY DEF Init, GrowInv, AloneInv, RateSane, Inside
  <2> QED
    BY <2>1, <2>2, <2>3 DEF IInv
<1>2. IInv /\ [Next]_vars => IInv'
  <2> SUFFICES ASSUME IInv, [Next]_vars PROVE IInv'
    OBVIOUS
  <2>1. CASE UNCHANGED vars
    BY <2>1 DEF vars, countVars, rateVars, computeVars, threadVars, IInv,
                TypeOK, OneThread, StartedInv, GrowInv, AloneInv, RateSane, Inside
  <2>2. ASSUME NEW r \in RateThread, ThreadStep(r) PROVE IInv'
    BY <2>2, SleepStep, TakeTimeStep, ReadCountStep, DivideStep,
       TakeReferenceStep DEF ThreadStep
  <2>3. CASE Next
    BY <2>2, <2>3, CountStep, ManageStep DEF Next
  <2> QED
    BY <2>1, <2>3
<1> QED
  BY <1>1, <1>2, PTL DEF Spec

(* No count wraps around, of all the rate threads ever started one goes    *)
(* on, and a rate is at most the count it was computed from when time has  *)
(* passed, the counts have not fallen, and its thread was the only one in  *)
(* computeRate.                                                            *)
THEOREM CounterSound == Spec => []CounterInv
<1>1. IInv => CounterInv
  BY DEF IInv, CounterInv
<1> QED
  BY <1>1, Invariant, PTL

-----------------------------------------------------------------------------
(* The limits of a stream.                                                 *)

(* A stream that waits is active; until then no message is due.            *)
ActiveInv == (Waits => active) /\ (pc = "enabled" => due = 0)

(* Time does not run backwards; with that, the invariants of the message   *)
(* bus are inductive.                                                      *)
TimeInv == Opened <= latest /\ latest <= now

BusInv == BusTypeOK /\ LimitsDue /\ AllWritten /\ ActiveInv /\ TimeInv

(* A limit of int32 is one of uint64_t, and a stream starts without        *)
(* messages.                                                               *)
LEMMA BusInitInv == BusInit => BusInv
<1> SUFFICES ASSUME BusInit PROVE BusInv
  OBVIOUS
<1>1. \A n \in Int : Unsigned(n) \in 0 .. Word - 1
  BY LimitsAssumption, ModuloRange DEF Unsigned
<1>2. BusTypeOK
  <2>1. records \in 0 .. (Word - 1) /\ seconds \in 0 .. (Word - 1)
    BY <1>1, LimitsAssumption DEF BusInit
  <2> QED
    BY <2>1, LimitsAssumption DEF BusInit, BusTypeOK
<1>3. LimitsDue /\ AllWritten /\ ActiveInv
  BY <1>2 DEF BusInit, BusTypeOK, LimitsDue, Counted, AllWritten, ActiveInv, Waits
<1> QED
  BY <1>2, <1>3, LimitsAssumption DEF BusInit, BusInv, TimeInv

(* A message that comes when a limit is reached sees it, whether it can be *)
(* translated or not, and whatever the stream's thread is at.              *)
LEMMA CountMessageStep ==
  ASSUME BusInv, NEW kind \in {"good", "bad"}, CountMessage(kind)
  PROVE  BusInv'
<1> USE LimitsAssumption DEF BusInv, BusTypeOK, TimeInv, CountMessage, limitVars
<1>1. BusTypeOK'
  <2>1. limitsReached' \in BOOLEAN
    BY Zenon DEF ExpiredTime, ExpiredCount
  <2>2. due' \in Nat /\ messages' \in Nat
    OBVIOUS
  <2> QED
    BY <2>1, <2>2
<1>2. limitsReached' <=> limitsReached \/ (seconds # 0 /\ now >= seconds) \/ Counted'
  BY DEF ExpiredTime, StartTime, ExpiredCount, Counted
<1>3. LimitsDue'
  BY <1>2 DEF LimitsDue, Counted
<1>4. AllWritten' /\ ActiveInv'
  BY DEF AllWritten, ActiveInv, Waits
<1> QED
  BY <1>1, <1>3, <1>4

(* A message that was counted while the stream waits finds it active.      *)
LEMMA DeliverStep ==
  ASSUME BusInv, Deliver
  PROVE  BusInv'
<1> USE LimitsAssumption DEF BusInv, BusTypeOK, TimeInv, Deliver, limitVars
<1>1. BusTypeOK'
  OBVIOUS
<1>2. LimitsDue'
  BY DEF LimitsDue, Counted
<1>3. AllWritten'
  <2>1. CASE handling = "good" /\ active
    BY <2>1 DEF AllWritten
  <2>2. CASE handling = "good" /\ ~active
    BY <2>2 DEF AllWritten, ActiveInv, Waits
  <2>3. CASE handling # "good"
    BY <2>3 DEF AllWritten
  <2> QED
    BY <2>1, <2>2, <2>3
<1>4. ActiveInv'
  BY DEF ActiveInv, Waits
<1> QED
  BY <1>1, <1>2, <1>3, <1>4

(* The other steps look at the limits' outcome, or let time pass.          *)
LEMMA OtherStep ==
  ASSUME BusInv, Thread \/ Tick \/ UNCHANGED busVars
  PROVE  BusInv'
<1> USE LimitsAssumption
    DEF BusInv, BusTypeOK, TimeInv, Thread, SetActive, TurnOn, LeaveWait, StopBus, Tick,
        busVars, limitVars, messageVars
<1>1. UNCHANGED <<limitVars, messageVars>>
  OBVIOUS
<1>2. active' \in BOOLEAN /\ pc' \in {"enabled", "wait", "ending", "stopped"}
  BY Zenon
<1>3. now' \in Nat /\ now' >= now
  OBVIOUS
<1>4. pc' \in {"ending", "stopped"} => limitsReached
  BY DEF LimitsDue
<1>5. LimitsDue'
  BY <1>1, <1>3, <1>4 DEF LimitsDue, Counted
<1>6. AllWritten' /\ ActiveInv'
  BY <1>1 DEF AllWritten, ActiveInv, Waits
<1> QED
  BY <1>1, <1>2, <1>3, <1>5, <1>6

(* The message bus keeps its invariants.                                   *)
LEMMA BusInvariant == BusSpec => []BusInv
<1>1. BusInv /\ [BusNext]_busVars => BusInv'
  BY CountMessageStep, DeliverStep, OtherStep DEF BusNext, OnMessage
<1> QED
  BY <1>1, BusInitInv, PTL DEF BusSpec

(* Limits stay in uint64_t; a stream without a time limit that could be    *)
(* over ends by its limits when, and only when, it has counted its         *)
(* records, and one that has been open for its time limit ends with the    *)
(* next message (that it nearly always ends long before is not claimed to  *)
(* be right); and until the clean-up every record that translates is       *)
(* written.                                                                *)
THEOREM LimitsAreRight == BusSpec => []LimitsRight
<1>1. BusInv => LimitsRight
  BY DEF BusInv, LimitsRight
<1> QED
  BY <1>1, BusInvariant, PTL
=============================================================================
