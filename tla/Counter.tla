------------------------------- MODULE Counter -------------------------------
(***************************************************************************)
(* A Counter, used by one thread that counts and one that manages it, and  *)
(* its rate threads, which wake up every so often and divide what was      *)
(* counted since the last snapshot by the time that passed.  A thread that *)
(* is cancelled ends in its next sleep, the only place where it can, and   *)
(* is not waited for: it and its successor may be in computeRate, which no *)
(* lock guards, at once.                                                   *)
(*                                                                         *)
(* The byte counts, which every operation treats like the packet counts,   *)
(* appear only in the guard of decrement.  Mod stands for 2^64.            *)
(***************************************************************************)
EXTENDS Integers, FiniteSets

CONSTANTS
  RateThread,  \* threads that startRate may create
  None,        \* no thread
  MaxCount,    \* bound: packets and bytes
  Mod          \* see above

ASSUME CounterAssumption ==
  None \notin RateThread /\ MaxCount \in Nat /\ Mod \in Nat /\ MaxCount < Mod

VARIABLES
  packets, bytes,  \* _packets, _bytes
  reference,       \* _packets_reference
  rate,            \* _packet_rate
  timed,           \* history: the thread that set _last_update_time
  elapsed,         \* elapsed, in computeRate (see TakeTime)
  seen,            \* _packets as computeRate has read it
  mixed,           \* history: threads in computeRate that met another there
  fell,            \* history: the counts fell since the last snapshot
  handle,          \* _rate_thread
  tpc,             \* where a rate thread is
  cancelled,       \* threads that were cancelled
  deleted          \* the destructor has run

countVars == <<packets, bytes, fell>>
rateVars == <<reference, rate>>
computeVars == <<timed, elapsed, seen, mixed>>
threadVars == <<handle, tpc, cancelled>>
vars == <<countVars, rateVars, computeVars, threadVars, deleted>>

Init ==
  /\ packets = 0 /\ bytes = 0 /\ reference = 0 /\ rate = 0
  /\ fell = FALSE
  /\ timed = None /\ mixed = {}
  /\ elapsed = [r \in RateThread |-> 0]
  /\ seen = [r \in RateThread |-> 0]
  /\ handle = None
  /\ tpc = [r \in RateThread |-> "none"]
  /\ cancelled = {}
  /\ deleted = FALSE

-----------------------------------------------------------------------------
Increment(n, size) ==
  /\ ~deleted
  /\ packets + n <= MaxCount /\ bytes + size <= MaxCount
  /\ packets' = packets + n
  /\ bytes' = bytes + size
  /\ UNCHANGED <<fell, rateVars, computeVars, threadVars, deleted>>

Enough(n, size) == packets >= n /\ bytes >= size

(* decrement does nothing unless both counts are large enough.             *)
Decrement(n, size) ==
  /\ ~deleted
  /\ Enough(n, size)
  /\ packets' = packets - n
  /\ bytes' = (bytes - size) % Mod
  /\ fell' = TRUE
  /\ UNCHANGED <<rateVars, computeVars, threadVars, deleted>>

(* reset leaves the reference values.                                      *)
Reset ==
  /\ ~deleted
  /\ packets' = 0 /\ bytes' = 0 /\ rate' = 0
  /\ fell' = TRUE
  /\ UNCHANGED <<reference, computeVars, threadVars, deleted>>

(* Mutated form: a thread is started whether or not there is one.          *)
StartAnother == TRUE
NotStarted == handle = None

(* enableRate, or the constructor: a thread, unless there is one.          *)
EnableRate(r) ==
  /\ ~deleted
  /\ NotStarted
  /\ tpc[r] = "none" /\ tpc' = [tpc EXCEPT ![r] = "sleep"]
  /\ handle' = r
  /\ UNCHANGED <<countVars, rateVars, computeVars, cancelled, deleted>>

(* stopRate: the thread is cancelled, and not waited for.                  *)
StopRate == handle' = None /\ cancelled' = cancelled \cup ({handle} \ {None})

DisableRate ==
  /\ ~deleted
  /\ handle # None
  /\ StopRate
  /\ UNCHANGED <<countVars, rateVars, computeVars, tpc, deleted>>

Delete ==
  /\ ~deleted /\ deleted' = TRUE
  /\ StopRate
  /\ UNCHANGED <<countVars, rateVars, computeVars, tpc>>

-----------------------------------------------------------------------------
(* Mutated form: a sleep that cannot be cancelled.                         *)
SleepsOn(r) == tpc[r] # "none"
MayAwake(r) == r \notin cancelled

(* The end of a sleep.                                                     *)
Awake(r) ==
  /\ tpc[r] = "sleep" /\ MayAwake(r)
  /\ tpc' = [tpc EXCEPT ![r] = "compute"]
  /\ UNCHANGED <<countVars, rateVars, computeVars, handle, cancelled, deleted>>

(* A cancelled thread ends in its sleep.                                   *)
End(r) ==
  /\ tpc[r] = "sleep" /\ r \in cancelled
  /\ tpc' = [tpc EXCEPT ![r] = "ended"]
  /\ UNCHANGED <<countVars, rateVars, computeVars, handle, cancelled, deleted>>

Goto(r, from, to) == tpc[r] = from /\ tpc' = [tpc EXCEPT ![r] = to]

(* A thread between the first and the last line of computeRate.            *)
Inside(r) == tpc[r] \in {"count", "divide", "reference"}

(* computeRate: the time since _last_update_time, in seconds.  At least    *)
(* one has passed when the thread, which sleeps in between, set it itself. *)
(* After another thread it may be none, which e = 0 stands for; nobody     *)
(* sets it before the first time, which makes the difference any.          *)
TakeTime(r, e) ==
  /\ Goto(r, "compute", "count")
  /\ timed = r => e # 0
  /\ timed = None => e = 0
  /\ timed' = r
  /\ elapsed' = [elapsed EXCEPT ![r] = e]
  /\ LET others == {t \in RateThread \ {r} : Inside(t)}
     IN  mixed' = mixed \cup others \cup IF others = {} THEN {} ELSE {r}
  /\ UNCHANGED <<countVars, rateVars, seen, handle, cancelled, deleted>>

(* _packets is read,                                                       *)
ReadCount(r) ==
  /\ Goto(r, "count", "divide")
  /\ seen' = [seen EXCEPT ![r] = packets]
  /\ UNCHANGED <<countVars, rateVars, timed, elapsed, mixed, handle, cancelled,
                 deleted>>

(* In uint64_t; and a mutated form the other way round.                    *)
Backwards(r) == (reference - seen[r]) % Mod
Difference(r) == (seen[r] - reference) % Mod

(* ... then _packets_reference, and the rate is stored.  A division by 0.0 *)
(* has no uint64_t as its result: any rate may come of it.                 *)
Divide(r) ==
  /\ Goto(r, "divide", "reference")
  /\ IF elapsed[r] = 0 THEN rate' \in 0 .. Mod - 1
     ELSE rate' = Difference(r) \div elapsed[r]
  /\ UNCHANGED <<countVars, reference, computeVars, handle, cancelled, deleted>>

(* The new reference is _packets read again, or, as the compiler may have  *)
(* it, the count that was read before.                                     *)
TakeReference(r) ==
  /\ Goto(r, "reference", "sleep")
  /\ reference' \in {packets, seen[r]}
  /\ fell' = (reference' > packets)
  /\ seen' = [seen EXCEPT ![r] = 0]
  /\ elapsed' = [elapsed EXCEPT ![r] = 0]
  /\ mixed' = mixed \ {r}
  /\ UNCHANGED <<packets, bytes, rate, timed, handle, cancelled, deleted>>

ThreadStep(r) ==
  \/ Awake(r) \/ End(r)
  \/ \E e \in 0 .. 2 : TakeTime(r, e)
  \/ ReadCount(r) \/ Divide(r) \/ TakeReference(r)

Next ==
  \/ \E n, size \in 1 .. 2 : Increment(n, size) \/ Decrement(n, size)
  \/ Reset \/ DisableRate \/ Delete
  \/ \E r \in RateThread : EnableRate(r) \/ ThreadStep(r)

Spec == Init /\ [][Next]_vars

(* A thread that sleeps wakes up, and one that computes goes on.           *)
FairSpec == Spec /\ \A r \in RateThread : WF_vars(ThreadStep(r))

-----------------------------------------------------------------------------
(* Properties.                                                             *)

(* Every variable has its type; no count wraps around.                     *)
TypeOK ==
  /\ packets \in 0 .. MaxCount /\ bytes \in 0 .. MaxCount
  /\ reference \in 0 .. MaxCount
  /\ rate \in 0 .. Mod - 1
  /\ fell \in BOOLEAN
  /\ timed \in RateThread \cup {None}
  /\ elapsed \in [RateThread -> 0 .. 2]
  /\ seen \in [RateThread -> 0 .. MaxCount]
  /\ mixed \in SUBSET RateThread
  /\ handle \in RateThread \cup {None}
  /\ tpc \in [RateThread -> {"none", "sleep", "compute", "count", "divide",
                             "reference", "ended"}]
  /\ cancelled \in SUBSET RateThread
  /\ deleted \in BOOLEAN

(* However often rates are enabled and disabled, only the thread of the    *)
(* handle goes on: every other one that was started was cancelled, and     *)
(* computes at most once more.                                             *)
OneThread ==
  \A r \in RateThread :
    tpc[r] \notin {"none", "ended"} /\ r \notin cancelled <=> r = handle

(* A cancelled thread ends.                                                *)
ThreadsEnd ==
  \A r \in RateThread : r \in cancelled ~> tpc[r] = "ended"

(* "Reference values are needed for rate calculations": a rate is no more  *)
(* than the count it was computed from, whatever is counted meanwhile,     *)
(* when some time has passed since the last one, the counts have not       *)
(* fallen since, and no other thread was in computeRate.  (When a          *)
(* cancelled thread and its successor meet there, the one may subtract a   *)
(* newer reference than its count, and when they come in the same second,  *)
(* the later divides by zero: nothing is claimed of these rates.)          *)
RateSane ==
  \A r \in RateThread :
    /\ tpc[r] = "reference"
    /\ elapsed[r] # 0 /\ r \notin mixed /\ ~fell
    => rate <= seen[r]

(* No count wraps around, one rate thread goes on, and its rates are sane. *)
CounterInv == TypeOK /\ OneThread /\ RateSane
=============================================================================
