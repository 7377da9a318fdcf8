------------------------------ MODULE UdpWorker ------------------------------
(***************************************************************************)
(* AgentSubscriptionUdpWorker: the thread that takes packets from a        *)
(* subscription's queue and writes them to its client.  The queue is       *)
(* guarded by _m and announced by the condition variable _c; the flag      *)
(* _dont_terminate is guarded by nothing.  A worker w stands for one       *)
(* object and its thread; UdpReceiver composes the workers with the        *)
(* threads that feed and end them.                                         *)
(***************************************************************************)
EXTENDS Sequences

CONSTANTS
  Worker,   \* AgentSubscriptionUdpWorker objects
  None      \* nobody

VARIABLES
  wpc,            \* where the worker's thread is
  dontTerminate,  \* _dont_terminate
  q,              \* _q
  m,              \* who holds _m
  out             \* what was given to the client's writer

workerVars == <<wpc, dontTerminate, q, m, out>>

WorkerInit ==
  /\ wpc = [w \in Worker |-> "none"]
  /\ dontTerminate = [w \in Worker |-> TRUE]
  /\ q = [w \in Worker |-> <<>>]
  /\ m = [w \in Worker |-> None]
  /\ out = [w \in Worker |-> <<>>]

WGoto(w, from, to) == wpc[w] = from /\ wpc' = [wpc EXCEPT ![w] = to]

(* The constructor starts the thread.                                      *)
StartThread(w) == WGoto(w, "none", "while")

(* The outer loop's test and the lock behind it: a flag that is cleared    *)
(* between the two is seen by the next test.                               *)
While(w) ==
  /\ \/ /\ ~dontTerminate[w]
        /\ WGoto(w, "while", "done")
        /\ UNCHANGED m
     \/ /\ dontTerminate[w]
        /\ WGoto(w, "while", "test")
        /\ m[w] = None /\ m' = [m EXCEPT ![w] = w]
  /\ UNCHANGED <<dontTerminate, q, out>>

(* wait, woken, takes the mutex again.                                     *)
Wakeup(w) ==
  /\ WGoto(w, "woken", "test")
  /\ m[w] = None /\ m' = [m EXCEPT ![w] = w]
  /\ UNCHANGED <<dontTerminate, q, out>>

(* The inner loop's test, and the test for a packet behind it.             *)
Test(w) ==
  /\ \/ /\ q[w] = <<>> /\ dontTerminate[w]
        /\ WGoto(w, "test", "wait")
        /\ UNCHANGED m
     \/ /\ q[w] = <<>> /\ ~dontTerminate[w]
        /\ WGoto(w, "test", "while")
        /\ m' = [m EXCEPT ![w] = None]
     \/ /\ q[w] # <<>>
        /\ WGoto(w, "test", "deliver")
        /\ UNCHANGED m
  /\ UNCHANGED <<dontTerminate, q, out>>

(* _c.wait gives the mutex back and sleeps, in one step.                   *)
Wait(w) ==
  /\ WGoto(w, "wait", "waiting")
  /\ m' = [m EXCEPT ![w] = None]
  /\ UNCHANGED <<dontTerminate, q, out>>

(* A condition variable may wake its thread for no reason.                 *)
SpuriousWakeup(w) ==
  /\ WGoto(w, "waiting", "woken")
  /\ UNCHANGED <<dontTerminate, q, m, out>>

(* The packet leaves the queue and the iteration's lock is released.       *)
Pop(w) == q' = [q EXCEPT ![w] = Tail(@)] /\ m' = [m EXCEPT ![w] = None]

(* Mutated forms of what follows a write: the packet stays in the queue,   *)
(* and the whole queue goes with it.                                       *)
KeepFront(w) == q' = q /\ m' = [m EXCEPT ![w] = None]
PopAll(w) == q' = [q EXCEPT ![w] = <<>>] /\ m' = [m EXCEPT ![w] = None]
PopWritten(w) == Pop(w)

(* The packet is parsed and written, unless the worker is to end.          *)
Deliver(w) ==
  /\ \/ /\ dontTerminate[w]
        /\ WGoto(w, "deliver", "write")
        /\ out' = [out EXCEPT ![w] = Append(@, Head(q[w]))]
        /\ UNCHANGED <<q, m>>
     \/ /\ ~dontTerminate[w]
        /\ WGoto(w, "deliver", "while")
        /\ Pop(w)
        /\ UNCHANGED out
  /\ UNCHANGED dontTerminate

(* The write returns; all this time the worker has held _m.                *)
Written(w) ==
  /\ WGoto(w, "write", "while")
  /\ PopWritten(w)
  /\ UNCHANGED <<dontTerminate, out>>

WorkerStep(w) ==
  While(w) \/ Wakeup(w) \/ Test(w) \/ Wait(w) \/ Deliver(w) \/ Written(w)

-----------------------------------------------------------------------------
(* What other threads do to a worker.                                      *)

(* notify_one: of use only to a thread that waits.                         *)
NotifyOne(w) ==
  wpc' = IF wpc[w] = "waiting" THEN [wpc EXCEPT ![w] = "woken"] ELSE wpc

(* The receiver's push, in the critical section of _m; in a mutated form a *)
(* queue has room for one packet.                                          *)
PushFirst(w, packet) ==
  m[w] = None /\ q' = [q EXCEPT ![w] = IF @ = <<>> THEN <<packet>> ELSE @]
Push(w, packet) == m[w] = None /\ q' = [q EXCEPT ![w] = Append(@, packet)]

(* setTerminate's assignment; its notify_one is a step of its own, and     *)
(* neither is in the critical section of _m.                               *)
ClearFlag(w) == dontTerminate' = [dontTerminate EXCEPT ![w] = FALSE]

WorkerTypeOK(Packet) ==
  /\ wpc \in [Worker -> {"none", "while", "test", "wait", "waiting", "woken",
                         "deliver", "write", "done"}]
  /\ dontTerminate \in [Worker -> BOOLEAN]
  /\ q \in [Worker -> Seq(Packet)]
  /\ m \in [Worker -> Worker \cup {None}]
  /\ out \in [Worker -> Seq(Packet)]
=============================================================================
