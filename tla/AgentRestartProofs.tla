------------------------- MODULE AgentRestartProofs -------------------------
(***************************************************************************)
(* Starts, crashes and restarts, for any number of processes, paths, ids,  *)
(* retries, faults and restarts.  What the start-up decides holds in every *)
(* mode; what the device has needs that agents run one at a time, and the  *)
(* pid lock, which only the on-box mode takes, makes them.                 *)
(***************************************************************************)
EXTENDS AgentRestart, IdManagerProofs

(* Two processes do not run at a time: the pid lock sees to it on-box, and *)
(* off-box, where main does not lock, nobody does.                         *)
Runs(a) ==
  apc[a] \in {"clear", "read", "register", "decide", "validate", "serving"}
OneAtATime == \A a, b \in Agent : Runs(a) /\ Runs(b) => a = b

(* The program points of on_startup behind the clear, and serving.         *)
AfterClear == {"read", "register", "decide", "validate", "serving"}
(* The program points of a process that holds, or would hold, the pid      *)
(* lock.                                                                   *)
Running == {"clear"} \cup AfterClear

(* What on_startup's registration loop knows.                              *)
RetryInv ==
  \A a \in Agent :
    /\ apc[a] \in Running => retry[a] >= 1
    /\ registered[a] => apc[a] \in {"decide", "validate", "serving"}
    /\ apc[a] = "decide" => (registered[a] <=> retry[a] <= Retries)

(* A process has provisioned nothing, and blamed nobody, before it serves. *)
FreshInv ==
  \A a \in Agent :
    apc[a] # "serving" => sensors[a] = Empty /\ ~suspect[a]

(* On-box, the process that runs is the one that has the lock.             *)
LockInv == \A a \in Agent : apc[a] \in Running <=> lock = a

(* NoStrangers, from the clear on.                                         *)
CleanInv ==
  \A a \in Agent, i \in Ids \ touched, p \in Path :
    ~simulated /\ apc[a] \in AfterClear /\ ~suspect[a] /\ Configured(i, p) =>
      sensors[a][i] = p

(* The inductive invariant of every mode; that of agents that run one at a *)
(* time, for whatever reason; and that of on-box agents, which the lock    *)
(* makes run one at a time.                                                *)
StartInv == TypeOK /\ RetryInv /\ RegistrationDecides /\ FreshInv
AloneInv == StartInv /\ LiveConfigured /\ CleanInv
IInv == AloneInv /\ LockInv
-----------------------------------------------------------------------------
(* The null id is none of the ids, and None is no process, path, command.  *)
LEMMA Distinct ==
  /\ NullId \notin Ids
  /\ None \notin Agent /\ None \notin Path /\ None \notin Command
<1>1. NullId \notin Ids
  BY IdAssumption DEF Ids, NullId
<1> QED
  BY <1>1, RestartAssumption

(* A command changes the request ids it is about, on either device.        *)
LEMMA EditIs ==
  ASSUME NEW cmd \in Command, NEW config \in [Slots -> Command \cup {None}],
         simulated \in BOOLEAN
  PROVE  /\ Edit(cmd, config) \in [Slots -> Command \cup {None}]
         /\ \A i \in Slots \ Edited(cmd) : Edit(cmd, config)[i] = config[i]
         /\ cmd.op = "add" => Edit(cmd, config)[cmd.id] = cmd
         /\ cmd.op # "add" /\ ~simulated =>
              \A i \in Edited(cmd) : Edit(cmd, config)[i] = None
<1> cmd.id \in Slots /\ cmd.op \in {"add", "delete", "clear"}
  BY DEF Command
<1>1. CASE simulated
  BY <1>1 DEF Edit, EditEphemeralConfig, Edited
<1>2. CASE ~simulated /\ cmd.op = "add"
  BY <1>2 DEF Edit, JunosEdit, Edited
<1>3. CASE ~simulated /\ cmd.op = "delete"
  BY <1>3 DEF Edit, JunosEdit, Edited
<1>4. CASE ~simulated /\ cmd.op = "clear"
  BY <1>4 DEF Edit, JunosEdit, Edited
<1> QED
  BY <1>1, <1>2, <1>3, <1>4

(* What a command may have done, however it ended: outside the request ids *)
(* it is about, nothing.                                                   *)
LEMMA SendIs ==
  ASSUME TypeOK, NEW cmd \in Command, NEW out \in Outcome, Send(cmd, out)
  PROVE  /\ simulated' = simulated
         /\ touched' \in SUBSET Slots
         /\ device' \in [Slots -> Command \cup {None}]
         /\ late' \in SUBSET Command
         /\ faults' \in 0 .. MaxFaults
         /\ \A i \in Slots \ Edited(cmd) :
              device'[i] = device[i] /\ (i \in touched' <=> i \in touched)
         /\ \/ device' = device /\ touched' = touched /\ out # "ok"
            \/ device' = Edit(cmd, device) /\ touched' = touched \ Edited(cmd)
<1>1. faults' \in 0 .. MaxFaults
  BY RestartAssumption DEF Send, TypeOK
<1>2. /\ Edit(cmd, device) \in [Slots -> Command \cup {None}]
      /\ \A i \in Slots \ Edited(cmd) : Edit(cmd, device)[i] = device[i]
  BY EditIs DEF TypeOK
<1> QED
  BY <1>1, <1>2 DEF Send, TypeOK

(* The bounds of retry.                                                    *)
LEMMA RetryBound ==
  ASSUME NEW n \in 1 .. (IF Retries > 0 THEN Retries + 1 ELSE 1)
  PROVE  /\ 1 \in 0 .. (IF Retries > 0 THEN Retries + 1 ELSE 1)
         /\ n <= Retries => n + 1 \in 0 .. (IF Retries > 0 THEN Retries + 1 ELSE 1)
BY RestartAssumption

-----------------------------------------------------------------------------
(* What holds in every mode: types, and the registration.                  *)

(* The start of a process, with or without the lock.                       *)
LEMMA StartStartInv ==
  ASSUME StartInv, NEW a \in Agent, Start(a)
  PROVE  StartInv'
<1> USE Distinct DEF StartInv, Start, TypeOK, deviceVars
<1>1. TypeOK'
  <2>1. lock' \in Agent \cup {None}
    BY DEF PidLock
  <2>2. starts' \in 0 .. MaxStarts
    BY RestartAssumption
  <2>3. retry' \in [Agent -> 0 .. (IF Retries > 0 THEN Retries + 1 ELSE 1)]
    BY RestartAssumption
  <2>4. sensors' \in [Agent -> [Ids -> Path \cup {None}]]
    BY DEF Empty
  <2>5. registered' \in [Agent -> BOOLEAN] /\ suspect' \in [Agent -> BOOLEAN]
    OBVIOUS
  <2>6. apc' \in [Agent -> {"down", "clear", "read", "register", "decide",
                           "validate", "serving", "failed"}]
    OBVIOUS
  <2> QED
    BY <2>1, <2>2, <2>3, <2>4, <2>5, <2>6
<1>2. RetryInv'
  BY DEF RetryInv, Running, AfterClear
<1>3. RegistrationDecides'
  BY DEF RegistrationDecides
<1>4. FreshInv'
  BY DEF FreshInv
<1> QED
  BY <1>1, <1>2, <1>3, <1>4

(* The clear: a failed one ends the process.                               *)
LEMMA ClearStartInv ==
  ASSUME StartInv, NEW a \in Agent, NEW out \in Outcome, ClearAll(a, out)
  PROVE  StartInv'
<1> DEFINE cmd == [op |-> "clear", id |-> NullId, path |-> None]
<1> USE Distinct DEF StartInv, ClearAll, Goto, Unlock
<1>1. TypeOK'
  <2>1. cmd \in Command
    BY DEF Command, Slots
  <2>2. /\ simulated' = simulated /\ touched' \in SUBSET Slots
        /\ device' \in [Slots -> Command \cup {None}]
        /\ late' \in SUBSET Command /\ faults' \in 0 .. MaxFaults
    BY <2>1, SendIs
  <2> QED
    BY <2>2 DEF TypeOK
<1>2. RetryInv'
  BY DEF TypeOK, RetryInv, Running, AfterClear
<1>3. RegistrationDecides'
  BY DEF TypeOK, RegistrationDecides, RetryInv
<1>4. FreshInv'
  BY DEF TypeOK, FreshInv
<1> QED
  BY <1>1, <1>2, <1>3, <1>4

(* The registration file is read, or is not JSON.                          *)
LEMMA ReadStartInv ==
  ASSUME StartInv, NEW a \in Agent, NEW ok \in BOOLEAN, ReadJson(a, ok)
  PROVE  StartInv'
<1> USE Distinct DEF StartInv, TypeOK, ReadJson, Goto, Unlock, deviceVars
<1>1. TypeOK'
  OBVIOUS
<1>2. RetryInv'
  BY DEF RetryInv, Running, AfterClear
<1>3. RegistrationDecides'
  BY DEF RegistrationDecides, RetryInv
<1>4. FreshInv'
  BY DEF FreshInv
<1> QED
  BY <1>1, <1>2, <1>3, <1>4

(* A round of the loop: the attempt that succeeds is not counted.          *)
LEMMA RegisterStartInv ==
  ASSUME StartInv, NEW a \in Agent, NEW ok \in BOOLEAN, Register(a, ok)
  PROVE  StartInv'
<1> USE Distinct DEF StartInv, TypeOK, Register, Goto, CountTry, MayTry, deviceVars
<1>1. TypeOK'
  <2>1. retry[a] \in 1 .. (IF Retries > 0 THEN Retries + 1 ELSE 1)
    BY RestartAssumption DEF RetryInv, Running, AfterClear
  <2>2. retry' \in [Agent -> 0 .. (IF Retries > 0 THEN Retries + 1 ELSE 1)]
    BY <2>1, RetryBound
  <2>3. registered' \in [Agent -> BOOLEAN]
    OBVIOUS
  <2> QED
    BY <2>2, <2>3
<1>2. RetryInv'
  BY RestartAssumption DEF RetryInv, Running, AfterClear
<1>3. RegistrationDecides'
  BY DEF RegistrationDecides, RetryInv
<1>4. FreshInv'
  BY DEF FreshInv
<1> QED
  BY <1>1, <1>2, <1>3, <1>4

(* The end of the registration loop, and what main does then.              *)
LEMMA DecideStartInv ==
  ASSUME StartInv, NEW a \in Agent, RetriesUsedUp(a) \/ Decide(a)
  PROVE  StartInv'
<1> USE Distinct, RestartAssumption
    DEF StartInv, TypeOK, RetriesUsedUp, Decide, GaveUp, Goto, Unlock, deviceVars
<1>1. TypeOK'
  OBVIOUS
<1>2. RetryInv'
  BY DEF RetryInv, Running, AfterClear
<1>3. RegistrationDecides'
  BY DEF RegistrationDecides, RetryInv
<1>4. FreshInv'
  BY DEF FreshInv
<1> QED
  BY <1>1, <1>2, <1>3, <1>4

(* The server runs, or the process ends and its memory goes with it.       *)
LEMMA RunStartInv ==
  ASSUME StartInv, NEW a \in Agent,
         Crash(a) \/ \E built \in BOOLEAN : RunServer(a, built)
  PROVE  StartInv'
<1> USE Distinct DEF StartInv, RunServer, Crash, Goto, Unlock, Forget, deviceVars
<1>1. TypeOK'
  <2>1. 0 \in 0 .. (IF Retries > 0 THEN Retries + 1 ELSE 1)
    BY RestartAssumption
  <2>2. Empty \in [Ids -> Path \cup {None}]
    BY DEF Empty
  <2>3. CASE Crash(a)
    BY <2>1, <2>2, <2>3 DEF TypeOK
  <2>4. CASE RunServer(a, TRUE)
    BY <2>4 DEF TypeOK
  <2>5. CASE RunServer(a, FALSE)
    <3>1. /\ apc' = [apc EXCEPT ![a] = "down"]
          /\ lock' = IF lock = a THEN None ELSE lock
          /\ retry' = [retry EXCEPT ![a] = 0]
          /\ registered' = [registered EXCEPT ![a] = FALSE]
          /\ sensors' = [sensors EXCEPT ![a] = Empty]
          /\ suspect' = [suspect EXCEPT ![a] = FALSE]
          /\ UNCHANGED <<simulated, device, late, touched, faults, starts>>
      BY <2>5
    <3> QED
      BY <2>1, <2>2, <3>1 DEF TypeOK
  <2> QED
    BY <2>3, <2>4, <2>5
<1>2. RetryInv'
  BY DEF TypeOK, RetryInv, Running, AfterClear
<1>3. RegistrationDecides'
  BY DEF TypeOK, RegistrationDecides, RetryInv
<1>4. FreshInv'
  BY DEF TypeOK, FreshInv
<1> QED
  BY <1>1, <1>2, <1>3, <1>4

(* The commands of an agent that serves.                                   *)
LEMMA AddCommand ==
  ASSUME TypeOK, NEW a \in Agent, NextId(UsedIds(a)) # NullId
  PROVE  NextId(UsedIds(a)) \in Ids /\ sensors[a][NextId(UsedIds(a))] = None
<1>1. NextId(UsedIds(a)) \in Ids /\ NextId(UsedIds(a)) \notin UsedIds(a)
  BY NextIdIsFree
<1> QED
  BY <1>1 DEF UsedIds

(* The commands of a serving agent.                                        *)
LEMMA ServeStartInv ==
  ASSUME StartInv, NEW a \in Agent, NEW out \in Outcome,
         \/ \E p \in Path : SystemAdd(a, p, out)
         \/ \E i \in Ids : SystemRemove(a, i, out)
  PROVE  StartInv'
<1>1. CASE \E p \in Path : SystemAdd(a, p, out)
  <2>1. PICK p \in Path : SystemAdd(a, p, out)
    BY <1>1
  <2> DEFINE id == NextId(UsedIds(a))
             cmd == [op |-> "add", id |-> id, path |-> p]
  <2>2. id \in Ids /\ cmd \in Command /\ Send(cmd, out)
    BY <2>1, AddCommand DEF SystemAdd, StartInv, Command, Slots
  <2>3. /\ simulated' = simulated /\ touched' \in SUBSET Slots
        /\ device' \in [Slots -> Command \cup {None}]
        /\ late' \in SUBSET Command /\ faults' \in 0 .. MaxFaults
    BY <2>2, SendIs DEF StartInv
  <2>4. sensors' \in [Agent -> [Ids -> Path \cup {None}]]
    BY <2>1, <2>2 DEF SystemAdd, StartInv, TypeOK
  <2>5. TypeOK'
    BY <2>1, <2>3, <2>4 DEF SystemAdd, Blame, StartInv, TypeOK
  <2>6. RetryInv' /\ RegistrationDecides' /\ FreshInv'
    BY <2>1 DEF SystemAdd, Blame, StartInv, TypeOK, RetryInv,
                RegistrationDecides, FreshInv
  <2> QED
    BY <2>5, <2>6 DEF StartInv
<1>2. CASE \E i \in Ids : SystemRemove(a, i, out)
  <2>1. PICK i \in Ids : SystemRemove(a, i, out)
    BY <1>2
  <2> DEFINE cmd == [op |-> "delete", id |-> i, path |-> sensors[a][i]]
  <2>2. cmd \in Command /\ Send(cmd, out)
    BY <2>1 DEF SystemRemove, StartInv, TypeOK, Command, Slots
  <2>3. /\ simulated' = simulated /\ touched' \in SUBSET Slots
        /\ device' \in [Slots -> Command \cup {None}]
        /\ late' \in SUBSET Command /\ faults' \in 0 .. MaxFaults
    BY <2>2, SendIs DEF StartInv
  <2>4. sensors' \in [Agent -> [Ids -> Path \cup {None}]]
    BY <2>1 DEF SystemRemove, StartInv, TypeOK
  <2>5. TypeOK'
    BY <2>1, <2>3, <2>4 DEF SystemRemove, Blame, StartInv, TypeOK
  <2>6. RetryInv' /\ RegistrationDecides' /\ FreshInv'
    BY <2>1 DEF SystemRemove, Blame, StartInv, TypeOK, RetryInv,
                RegistrationDecides, FreshInv
  <2> QED
    BY <2>5, <2>6 DEF StartInv
<1> QED
  BY <1>1, <1>2

(* A command that was late is carried out, or lost.                        *)
LEMMA LateStartInv ==
  ASSUME StartInv, NEW cmd \in late, Arrive(cmd) \/ Lose(cmd)
  PROVE  StartInv'
<1> USE DEF StartInv, Arrive, Lose, agentVars
<1>1. TypeOK'
  <2>1. Edit(cmd, device) \in [Slots -> Command \cup {None}] /\ Edited(cmd) \subseteq Slots
    BY EditIs DEF TypeOK, Edited, Command
  <2> QED
    BY <2>1 DEF TypeOK
<1>2. RetryInv' /\ RegistrationDecides' /\ FreshInv'
  BY DEF RetryInv, RegistrationDecides, FreshInv
<1> QED
  BY <1>1, <1>2
(* Whatever the mode, every step keeps types and registration right.       *)
LEMMA StartStep == StartInv /\ [Next]_vars => StartInv'
<1> SUFFICES ASSUME StartInv, [Next]_vars PROVE StartInv'
  OBVIOUS
<1>1. CASE UNCHANGED vars
  BY <1>1 DEF vars, agentVars, deviceVars, StartInv, TypeOK, RetryInv,
              RegistrationDecides, FreshInv
<1>2. CASE Next
  BY <1>2, StartStartInv, ClearStartInv, ReadStartInv, RegisterStartInv,
     DecideStartInv, RunStartInv, ServeStartInv, LateStartInv DEF Next, Startup
<1> QED
  BY <1>1, <1>2

(* Before the first start nothing is registered, retried or provisioned.   *)
LEMMA StartInit == Init => StartInv
<1> SUFFICES ASSUME Init PROVE StartInv
  OBVIOUS
<1> USE DEF Init
<1>1. TypeOK
  <2>1. retry \in [Agent -> 0 .. (IF Retries > 0 THEN Retries + 1 ELSE 1)]
    BY RestartAssumption
  <2>2. sensors \in [Agent -> [Ids -> Path \cup {None}]]
    BY DEF Empty
  <2>3. faults \in 0 .. MaxFaults /\ starts \in 0 .. MaxStarts
    BY RestartAssumption
  <2> QED
    BY <2>1, <2>2, <2>3 DEF TypeOK
<1>2. RetryInv /\ RegistrationDecides /\ FreshInv
  BY DEF RetryInv, RegistrationDecides, FreshInv, Running, AfterClear
<1> QED
  BY <1>1, <1>2 DEF StartInv

(* A process serves only after a registration that is required, and is     *)
(* turned away only without one, for every number of retries.              *)
THEOREM StartupSound == Spec => []StartupInv
<1>1. StartInv => StartupInv
  BY DEF StartInv, StartupInv
<1> QED
  BY <1>1, StartInit, StartStep, PTL DEF Spec

-----------------------------------------------------------------------------
(* Agents that run one at a time, in every mode.                           *)

(* Steps that send nothing.                                                *)
LEMMA QuietStep ==
  ASSUME AloneInv, StartInv', NEW a \in Agent,
         \/ Start(a) \/ Crash(a) \/ RetriesUsedUp(a) \/ Decide(a)
         \/ \E ok \in BOOLEAN : ReadJson(a, ok) \/ Register(a, ok) \/ RunServer(a, ok)
  PROVE  AloneInv'
<1> USE Distinct
<1>1. /\ device' = device /\ touched' = touched /\ simulated' = simulated
      /\ \A b \in Agent \ {a} :
           /\ apc'[b] = apc[b] /\ sensors'[b] = sensors[b]
           /\ suspect'[b] = suspect[b]
  BY DEF AloneInv, StartInv, TypeOK, deviceVars, Start, Crash, RetriesUsedUp,
         Decide, ReadJson, Register, RunServer, Goto, Forget
<1>2. apc'[a] \in AfterClear =>
        /\ apc[a] \in AfterClear \ {"serving"} /\ sensors'[a] = sensors[a]
        /\ suspect'[a] = suspect[a] /\ sensors[a] = Empty
  BY DEF AloneInv, StartInv, TypeOK, FreshInv, AfterClear, Start, Crash,
         RetriesUsedUp, Decide, ReadJson, Register, RunServer, Goto
<1>3. LiveConfigured'
  BY <1>1, <1>2 DEF AloneInv, LiveConfigured, Configured, Empty, AfterClear
<1>4. CleanInv'
  BY <1>1, <1>2 DEF AloneInv, CleanInv, Configured
<1> QED
  BY <1>3, <1>4 DEF AloneInv

(* The clear, by the one process that runs.                                *)
LEMMA ClearStep ==
  ASSUME AloneInv, StartInv', OneAtATime, NEW a \in Agent, NEW out \in Outcome,
         ClearAll(a, out)
  PROVE  AloneInv'
<1> DEFINE cmd == [op |-> "clear", id |-> NullId, path |-> None]
<1> USE Distinct DEF AloneInv, ClearAll, Goto, Unlock
<1>1. cmd \in Command /\ cmd.op = "clear"
  BY DEF Command, Slots
<1>3. \A b \in Agent : b # a => apc'[b] \notin AfterClear
  BY DEF OneAtATime, Runs, AfterClear, StartInv, TypeOK
<1>4. apc'[a] # "serving" /\ (apc'[a] \in AfterClear => out = "ok")
  BY DEF AfterClear, Cleared, StartInv, TypeOK
<1>5. LiveConfigured'
  BY <1>3, <1>4 DEF LiveConfigured, AfterClear
<1>6. CleanInv'
  <2> SUFFICES ASSUME NEW i \in Ids, ~simulated, out = "ok"
               PROVE  device'[i] = None
    BY <1>1, <1>3, <1>4, SendIs DEF CleanInv, Configured, StartInv
  <2>1. i \in Edited(cmd)
    BY <1>1 DEF Edited, Slots
  <2>2. device' = Edit(cmd, device)
    BY <1>1, SendIs DEF StartInv
  <2> QED
    BY <1>1, <2>1, <2>2, EditIs DEF StartInv, TypeOK
<1> QED
  BY <1>5, <1>6

(* systemAdd: the id was free, so no other sensor loses its configuration. *)
LEMMA AddStep ==
  ASSUME AloneInv, StartInv', OneAtATime, NEW a \in Agent, NEW p \in Path,
         NEW out \in Outcome, SystemAdd(a, p, out)
  PROVE  AloneInv'
<1> DEFINE id == NextId(UsedIds(a))
           cmd == [op |-> "add", id |-> id, path |-> p]
<1> USE Distinct DEF AloneInv, StartInv
<1>1. /\ id \in Ids /\ sensors[a][id] = None /\ cmd \in Command
      /\ Send(cmd, out) /\ cmd.op = "add" /\ cmd.id = id /\ cmd.path = p
  BY AddCommand DEF SystemAdd, Command, Slots
<1> HIDE DEF cmd, id
<1>2. apc' = apc
  BY DEF SystemAdd
<1>3. apc[a] = "serving" /\ \A b \in Agent : b # a => apc[b] \notin AfterClear
  BY DEF SystemAdd, OneAtATime, Runs, AfterClear
<1>4. Edited(cmd) = {id} /\ simulated' = simulated
  BY <1>1, SendIs DEF Edited
<1>5. \A i \in Ids \ {id} : device'[i] = device[i] /\ (i \in touched' <=> i \in touched)
  BY <1>1, <1>4, SendIs DEF Slots
<1>6. /\ \A i \in Ids \ {id} : sensors'[a][i] = sensors[a][i]
      /\ sensors'[a][id] = IF out = "ok" THEN p ELSE None
  BY <1>1 DEF SystemAdd, TypeOK, id
<1>7. out = "ok" => device'[id] = cmd
  <2>1. device' = Edit(cmd, device) \/ out # "ok"
    BY <1>1, SendIs
  <2> QED
    BY <1>1, <2>1, EditIs DEF TypeOK
<1>8. LiveConfigured'
  BY <1>1, <1>2, <1>3, <1>5, <1>6, <1>7 DEF LiveConfigured, Configured, AfterClear
<1>9. ~suspect'[a] => ~suspect[a] /\ out = "ok"
  BY DEF SystemAdd, Blame, TypeOK
<1>10. CleanInv'
  BY <1>1, <1>2, <1>3, <1>4, <1>5, <1>6, <1>7, <1>9
     DEF CleanInv, Configured, AfterClear
<1> QED
  BY <1>8, <1>10

(* systemRemove: only the sensor that goes may lose its configuration, and *)
(* a Junos device that acknowledged has deleted it.                        *)
LEMMA RemoveStep ==
  ASSUME AloneInv, StartInv', OneAtATime, NEW a \in Agent, NEW id \in Ids,
         NEW out \in Outcome, SystemRemove(a, id, out)
  PROVE  AloneInv'
<1> DEFINE cmd == [op |-> "delete", id |-> id, path |-> sensors[a][id]]
<1> USE Distinct DEF AloneInv, StartInv
<1>1. /\ cmd \in Command /\ Send(cmd, out) /\ cmd.op = "delete" /\ cmd.id = id
  BY DEF SystemRemove, TypeOK, Command, Slots
<1> HIDE DEF cmd
<1>2. apc' = apc
  BY DEF SystemRemove
<1>3. apc[a] = "serving" /\ \A b \in Agent : b # a => apc[b] \notin AfterClear
  BY DEF SystemRemove, OneAtATime, Runs, AfterClear
<1>4. Edited(cmd) = {id} /\ simulated' = simulated
  BY <1>1, SendIs DEF Edited
<1>5. \A i \in Ids \ {id} : device'[i] = device[i] /\ (i \in touched' <=> i \in touched)
  BY <1>1, <1>4, SendIs DEF Slots
<1>6. /\ \A i \in Ids \ {id} : sensors'[a][i] = sensors[a][i]
      /\ sensors'[a][id] = None
  BY DEF SystemRemove, TypeOK
<1>7. out = "ok" /\ ~simulated => device'[id] = None
  <2>1. device' = Edit(cmd, device) \/ out # "ok"
    BY <1>1, SendIs
  <2> QED
    <3>1. ~simulated => \A i \in Edited(cmd) : Edit(cmd, device)[i] = None
      BY <1>1, EditIs, SMTT(30) DEF TypeOK
    <3> QED
      BY <1>4, <2>1, <3>1
<1>8. LiveConfigured'
  BY <1>2, <1>3, <1>5, <1>6 DEF LiveConfigured, Configured, AfterClear
<1>9. ~suspect'[a] => ~suspect[a] /\ out = "ok"
  BY DEF SystemRemove, Blame, TypeOK
<1>10. CleanInv'
  BY <1>2, <1>3, <1>4, <1>5, <1>6, <1>7, <1>9
     DEF CleanInv, Configured, AfterClear
<1> QED
  BY <1>8, <1>10

(* A late command touches what it changes.                                 *)
LEMMA LateStep ==
  ASSUME AloneInv, NEW cmd \in late, Arrive(cmd) \/ Lose(cmd)
  PROVE  LiveConfigured' /\ CleanInv'
<1>1. /\ simulated' = simulated /\ apc' = apc
      /\ sensors' = sensors /\ suspect' = suspect
  BY DEF Arrive, Lose, agentVars
<1>2. \A i \in Ids \ touched' : i \notin touched /\ device'[i] = device[i]
  <2>1. CASE Arrive(cmd)
    <3>1. \A i \in Slots \ Edited(cmd) : Edit(cmd, device)[i] = device[i]
      BY EditIs DEF AloneInv, StartInv, TypeOK
    <3> QED
      BY <2>1, <3>1 DEF Arrive, Slots
  <2>2. CASE Lose(cmd)
    BY <2>2 DEF Lose
  <2> QED
    BY <2>1, <2>2
<1> QED
  BY <1>1, <1>2 DEF AloneInv, LiveConfigured, CleanInv, Configured

(* Whatever the mode, a step from agents that run one at a time keeps what *)
(* they have on the device.                                                *)
LEMMA AloneStep == AloneInv /\ OneAtATime /\ [Next]_vars => AloneInv'
<1> SUFFICES ASSUME AloneInv, OneAtATime, [Next]_vars PROVE AloneInv'
  OBVIOUS
<1>0. StartInv'
  BY StartStep DEF AloneInv
<1>1. CASE UNCHANGED vars
  BY <1>0, <1>1 DEF vars, agentVars, deviceVars, AloneInv, LiveConfigured,
                    CleanInv, Configured
<1>2. ASSUME NEW a \in Agent, Start(a) \/ Startup(a) \/ Crash(a)
      PROVE  AloneInv'
  BY <1>0, <1>2, QuietStep, ClearStep DEF Startup
<1>3. ASSUME NEW a \in Agent,
             \/ \E p \in Path, out \in Outcome : SystemAdd(a, p, out)
             \/ \E i \in Ids, out \in Outcome : SystemRemove(a, i, out)
      PROVE  AloneInv'
  BY <1>0, <1>3, AddStep, RemoveStep
<1>4. ASSUME NEW cmd \in late, Arrive(cmd) \/ Lose(cmd)
      PROVE  AloneInv'
  BY <1>0, <1>4, LateStep DEF AloneInv
<1> QED
  BY <1>1, <1>2, <1>3, <1>4 DEF Next

(* The state that no process has run in.                                   *)
LEMMA AloneInit == Init => AloneInv
<1> SUFFICES ASSUME Init PROVE AloneInv
  OBVIOUS
<1>1. LiveConfigured /\ CleanInv
  BY Distinct DEF Init, LiveConfigured, CleanInv, AfterClear
<1> QED
  BY <1>1, StartInit DEF AloneInv

(* What the two promises about the device are part of.                     *)
LEMMA AlonePromises == AloneInv => LiveConfigured /\ NoStrangers
BY DEF AloneInv, CleanInv, NoStrangers, AfterClear

(* Off-box or on-box, agents that are run one at a time find what they     *)
(* provisioned on the device and nothing that is not theirs, whatever      *)
(* crashes and failures there were.                                        *)
THEOREM AloneIsEnough ==
  Spec => ([]OneAtATime => [](LiveConfigured /\ NoStrangers))
<1> QED
  BY AloneInit, AloneStep, AlonePromises, PTL DEF Spec

-----------------------------------------------------------------------------
(* What the pid lock gives: agents run one at a time.                      *)

(* The lock goes from nobody to the process that starts, and back with the *)
(* process; no other step looks at it.                                     *)
LEMMA LockStep ==
  ASSUME OnBox = TRUE, StartInv, LockInv, [Next]_vars
  PROVE  LockInv'
<1> USE Distinct DEF StartInv, TypeOK, LockInv, Running, AfterClear
<1>1. ASSUME NEW a \in Agent, Start(a)
      PROVE  LockInv'
  BY <1>1 DEF Start, PidLock
<1>2. ASSUME NEW a \in Agent,
             \/ \E out \in Outcome : ClearAll(a, out)
             \/ RetriesUsedUp(a) \/ Decide(a) \/ Crash(a)
             \/ \E ok \in BOOLEAN :
                  ReadJson(a, ok) \/ Register(a, ok) \/ RunServer(a, ok)
      PROVE  LockInv'
  BY <1>2 DEF ClearAll, RetriesUsedUp, Decide, Crash, ReadJson, Register,
              RunServer, Goto, Unlock
<1>3. CASE apc' = apc /\ lock' = lock
  BY <1>3
<1>4. ASSUME \/ UNCHANGED vars
             \/ \E cmd \in late : Arrive(cmd) \/ Lose(cmd)
             \/ \E a \in Agent, p \in Path, out \in Outcome : SystemAdd(a, p, out)
             \/ \E a \in Agent, i \in Ids, out \in Outcome : SystemRemove(a, i, out)
      PROVE  apc' = apc /\ lock' = lock
  BY <1>4 DEF vars, agentVars, Arrive, Lose, SystemAdd, SystemRemove
<1> QED
  BY <1>1, <1>2, <1>3, <1>4 DEF Next, Startup

(* The process that has the lock is the only one that runs.                *)
LEMMA LockExcludes == LockInv => OneAtATime
BY DEF LockInv, OneAtATime, Runs, Running, AfterClear

(* The inductive invariant holds throughout, on-box.                       *)
THEOREM Invariant ==
  ASSUME OnBox = TRUE
  PROVE  Spec => []IInv
<1>1. Init => IInv
  BY AloneInit, Distinct DEF Init, IInv, LockInv, Running, AfterClear
<1>2. IInv /\ [Next]_vars => IInv'
  BY LockStep, LockExcludes, AloneStep DEF IInv, AloneInv
<1> QED
  BY <1>1, <1>2, PTL DEF Spec

(* On-box, agents run one at a time, however many are started.             *)
THEOREM LockSeesToIt ==
  ASSUME OnBox = TRUE
  PROVE  Spec => []OneAtATime
<1>1. IInv => OneAtATime
  BY LockExcludes DEF IInv
<1> QED
  BY <1>1, Invariant, PTL

(* What a serving agent has provisioned is on the device, whatever other   *)
(* processes, crashes and failures there were.                             *)
THEOREM LiveStaysConfigured ==
  ASSUME OnBox = TRUE
  PROVE  Spec => []LiveConfigured
<1>1. IInv => LiveConfigured
  BY AlonePromises DEF IInv
<1> QED
  BY <1>1, Invariant, PTL

(* An agent none of whose commands failed serves a device without the      *)
(* sensors of its predecessors.                                            *)
THEOREM NoStrangersServed ==
  ASSUME OnBox = TRUE
  PROVE  Spec => []NoStrangers
<1>1. IInv => NoStrangers
  BY AlonePromises DEF IInv
<1> QED
  BY <1>1, Invariant, PTL
=============================================================================
