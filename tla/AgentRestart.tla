---------------------------- MODULE AgentRestart ----------------------------
(***************************************************************************)
(* Processes of the agent that start, fail to start, serve, crash and are  *)
(* started again, against a device that keeps what it was sent: the pid    *)
(* lock of main, on_startup (clear the device, register with JSD), and the *)
(* commands that a serving agent's consolidator sends.                     *)
(*                                                                         *)
(* A command ends in one of four ways: it is carried out and acknowledged, *)
(* it is not carried out, it is carried out though the agent saw an error, *)
(* or the agent's deadline passes while it is under way, and the device    *)
(* gets it later or never.  The device is a Junos device, or this          *)
(* repository's MgdServer.                                                 *)
(***************************************************************************)
EXTENDS IdManager

CONSTANTS
  Agent,         \* processes
  Path,          \* paths to provision
  None,          \* no process, no path, no command
  OnBox,         \* running_mode is on-box
  Registration,  \* jsd_init_registration
  Retries,       \* jsd_num_of_retries
  MaxFaults,     \* bound: commands that are not acknowledged
  MaxStarts      \* bound: starts of a process

Slots == Ids \cup {NullId}
Command == [op : {"add", "delete", "clear"}, id : Slots, path : Path \cup {None}]

ASSUME RestartAssumption ==
  /\ None \notin Agent /\ None \notin Path /\ None \notin Command
  /\ {OnBox, Registration} \subseteq BOOLEAN
  /\ Retries \in Int /\ MaxFaults \in Nat /\ MaxStarts \in Nat

VARIABLES
  simulated,   \* is the device MgdServer
  apc,         \* where a process is
  lock,        \* who holds the flock of the pid file
  retry,       \* on_startup's retry
  registered,  \* result, of the last _jsd_register
  sensors,     \* what the process has provisioned: internal id -> path
  suspect,     \* a command of this process was not acknowledged
  device,      \* the device's configuration: request id -> command
  late,        \* commands under way whose deadline has passed
  touched,     \* history: request ids whose configuration was last changed
               \* by such a command
  faults,      \* commands not acknowledged so far
  starts       \* processes started so far

agentVars == <<apc, lock, retry, registered, sensors, suspect>>
deviceVars == <<simulated, device, late, touched>>
vars == <<agentVars, deviceVars, faults, starts>>

Empty == [i \in Ids |-> None]

Init ==
  /\ simulated \in BOOLEAN
  /\ apc = [a \in Agent |-> "down"]
  /\ lock = None
  /\ retry = [a \in Agent |-> 0]
  /\ registered = [a \in Agent |-> FALSE]
  /\ sensors = [a \in Agent |-> Empty]
  /\ suspect = [a \in Agent |-> FALSE]
  /\ device = [i \in Slots |-> None]
  /\ late = {}
  /\ touched = {}
  /\ faults = 0
  /\ starts = 0

-----------------------------------------------------------------------------
(* A Junos device does what the command's text says.                       *)
JunosEdit(cmd, config) ==
  CASE cmd.op = "add"    -> [config EXCEPT ![cmd.id] = cmd]
    [] cmd.op = "delete" -> [config EXCEPT ![cmd.id] = None]
    [] cmd.op = "clear"  -> [i \in Slots |-> None]

(* EditEphemeralConfig of MgdServer goes by the operation code, and the    *)
(* agent's is UPDATE_CONFIG for all three: the command is stored.          *)
EditEphemeralConfig(cmd, config) == [config EXCEPT ![cmd.id] = cmd]

Edit(cmd, config) ==
  IF simulated THEN EditEphemeralConfig(cmd, config) ELSE JunosEdit(cmd, config)

(* The request ids a command is about.                                     *)
Edited(cmd) ==
  IF cmd.op = "clear" /\ ~simulated THEN Slots ELSE {cmd.id}

Outcome == {"ok", "refused", "unacknowledged", "late"}

(* _sendJunosMessagetoMgd, with the login in front of it.                  *)
Send(cmd, out) ==
  /\ IF out = "ok" THEN faults' = faults
     ELSE faults < MaxFaults /\ faults' = faults + 1
  /\ IF out \in {"ok", "unacknowledged"}
     THEN device' = Edit(cmd, device) /\ touched' = touched \ Edited(cmd)
     ELSE UNCHANGED <<device, touched>>
  /\ late' = IF out = "late" THEN late \cup {cmd} ELSE late
  /\ UNCHANGED simulated

(* A command whose deadline has passed reaches the device, or does not.    *)
Arrive(cmd) ==
  /\ late' = late \ {cmd}
  /\ device' = Edit(cmd, device)
  /\ touched' = touched \cup Edited(cmd)
  /\ UNCHANGED <<simulated, agentVars, faults, starts>>

Lose(cmd) ==
  /\ late' = late \ {cmd}
  /\ UNCHANGED <<simulated, device, touched, agentVars, faults, starts>>

-----------------------------------------------------------------------------
Goto(a, from, to) == apc[a] = from /\ apc' = [apc EXCEPT ![a] = to]

(* The kernel gives the flock back with the process.                       *)
Unlock(a) == lock' = IF lock = a THEN None ELSE lock

(* Mutated form: the flock is not asked for.                               *)
NoLock(a) == lock' = a
PidLock(a) == IF OnBox THEN lock = None /\ lock' = a ELSE UNCHANGED lock

(* main up to on_startup, in memory that knows of nothing.  A process that *)
(* finds the pid file locked, or cannot write it, exits without a trace.   *)
Start(a) ==
  /\ apc[a] \in {"down", "failed"}
  /\ starts < MaxStarts /\ starts' = starts + 1
  /\ PidLock(a)
  /\ apc' = [apc EXCEPT ![a] = "clear"]
  /\ retry' = [retry EXCEPT ![a] = 1]
  /\ registered' = [registered EXCEPT ![a] = FALSE]
  /\ sensors' = [sensors EXCEPT ![a] = Empty]
  /\ suspect' = [suspect EXCEPT ![a] = FALSE]
  /\ UNCHANGED <<deviceVars, faults>>

(* Mutated form: the answer to the clear is not looked at.                 *)
ClearIgnored(out) == TRUE
Cleared(out) == out = "ok"

(* systemClearAll, once: a failure ends the process.                       *)
ClearAll(a, out) ==
  /\ Send([op |-> "clear", id |-> NullId, path |-> None], out)
  /\ IF Cleared(out)
     THEN Goto(a, "clear", IF Registration THEN "read" ELSE "validate")
          /\ UNCHANGED lock
     ELSE Goto(a, "clear", "failed") /\ Unlock(a)
  /\ UNCHANGED <<retry, registered, sensors, suspect, starts>>

(* The registration file is read, or is not JSON.                          *)
ReadJson(a, ok) ==
  /\ IF ok THEN Goto(a, "read", "register") /\ UNCHANGED lock
     ELSE Goto(a, "read", "failed") /\ Unlock(a)
  /\ UNCHANGED <<retry, registered, sensors, suspect, deviceVars, faults,
                 starts>>

(* retry counts the attempts, and does not count the one that succeeds; a  *)
(* mutated form starts over at the limit.                                  *)
CountAround(a, ok) == retry' = [retry EXCEPT ![a] = IF @ = Retries THEN 1 ELSE @ + 1]
CountTry(a, ok) == retry' = IF ok THEN retry ELSE [retry EXCEPT ![a] = @ + 1]

(* The loop's test.                                                        *)
MayTry(a) == retry[a] <= Retries

(* One round of the loop.                                                  *)
Register(a, ok) ==
  /\ MayTry(a)
  /\ Goto(a, "register", IF ok THEN "decide" ELSE "register")
  /\ registered' = [registered EXCEPT ![a] = ok]
  /\ CountTry(a, ok)
  /\ UNCHANGED <<lock, sensors, suspect, deviceVars, faults, starts>>

RetriesUsedUp(a) ==
  /\ retry[a] > Retries
  /\ Goto(a, "register", "decide")
  /\ UNCHANGED <<lock, retry, registered, sensors, suspect, deviceVars,
                 faults, starts>>

(* Mutated form: a success at the last attempt counts as none.             *)
GaveUpEarly(a) == retry[a] >= Retries
GaveUp(a) == retry[a] > Retries

(* The test behind the loop.                                               *)
Decide(a) ==
  /\ IF GaveUp(a) THEN Goto(a, "decide", "failed") /\ Unlock(a)
     ELSE Goto(a, "decide", "validate") /\ UNCHANGED lock
  /\ UNCHANGED <<retry, registered, sensors, suspect, deviceVars, faults,
                 starts>>

(* The memory of a process goes with it.                                   *)
Forget(a) ==
  /\ retry' = [retry EXCEPT ![a] = 0]
  /\ registered' = [registered EXCEPT ![a] = FALSE]
  /\ sensors' = [sensors EXCEPT ![a] = Empty]
  /\ suspect' = [suspect EXCEPT ![a] = FALSE]

(* The path database is built, or the process ends; the server runs.       *)
RunServer(a, built) ==
  /\ IF built
     THEN /\ Goto(a, "validate", "serving")
          /\ UNCHANGED <<lock, retry, registered, sensors, suspect>>
     ELSE Goto(a, "validate", "down") /\ Unlock(a) /\ Forget(a)
  /\ UNCHANGED <<deviceVars, faults, starts>>

Crash(a) ==
  /\ apc[a] \notin {"down", "failed"}
  /\ apc' = [apc EXCEPT ![a] = "down"]
  /\ Unlock(a) /\ Forget(a)
  /\ UNCHANGED <<deviceVars, faults, starts>>

-----------------------------------------------------------------------------
UsedIds(a) == {i \in Ids : sensors[a][i] # None}

Blame(a, out) == suspect' = [suspect EXCEPT ![a] = @ \/ out # "ok"]

(* The first request for a path: an id, and systemAdd; without a success   *)
(* the id is taken back.                                                   *)
SystemAdd(a, p, out) ==
  /\ apc[a] = "serving"
  /\ \A i \in Ids : sensors[a][i] # p
  /\ LET id == NextId(UsedIds(a))
     IN  /\ id # NullId
         /\ Send([op |-> "add", id |-> id, path |-> p], out)
         /\ sensors' = IF out = "ok" THEN [sensors EXCEPT ![a][id] = p] ELSE sensors
  /\ Blame(a, out)
  /\ UNCHANGED <<apc, lock, retry, registered, starts>>

(* The last request goes: the id is free whatever the device answers.      *)
SystemRemove(a, i, out) ==
  /\ apc[a] = "serving"
  /\ sensors[a][i] # None
  /\ Send([op |-> "delete", id |-> i, path |-> sensors[a][i]], out)
  /\ sensors' = [sensors EXCEPT ![a][i] = None]
  /\ Blame(a, out)
  /\ UNCHANGED <<apc, lock, retry, registered, starts>>

Startup(a) ==
  \/ \E out \in Outcome : ClearAll(a, out)
  \/ \E ok \in BOOLEAN : ReadJson(a, ok) \/ Register(a, ok) \/ RunServer(a, ok)
  \/ RetriesUsedUp(a) \/ Decide(a)

Next ==
  \/ \E a \in Agent :
       \/ Start(a) \/ Startup(a) \/ Crash(a)
       \/ \E p \in Path, out \in Outcome : SystemAdd(a, p, out)
       \/ \E i \in Ids, out \in Outcome : SystemRemove(a, i, out)
  \/ \E cmd \in late : Arrive(cmd) \/ Lose(cmd)

Spec == Init /\ [][Next]_vars

(* A process that is starting goes on: every call of on_startup has a      *)
(* deadline.                                                               *)
FairSpec == Spec /\ \A a \in Agent : WF_vars(Startup(a))

-----------------------------------------------------------------------------
(* Properties.                                                             *)

(* Every variable has its type.                                            *)
TypeOK ==
  /\ simulated \in BOOLEAN /\ touched \in SUBSET Slots
  /\ apc \in [Agent -> {"down", "clear", "read", "register", "decide",
                        "validate", "serving", "failed"}]
  /\ lock \in Agent \cup {None}
  /\ retry \in [Agent -> 0 .. (IF Retries > 0 THEN Retries + 1 ELSE 1)]
  /\ registered \in [Agent -> BOOLEAN]
  /\ sensors \in [Agent -> [Ids -> Path \cup {None}]]
  /\ suspect \in [Agent -> BOOLEAN]
  /\ device \in [Slots -> Command \cup {None}]
  /\ late \in SUBSET Command
  /\ faults \in 0 .. MaxFaults
  /\ starts \in 0 .. MaxStarts

(* The device's sensor of an id is for the path.                           *)
Configured(i, p) ==
  device[i] # None /\ device[i].op = "add" /\ device[i].path = p

(* What a serving agent has provisioned is on the device, although other   *)
(* processes start, clear the device and crash around it, whatever was     *)
(* not acknowledged; only a command that arrives after its deadline may    *)
(* undo it.                                                                *)
LiveConfigured ==
  \A a \in Agent, i \in Ids \ touched :
    apc[a] = "serving" /\ sensors[a][i] # None => Configured(i, sensors[a][i])

(* "Clear the Ephemeral DB": an agent none of whose commands failed serves *)
(* a Junos device with its own sensors and no others, whatever an earlier  *)
(* one left behind when it crashed, unless a late command brought it.      *)
NoStrangers ==
  \A a \in Agent, i \in Ids \ touched, p \in Path :
    ~simulated /\ apc[a] = "serving" /\ ~suspect[a] /\ Configured(i, p) =>
      sensors[a][i] = p

(* Registration decides: an agent that is to register serves only after    *)
(* JSD accepted it, and is never turned away although JSD did, be it at    *)
(* the last of its attempts or with none allowed.                          *)
RegistrationDecides ==
  \A a \in Agent :
    /\ Registration /\ apc[a] \in {"validate", "serving"} => registered[a]
    /\ apc[a] = "failed" => ~registered[a]
    /\ apc[a] = "decide" /\ registered[a] => retry[a] <= Retries

(* The start-up of every process keeps to its bounds, retry included, and  *)
(* ends as the registration went.                                          *)
StartupInv == TypeOK /\ RegistrationDecides

(* A process that is starting comes to serve, or to its end.               *)
StartupEnds ==
  \A a \in Agent :
    apc[a] = "clear" ~> apc[a] \in {"serving", "failed", "down"}
=============================================================================
