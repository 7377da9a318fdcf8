--------------------------- MODULE MessageStream ---------------------------
(***************************************************************************)
(* One subscription's message bus (AgentSubscription, Mqtt, MessageBus)    *)
(* and its limits (AgentSubscriptionLimits): on_message counts, checks the *)
(* limits and writes to the transport on the MQTT loop thread, while       *)
(* telemetrySubscribe polls expired() once a second and then cleans up.    *)
(* Time limits count from 1970, since nothing calls start(): nearly every  *)
(* one ends its stream with the first message, long before the stream was  *)
(* open for that time.  LimitsDue says where this makes no difference.     *)
(***************************************************************************)
EXTENDS Integers

CONSTANTS
  RecordLimits,  \* int32 values of limit_records a client may ask for
  TimeLimits,    \* int32 values of limit_time_seconds a client may ask for
  Word,          \* 2^64, the number of values of uint64_t
  Opened,        \* time(), in seconds since 1970, when the stream starts
  MaxTicks,      \* bound: seconds that pass
  MaxMessages    \* bound: messages that arrive

ASSUME LimitsAssumption ==
  /\ RecordLimits \subseteq Int /\ TimeLimits \subseteq Int
  /\ Word \in Nat \ {0}
  /\ Opened \in Nat /\ MaxTicks \in Nat /\ MaxMessages \in Nat

VARIABLES
  records,        \* AgentSubscriptionLimits::_records
  seconds,        \* AgentSubscriptionLimits::_seconds
  now,            \* time()
  messages,       \* messages.getPackets()
  latest,         \* history: when the last message was counted
  handling,       \* the message on_message is at, if any: good ones translate
  limitsReached,  \* Mqtt::_limits_reached
  active,         \* AgentSubscription::_active
  written,        \* records given to the transport
  due,            \* history: good messages counted while the stream waits
  pc              \* where telemetrySubscribe is, from enable on

limitVars == <<records, seconds>>
messageVars == <<messages, latest, handling, limitsReached, written, due>>
busVars == <<limitVars, now, messageVars, active, pc>>

-----------------------------------------------------------------------------
(* The constructor's memset: start() is called nowhere in the agent.       *)
StartTime == 0

ExpiredTime(sec, t) == sec # 0 /\ t - StartTime >= sec

(* The limits go from int32 to uint64_t (and the form that keeps the sign):*)
(* a negative limit becomes one that is out of reach.                      *)
SignKept(n) == n
Unsigned(n) == n % Word

(* Mutated form: the limit itself does not count as reached.               *)
ExpiredCountLate(rec, n) == rec # 0 /\ n > rec
ExpiredCount(rec, n) == rec # 0 /\ n >= rec

BusInit ==
  /\ records \in {Unsigned(n) : n \in RecordLimits}
  /\ seconds \in {Unsigned(n) : n \in TimeLimits}
  /\ now = Opened
  /\ messages = 0 /\ latest = Opened /\ handling = "none"
  /\ limitsReached = FALSE
  /\ active \in BOOLEAN
  /\ written = 0 /\ due = 0
  /\ pc = "enabled"

(* setActive(true), after the loop thread was started.  Mutated form: the  *)
(* flag, which the constructor does not set, is left alone.                *)
LeftAlone == active' = active
TurnOn == active' = TRUE

SetActive ==
  /\ pc = "enabled" /\ pc' = "wait"
  /\ TurnOn
  /\ UNCHANGED <<limitVars, now, messageVars>>

(* The stream's thread is in the wait loop, or past it and not yet at the  *)
(* end of the clean-up.                                                    *)
Waits == pc \in {"wait", "ending"}

(* on_message begins: every message counts, and the limits are checked,    *)
(* whether it will turn out to be translatable or not.                     *)
CountMessage(kind) ==
  /\ pc # "stopped" /\ handling = "none"
  /\ messages < MaxMessages
  /\ handling' = kind
  /\ messages' = messages + 1
  /\ latest' = now
  /\ limitsReached' = \/ limitsReached
                      \/ ExpiredTime(seconds, now)
                      \/ ExpiredCount(records, messages')
  /\ due' = IF Waits /\ kind = "good" THEN due + 1 ELSE due
  /\ UNCHANGED <<limitVars, now, written, active, pc>>

(* on_message ends: what could be parsed and translated is written if the  *)
(* subscription is active by now, and, unlike what "limit the number of    *)
(* records sent in the stream" says, whether a limit is reached or not.    *)
Deliver ==
  /\ pc # "stopped" /\ handling # "none"
  /\ handling' = "none"
  /\ written' = IF handling = "good" /\ active THEN written + 1 ELSE written
  /\ UNCHANGED <<limitVars, now, messages, latest, limitsReached, due, active,
                 pc>>

(* The wait loop sees expired().                                           *)
LeaveWait ==
  /\ pc = "wait" /\ pc' = "ending"
  /\ limitsReached
  /\ UNCHANGED <<limitVars, now, messageVars, active>>

(* _cleanupSubscription: the loop thread is cancelled, be it in a callback,*)
(* and joined before the flag is turned off.                               *)
StopBus ==
  /\ pc = "ending" /\ pc' = "stopped"
  /\ active' = FALSE
  /\ UNCHANGED <<limitVars, now, messageVars>>

Tick ==
  /\ now < Opened + MaxTicks
  /\ now' = now + 1
  /\ UNCHANGED <<limitVars, messageVars, active, pc>>

Thread == SetActive \/ LeaveWait \/ StopBus

OnMessage == Deliver \/ \E kind \in {"good", "bad"} : CountMessage(kind)

BusNext == Thread \/ Tick \/ OnMessage

BusSpec == BusInit /\ [][BusNext]_busVars

(* The stream's thread keeps running; messages may stop coming.            *)
BusFairSpec == BusSpec /\ WF_busVars(Thread)

-----------------------------------------------------------------------------
(* Properties.                                                             *)

(* Every variable has its type.                                            *)
BusTypeOK ==
  /\ records \in 0 .. (Word - 1) /\ seconds \in 0 .. (Word - 1)
  /\ now \in Nat /\ latest \in Nat
  /\ messages \in Nat /\ written \in Nat /\ due \in Nat
  /\ handling \in {"none", "good", "bad"}
  /\ limitsReached \in BOOLEAN /\ active \in BOOLEAN
  /\ pc \in {"enabled", "wait", "ending", "stopped"}

(* limit_records messages have come.                                       *)
Counted == records # 0 /\ messages >= records

(* The record limit is exact: every message that reaches it is noticed,    *)
(* and nothing else ends a stream that has no time limit, or one that      *)
(* cannot be over (as a negative one, which becomes huge).  Of the others  *)
(* only this is claimed: when a message comes and the stream has been open *)
(* for limit_time_seconds, the stream is over.  It nearly always is before *)
(* that.                                                                   *)
LimitsDue ==
  /\ Counted => limitsReached
  /\ limitsReached /\ (seconds = 0 \/ seconds > now) => Counted
  /\ seconds # 0 /\ messages # 0 /\ latest - Opened >= seconds => limitsReached
  /\ pc \in {"ending", "stopped"} => limitsReached

(* What is counted while the stream waits, and can be translated, is       *)
(* written, whatever _active was before, and up to the limit and the       *)
(* clean-up that it brings; only the message of a callback that is not     *)
(* over may be missing.  Nothing is written twice.                         *)
AllWritten ==
  /\ due <= written + IF handling = "good" THEN 1 ELSE 0
  /\ written <= messages - IF handling = "none" THEN 0 ELSE 1

(* Limits and times stay in uint64_t, record limits are exact, time limits *)
(* are not missed, and no record of an active stream is left out.          *)
LimitsRight == BusTypeOK /\ LimitsDue /\ AllWritten

(* A stream that has counted limit_records messages ends, without a        *)
(* further message.                                                        *)
RecordLimitEnds ==
  records # 0 /\ messages >= records ~> pc = "stopped"
=============================================================================
