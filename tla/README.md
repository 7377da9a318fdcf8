# Verification of the jvsim telemetry agent

jvsim simulates a jVision telemetry system: a gRPC server (the *agent*) that
provisions sensors on a Junos device, receives their data over an MQTT broker or
UDP and streams it to collectors; a simulated management daemon; a client; and a
sensor simulator. The agent carries the logic that is hard to get right, and this
directory models it in TLA+, together with the client and the simulated device as
far as they take part in its protocols: the modules are checked with TLC on small
instances, and all of their invariants but one, both action properties and all three
refinements are proved with TLAPS for every instance.

Paths below are relative to the repository; `server/` is `src/grpc/server/`.

## The system

| component | state | operations | talks to |
|---|---|---|---|
| id manager (`AgentServerIdManager.hpp`) | a bit string | `allocate`, `deallocate` | used for client ids (1..63) and internal ids (1000..8195) |
| consolidator (`AgentConsolidator*.cpp`) | `sysdb`: path -> reference-counted handle with an internal id; one vector of handles per request; counters; `_consolidator_mutex` | `addRequest`, `removeRequest`, through `create`, `insert`, `destroy`, `remove` | device commands, under its mutex |
| device commands (`AgentSystemProc.cpp`) | none of its own; the device's ephemeral configuration, one `sensor_<id>` per internal id | `systemAdd`, `systemRemove`, `systemGet`, `systemClearAll`, with a 5 s deadline | management daemon, by gRPC |
| telemetry server (`AgentServer.cpp`) | client ids, `_delete_initiate_mutex`; per stream a subscription, transport and consolidator handle | `telemetrySubscribe` (lives as long as its stream), `cancelTelemetrySubscription`, `_cleanupSubscription`, read-only listings | everything below |
| subscription and store (`AgentSubscription.*`) | global map id -> subscription, without a lock; `_active` | create, find, delete, `enable`, `disable`, `on_message` | called by the gRPC threads and by its own MQTT loop thread |
| message bus and limits (`AgentMessageBus.hpp`, `AgentSubscriptionLimits.hpp`) | message count, `_limits_reached`, limits and start time | `on_message_count`, `expired`, `BusConnect` | MQTT loop thread |
| UDP worker (`AgentSubscriptionUdpWorker.*`) | queue with mutex and condition variable, termination flag; one thread per subscription | worker loop, `setTerminate` | writes to the transport of its subscription, beside the MQTT loop thread |
| UDP receiver (`UdpReceiver.*`) | internal id -> list of external ids, external id -> worker, one mutex for both | `add_worker`, `del_worker`, `add_mapping`, `del_mapping`, receive loop | pushes into the workers' queues |
| start-up (`AgentRestart.cpp`, `main.cpp`, `PidFileUtils.cpp`) | lock on the pid file | clear the device, register with retries, build the path database, serve | device, JSD |
| path validator (`PathValidator.*`) | `path_information_db` | `build_path_information_db`, `validate_path` | called by every stream, without a lock |
| counters (`Counter.hpp`) | counts, reference values, rates, a thread | `increment`, `decrement`, `reset`, `enableRate`, `disableRate`, `computeRate` | used by UDP worker and receiver |
| management daemon (`src/grpc/mgd_server/`) | the last command of each request id | `EditEphemeralConfig`, `GetEphemeralConfig` | stands for a device |
| client (`src/grpc/client/`) | `active_clients`: name -> object, with a lock that lookups do not take | `subscribe`, `unsubscribe`, listings, one thread per command | the server, by gRPC |
| JSON generation, OpenConfig translation, configuration, log, simulator | none | pure functions and output | |

What makes it hard: a subscription is touched by the thread of its own stream, by
threads that cancel it, by the MQTT loop thread and by everyone else's requests for
the same path, and over UDP by a worker and the receiver too; ids, client and
internal, are reused at once; several tables are read without their lock; device
commands fail, time out, and may be carried out although they timed out; ends of a
subscription (cancellation, limit, departure of the client) coincide. `PROJECT.json`
lists the hazards at their lines.

What makes each part correct: ids in use are distinct and none leaks; a sensor
exists exactly while a subscription wants its path and no failure disturbs the
sensor of another; every subscription is cleaned up exactly once, in an order that
no thread can misuse; a cancelled subscription is over; limits hold; a packet goes to
the clients that asked for its path, and to no worker that is ending; a serving agent
finds on the device what it provisioned and nothing of its predecessor; every thread
that must end does.

## Modules

`IdManager` holds the operators of the id manager; the bit string is the set of its
set bits. `NextId` is the first clear bit or the null id 0, `Allocate` and
`Deallocate` give the new set. Both users extend this module.

`Consolidator` is the core. A *request* is one `AgentConsolidatorHandle`, from
`addRequest` to `removeRequest`. Each call takes `_consolidator_mutex`
(`AddRequest`, `RemoveRequest`), handles its paths one by one and releases it
(`AddReturn`, `RemoveReturn`). A path is a step: `CreateShared` finds it in `sysdb`
and counts a reference; `CreateReserve` makes a new object with the next internal id
and enters it in `sysdb`; `CreateAnswer` is the device's answer, which adds the
object to the request or takes entry and id back. `DestroyShared` gives up a
reference that is not the last; `DestroyLast` gives up the last one and
`DestroyAnswer` is the answer to `systemRemove`, after which entry and id go
whatever it was. A command ends `ok`, `refused`, `unacknowledged` (carried out
although the agent saw an error) or `late`: its deadline passes, and it reaches the
device at any later time (`Arrive`), whoever has its id then. The history variable
`touched` marks the ids whose entry such a command changed last. Objects are memory: an
object nothing points to can be allocated again.

`SharedSensors` is what the comment above `AgentConsolidatorSystemHandle` promises:
a path has a sensor from its first holder to its last. `Consolidator` is shown to
implement it, with `held` the paths of the handles not yet destroyed and `sensors`
the paths of `sysdb` whose command has been answered.

`AgentServer` is the life of a subscription. A *stream* is one call of
`telemetrySubscribe` with the objects it makes. Its steps are the places another
thread can see: id allocated, subscription in the store (with `_active` as the
memory was), metadata sent, bus started, set active, wait loop left, mutex taken,
objects deleted. `_cleanupSubscription` is five steps (`CleanupBus`,
`CleanupSystem`, `CleanupStore`, `CleanupId`, `CleanupOff`) by whoever holds
`_delete_initiate_mutex`: the stream itself, or a cancelling thread, which leaves
the objects to the stream. The history variable `early` has the streams that a
cancellation found before they waited. `addRequest` and `removeRequest` are single steps here,
which the consolidator's mutex justifies; what matters of them is that
`removeRequest` deletes the handle it is given (`removals`). The module models the
build without the UDP receiver. A call on the store is one step although no lock
guards the map; an unlucky data race inside `std::map` is beyond it.

`MessageStream` is one subscription's message bus with its limits: `on_message` counts
and tests the limits (`CountMessage`), then writes if the subscription is active
(`Deliver`), while the stream's thread polls, and the clean-up may cancel it in between.
The history variables `latest` and `due` have the time of the last message and how many
had to be written. Limits are converted from `int32` to `uint64_t` (`Unsigned`, with
`Word` for 2^64), and the start time is the 0 that the constructor leaves. Its names begin with `Bus` where
`Counter`'s would be the same: `CountingProofs` is about both.

`Subscriptions` is what the server promises of its store, whichever thread ends a
subscription: it is entered under an id that no other has, leaves once, and its
object is deleted only after that. `AgentServer` is shown to implement it for
subscriptions and `UdpReceiver` for their UDP workers. Two modules use it as the
server's side of their own:

* `Listing`, the RPCs that read the store. They take no lock, so a walk is one step
  per entry (`ListAll`, `ListNext`, `ListEnd`) and `findSubscription` is two
  (`Count`, `Fetch`), with the server's steps in between. A deleted object's id is
  any number (`IdOf`), and `operator[]` of a missing id leaves a null entry
  (`nulls`). A cleanup begins with the deletion of the consolidator handle
  (`RemoveHandle`), which the listing of all subscriptions reads: one that reads a
  deleted handle has no defined end (`Dangle`). The history variable `disturbed` marks
  the listers that looked at an object when it was deleted, or whose walk met a null
  entry: the properties say what a listing promises without them, and `WalkEnds` excepts
  `Dangle` only.
* `AgentClient`, the command threads of the client. A client `c` is one object, the
  thread of its subscribe command and the server's subscription for it. `Subscribe`
  looks for the name, `Create` enters it, `Metadata`, `Refuse` or `NoMetadata` ends the
  wait for the metadata, `SetValid` and `ParseId` take the id from them in the code's order,
  `LeaveLoop`, `Finish` and `Destroy` are the end. The call may break at any time on the
  client's side only (`Break`, `broken`), and the server may enter a subscription whose
  client has given up already.
  An unsubscribe thread finds an object (`Find`), sends its id (`SendCancel`), is
  answered by the server or not (`CancelFound`, `CancelUnknown`, `CancelFails`) and
  writes `_active` (`Succeed`), to whatever is then in the object's place.

`UdpWorker` is the worker's thread with its queue, mutex `_m`, condition variable and
flag; every step of it is a place where another thread can act, the one between the
test of the flag and the wait included. `UdpReceiver` extends it with the receiver's
thread and tables, and with the branches of `telemetrySubscribe` and of the cleanup
that create and end workers. A critical section of `_udpreceiver_mutex` that holds no
other mutex is one step; the fan-out, which takes the workers' mutexes inside, is
several. `addRequest` and `removeRequest` are single steps that give each path in use
one internal id, as `SharedSensors` promises. A packet carries its number and its
internal id. Metadata and `setActive(true)` are one step, from which on a cleanup can
begin: a cancellation before the metadata are sent, and the second cleanup that follows
one before `setActive(true)` (finding 1), are left out.

`AgentRestart` has processes instead of threads: the pid lock, `systemClearAll`, the
registration loop, the path database, serving, and a crash at any step. The device
keeps one command per request id. A command is carried out and acknowledged, refused,
carried out without acknowledgement, or *late*: its deadline passes and it arrives
afterwards, or never. The device is either a Junos device, which does what the text
of a command says, or the repository's `MgdServer`, which goes by the operation code
(`simulated`, chosen in `Init`). The history variable `touched` marks the request ids
whose configuration a late command changed last; the properties exclude those, and no
others.

`PathValidator` loads a file object by object and answers validation requests of
several threads; `operator[]` is a search and an insertion, and a search while another
thread inserts may miss its path (`raced`). Frequencies are scaled:
`Unit` and `Half` stand for the 1000 and 500 of `_roundToThousandths`, `Mod` for 2^32.

`Counter` is one counter with the threads that count and manage it and its rate
threads, which end only in their sleep. `computeRate` has no lock and is four steps
(`TakeTime`, `ReadCount`, `Divide`, `TakeReference`), which a cancelled thread and its
successor can interleave. The time that passed is at least a second for a thread that
set the last time itself (`timed`), may be none after another's, and is any when nobody
has set it. The history variables `fell` and `mixed` tell the rates over a stretch in
which the counts fell, and those of threads that met another in `computeRate`, from the
others. `Mod` stands for 2^64, and byte counts, which behave like packet counts, appear
in the guard of `decrement` only.

The `MC` modules supply symmetry sets and constants that a configuration cannot write.
The `Proofs` modules hold the proofs, each of the module it is named after;
`SubscriptionsProofs` those of the two modules with the abstract server,
`AgentClient` and `Listing`, and `CountingProofs` those of the two that count,
`Counter` and `MessageStream`. Definitions whose comment
says *mutated form* are plausible mistakes in the code; each property has one that
violates it.

## Runs

| run | instance | shows |
|---|---|---|
| `consolidator` | 2 requests of up to 2 paths, 3 paths, 2 internal ids, 1 faulty or late command | the seven invariants below; `LiveRequestStable`: no step of another request moves the handles, objects or ids of one a client was told of; `SharesSensors` |
| `server` | 3 streams, 1 id, 2 cancelling threads | `StoreInv` (types, and `FoundById`: store and ids agree), `RemovedOnce`, `CallbacksSafe`, `NothingLeft`; `LateCancelSticks`: a stream that was cancelled after it began to wait stays off; `StreamEnds`: a cancelled, expired or disconnected stream returns; `ImplementsSubscriptions` |
| `server_early` | 2 streams, cancellation from the store entry on | violation of `CancelSticks` |
| `limits` | record limits -1..3, time limits -1, 0, 2 and 12, 5 messages | `LimitsRight`: limits stay in `uint64_t`; record limits are exact where no time limit can interfere, and the first message that comes when a stream has been open for its time limit finds it over (`LimitsDue`; that it nearly always is over long before is not claimed to be right); every message of a waiting stream that translates is written (`AllWritten`); `RecordLimitEnds`: a counted limit ends the stream without a further message |
| `udp` | 2 streams of one path, or of one listed twice, 2 packets | `TablesSound`: a worker in the receiver's table runs and is not told to end (`ReachableRuns`), a fan-out finds all of its workers (`FanFinds`), mappings agree with handles (`MappedExactly`); `DeliveredRight`: own ids only (`OnlyMapped`), packets in order, once per listing (`InOrder`); `PacketsReach`: no serving client misses a packet or one of its copies (`FanReachesAll`), and no worker sleeps on a packet that nobody is about to announce (`NeverStranded`); `NothingLost`: what a worker was given it writes, until it is told to end; `NothingLeft` |
| `udp_live` | 2 streams of the same path, 2 packets | `PacketsFlow`: the packets of a client that reads are written, whatever other clients do, and the receiver returns to its socket if all read; `WorkersAreSubscriptions`: streams, receiver and workers together implement `Subscriptions` |
| `udp_join` | 1 stream, 1 packet | violation of `WorkerEnds`, whose client reads |
| `listing` | 3 subscriptions, 3 ids, 1 lister | `ListingRight`: what stays is listed (`ListsExisting`), nothing twice (`WalkAdvances`); `WalkEnds`: each with the exceptions above |
| `restart` | 2 processes, 3 starts, 2 faults, 2 paths, 2 ids, 2 retries, either device | `LiveConfigured`: a serving agent's sensors are on the device; `NoStrangers`: and no others on a Junos device; `StartupInv`: who serves was registered (`RegistrationDecides`); `StartupEnds` |
| `client` | 2 clients that want 1 name, 1 server id, 1 unsubscribing thread, calls may fail on either side | `TableInv`: a name never leads to a deleted object (`TableCurrent`); `NothingLeft`: no name, and no subscription but those whose call broke; `CancelsOwn`: another's subscription is cancelled only when the own one is gone; `ClientsEnd`: a client told SUCCESS stops reading *if one more message comes*, and ends or waits in `Finish` for a server that keeps the stream (`CancelEnds`); a client whose stream the server ended ends, without a premise (`StreamsClose`) |
| `paths` | 2 threads, 3 paths, 4 files, 5 frequencies around the bounds | `AnswerRight`: answers follow the file and the nearest whole second in the range, whatever was asked before, for every frequency but 0; `DbInv`: unknown paths never become known (`DbIsFile`); `ToldIsConfigured` |
| `counter` | 2 rate threads, counts up to 2 | `CounterInv`: no count wraps, only the thread of the handle goes on (`OneThread`), and a rate is no more than the count it comes from, if time passed, the counts did not fall and no other thread was in `computeRate` (`RateSane`); `ThreadsEnd` |

The consolidator's invariants: `SysdbInv` (types, and `HandlesCurrent`: the object a
request refers to is the one `sysdb` has for its path, so `remove`, which looks the
path up again, never takes another's sensor); `RefcountExact`; `IdsAccounted` (distinct
ids, no leak); `LiveSensorConfigured` (whatever commands failed, a live path's
sensor is on the device: the orphans of failed commands do no harm, because the
next owner of an id overwrites them; a command that arrives after its deadline does,
and the ids in `touched` are excepted); `NoOrphanWithoutFault`; `NothingLeft`;
and `HolderNeverBlocks` (whoever has the mutex has a next step, so it does not wait for
itself).

Bounds. Two requests are enough for two sharers of a path and for a bystander of
either, and each can be used again; two paths per request for the same path twice and
for a partial failure, two ids for three paths to reach a full id space while two are in
use, and one fault for an orphan, or a late command, whose id is used again. In `server`, three streams on one id make the id be used again twice, and
two cancelling threads meet each other and the stream at the mutex. In `limits`, five
messages are two more than the largest record limit, and the time limits lie before and
after the time at which the stream is opened. In the `udp` runs the second stream gets
the ids the first one gave back while a packet of the first is under way, and two
packets are needed for an order, and for one to wait while another is written; two streams share a worker's mutex with the receiver,
which is the longest chain of waiting there is. In `listing`, three subscriptions are
one listed, one looked at and one ahead. In `restart`, three starts are an agent that
crashes, a competitor and a successor, and two faults an orphan and a late command;
the second retry is the last; that zero retries serve nobody unregistered is in the
theorem `StartupSound` only. In `client`, two clients share the name and the id in
turn, so that both are used again while one of them is being unsubscribed. In `paths` the frequencies lie below, between and above
the bounds, on both sides of a half, and one rounds up to the maximum. In `counter`,
two threads are the cancelled one and its successor, in `computeRate` at once or one
after the other. Named bounds: `MaxPaths`,
`MaxFaults`, `MaxTicks`, `MaxMessages`, `Requests`, `MaxPackets`, `MaxStarts`,
`Frequency`, `MaxCount`. `Opened` lies above all time limits but the last, as time
since 1970 lies above any ordinary one, and `Word` above every count reached.

Schedules left out. The `server` run assumes `EarlyCancel = FALSE`: clients cancel only
subscriptions whose stream has set itself active. `server_early` shows why: without it
`CancelSticks` fails, and the other properties of `AgentServer` with it. Only
`LateCancelSticks` does not need the assumption (theorem `CancellationSticks`).
`UdpReceiver` leaves out a cancellation before the metadata are sent, whose cleanup runs
beside the stream's own `add_mapping` loop, and the second cleanup after a cancellation
before `setActive(true)`. `Listing` does not follow an RPC that has read a deleted
handle, and `Counter` no rate of threads that met in `computeRate`.

Fairness. The consolidator needs none: `HolderNeverBlocks` is an invariant, its loops
are finite and each command has the deadline `CLIENT_CONN_TIMEOUT`.
`AgentServer!FairSpec`: weak fairness of each stream's own steps (its wait loop
polls every second) and of a cleanup under way. Weak fairness suffices for the
mutex because finitely many streams compete for it; `std::mutex` promises no more.
`MessageStream!BusFairSpec`: the stream's thread runs; messages may stop coming.
`UdpReceiver!FairSpec`: weak fairness only, of the streams' threads, of the receiver and
of the workers outside a write. A write to a client may last for ever, since gRPC fails
it when the client is gone and not when it does not read. What depends on clients says
so in the property: `ClientReads(w)` is a premise of both parts of `PacketsFlow` and of
`WorkerEnds`. The second part of `PacketsFlow` also has `SleepsSoundly`, that waits do
not return for no reason for ever, since a worker that does would take `_m` again and
again, and a weakly fair mutex need not let the receiver in. No spurious wakeup is
assumed, which is why `WorkerEnds` can fail.
`Listing!ListFairSpec`: a thread that runs an RPC goes on. `AgentRestart!FairSpec`: a
process that starts goes on, since each call of `on_startup` has a deadline; crashes
are possible and never obligatory. `AgentClient!FairSpec`: command threads go on, metadata that were sent arrive unless the call breaks, a read returns when the call is
over, and the server deletes what it removed, which is
`StreamEnds` of `AgentServer`. Nothing says that messages come: the read loop looks at
`_active` only after one, and `CancelEnds` has a message as its premise
(`MessageComes`). Users are free. `Counter!FairSpec`: a sleep ends and a computation
goes on. Deadlock is checked in the runs of `Consolidator` and `AgentServer`. It is
not in the others, where a system whose streams, starts or threads are used up has
nothing left to do; `PacketsFlow`, `WalkEnds`, `StartupEnds`, `StreamsClose` and
`ThreadsEnd` say there that what is under way comes to its end.

## Findings

Shown by a run:

1. *Cancelled too early* (`server/AgentServer.cpp:175`, run `server_early`). Between
   the store entry and `setActive(true)` a cancellation is answered SUCCESS, then
   overwritten: the stream goes on with a deleted consolidator handle and cleans up
   again at its end.
2. *Lost notification* (`server/AgentSubscriptionUdpWorker.hpp:91`, run `udp_join`).
   `setTerminate` does not take the worker's mutex; the worker can miss it, and the
   join under `_delete_initiate_mutex` never returns, so no other subscription can end
   either.

Part of the models, and the reason why a property has the exception or the premise it
has:

* a client that is connected and does not read keeps its worker in `Write` with `_m`
  held; the receiver then waits for `_m` with its own mutex held, and every stream that
  begins or ends over UDP waits for that one
  (`server/AgentSubscriptionUdpWorker.cpp:45`; `ClientReads`);
* a command past its deadline can reach the device after its id has a new owner, whose
  sensor is then removed or replaced (`server/AgentSystemProc.cpp:179`; `touched`, in
  `Consolidator` and `AgentRestart`);
* nothing calls `start()`, so time limits count from 1970, and the first message ends a
  stream with any ordinary one, where `protos/agent.proto:130` speaks of the time the
  stream remains open (`server/AgentSubscriptionLimits.hpp:27`; `LimitsDue`);
* messages up to the next poll of the wait loop are written although the record limit is
  reached, where `protos/agent.proto:127` limits the number of records sent
  (`server/AgentSubscription.cpp:137`; `AllWritten`);
* the listing of all subscriptions reads the consolidator handle of a subscription that
  is in the store, which `removeRequest` has deleted before the entry goes
  (`server/AgentServer.cpp:528`; `Dangle`);
* a listing goes on from an object that was deleted, or stops at a null entry that
  `findSubscription` made, and misses subscriptions (`server/AgentServer.cpp:359`;
  `disturbed`);
* the agent sends every command as `UPDATE_CONFIG`, and the simulated device stores all
  of them, the clear included (`src/grpc/mgd_server/MgdServer.cpp:128`; `simulated`);
* the status of a cancel call is ignored, an empty reply means SUCCESS, and the client
  waits for ever in `Finish` (`src/grpc/client/AgentClient.cpp:224`; `CancelEnds`), or in
  `Read`, if the server keeps the stream and its sensor is silent
  (`src/grpc/client/AgentClient.cpp:179`; `MessageComes`);
* the id a client remembers may have been reused, and its unsubscribe then removes
  another's subscription (`src/grpc/client/AgentClient.cpp:223`; `CancelsOwn`);
* an unsubscribe uses an object that the subscription thread may have deleted
  (`src/grpc/client/AgentClientParser.cpp:207`; `SetInactive`), and two subscribe
  commands can take one name (`src/grpc/client/AgentClient.cpp:43`; `TableCurrent`);
* `operator[]` inserts unknown paths while other threads search the map
  (`server/PathValidator.cpp:174`; `raced`);
* a frequency of 0 is raised to the minimum period, where `protos/agent.proto:120` wants
  an update on every change (`server/PathValidator.cpp:199`; `AnswerRight` leaves it
  out);
* rates after a reset or a decrement are differences below zero without a sign
  (`server/Counter.hpp:142`; `fell`). The rate thread is cancelled, not joined
  (`:65`): when rates are enabled again it may be in `computeRate` with its successor,
  subtract a newer reference than its count, or find that no time has passed and divide
  by zero (`:118-125`; `mixed`). The agent itself enables rates in the constructor only;
* when internal ids run out, `create` uses the null id as an id, and all further paths
  share `sensor_0` (`server/AgentConsolidatorSystem.cpp:52`; in `Consolidator` the
  null id is excepted from the properties of the device).

Met while reading, and not part of a property:

* a packet waits for the receiver's mutex with its internal id already read, and when
  the id has changed hands the new path's client gets it (`server/UdpReceiver.cpp:77`):
  `DeliveredRight` compares ids;
* over UDP a cancellation before the metadata are sent deletes handle and worker under
  the stream's own `add_mapping` loop (`server/AgentServer.cpp:145`);
* UDP worker and MQTT loop write to one gRPC stream, where the code's own TODO asks for
  a mutex (`server/AgentServerTransport.hpp:34`), and the worker is reachable before
  the reply with the subscription id is sent (`server/AgentServer.cpp:152`);
* rounding is not compared with the minimum again, which matters only for a minimum
  that is no whole second (`server/PathValidator.cpp:204`).

## Proofs

Every theorem holds for any number of requests, streams, clients, workers, threads,
processes, paths, ids, packets, faults and retries; where a set must be finite, or
`None` must not be a member of one, the module's assumption says so
(`ConsolidatorAssumption`, `ServerAssumption`, `ReceiverAssumption`,
`ClientAssumption`, `ListingAssumption`, `RestartAssumption`,
`ValidatorAssumption`, `CounterAssumption`, `LimitsAssumption`). None of the properties
is inductive as it stands. Each proof module therefore begins with the parts of an
inductive invariant, `IInv`, shows one lemma per action, combines them in the theorem
`Invariant` and derives the properties from it (`ClientInv` and `ListInv`,
`ClientInvariant` and `ListInvariant` in `SubscriptionsProofs`, `BusInv` and
`BusInvariant` for the message bus in `CountingProofs`).

| module | theorems | for |
|---|---|---|
| `IdManagerProofs` | `NextIdIsFree`: `NextId` is free or null, and null exactly when the space is full | a smallest id that is not 0 |
| `ConsolidatorProofs` | all invariants of the run but `HolderNeverBlocks`; `NeverUnderflows`; `LiveRequestsStable`; the refinement `ConsolidatorImplements` | |
| `AgentServerProofs` | `TypeCorrect`; `StoreAgrees`, `HandlesRemovedOnce`, `CallbacksAreSafe`, `CancellationSticks`, `EmptyInTheEnd`; the refinement `ServerImplements` | `TypeCorrect` and `CancellationSticks` for clients that cancel at any time, the others for `EarlyCancel = FALSE` |
| `UdpReceiverProofs` | `TablesStaySound`, `DeliveriesRight`, `PacketsReachAll` (from `FansReachAll` and `NoPacketStranded`), `EmptyInTheEnd`; the action property `NothingIsLost`; the refinement `WorkersImplement` | |
| `SubscriptionsProofs` | `TableStaysCurrent`, `EmptyInTheEnd`, `CancelsOnlyOwn` of the client; `ListingsRight` | |
| `AgentRestartProofs` | `StartupSound`; `AloneIsEnough`; `LockSeesToIt`, `LiveStaysConfigured`, `NoStrangersServed` | the last three for `OnBox = TRUE`: off-box agents take no pid lock, and have `AloneIsEnough` |
| `PathValidatorProofs` | `TableIsFile`; `ToldRatesConfigured`, `AnswersRight` | the last two for `WholeSecondBounds`: bounds are whole seconds with the minimum not above the maximum, as in every file of the repository and in the defaults |
| `CountingProofs` | `CounterSound` of the counter; `LimitsAreRight` of the message bus | |

The arguments:

*Consolidator.* `LockInv`: a request is at a critical program point exactly when it
has the mutex, so at most one command is under way. `ShapeInv`: what each program
point knows of its own loop (index in range, nothing left to do, entry still in
`sysdb`). `DbInv`: `sysdb` keys an object by its own path, so an object has one entry.
`CountInv`: an object in `sysdb` is being added and nobody refers to it, or is being
removed and only the remover does, or its count is the number of references and *not
zero*: that is what makes the last `decRef` the last reference. `BalanceInv`:
`_add_count - _remove_count` is the number of open requests. `RefsAppend` and
`RefsDrop` say how a step changes the set of references, with its cardinality. Ids
and device change in three actions only (`CreateReserveResource`,
`CreateAnswerResource`, `DestroyAnswerResource`); every other step starts when no
command is under way and leaves them alone (`QuietResource`). The refinement maps
every step to one of `SharedSensors` or to a stutter: what moves `sensors` is the
answer to a command, and the last holder is recognised by `CountInv`. For
`LiveSensorsConfigured`, a late command that arrives marks the id it changes, and the
mark goes with the next command the device carries out in time.

*Server.* `LockInv` ties mutex, victim, phase and program points: at most one cleanup
is under way, and a cancelling thread's victim waits. `Past` says which phases of its
cleanup a subscription has behind it; `OwnInv`, `StoredInv` and `IdsInv` say with it
what is still there: the loop thread, the handle, the store entry and the id. Since
only an active subscription gets a victim and the last phase turns it off, no cleanup
runs twice. `CancellationSticks` does without that assumption: `StickInv` speaks only of
cancelled streams that no cancellation found early, which wait, and whose bus is
stopped before they are turned off, and `StickStep` shows that nothing turns one on
again, whatever the second clean-ups of others do. `Life` then changes only when a store entry is made or erased, or the
object deleted, which is the refinement.

*UDP receiver.* Two tables, three kinds of threads. `IdInv`: the ids in use are those
of the streams under way, one each. `TableInv`: both tables of workers follow the
program points of the streams. `ThreadInv`: the worker's thread against its stream,
mutex and queue. `LoopInv` and `MapInv`: the list of an internal id has a stream's id
as often as its handle names it *so far*, as far as the loops of `add_mapping` and
`del_mapping` have come (`UpTo`), and no more often afterwards. `FanInv`: the receiver
has its mutex while it fans out, so the lists do not change and what it still has to
reach is in them. `DeliveryInv`: what a client got of the packet in hand, with what is
still to come of the fan-out, is no more than its handle allows, and every packet
delivered before has a smaller number. A first part proves what `Append`, `Tail`, `\o`
and `RemoveAll` do to counts; `RemoveAll` is a recursive function, and what it
computes follows without induction by looking at the least prefix of which it would
be wrong (`RemoveAllIs`).

That no client misses a packet needs the exact count where `DeliveryInv` has an upper
bound: `FanExact` says that what was delivered of the packet in hand and what is still
to come is what the list has, for every stream in the tables. It is inductive next to
`IInv`, because a stream that enters or leaves the tables needs the receiver's mutex,
and because `DeliveryStep` shows what any step does to a delivery: nothing, or the
packet in hand at its end, as long as the worker is not told to end. `NothingLost` is
that lemma; with `MapInv`, which makes the list the handle's for a stream that serves,
`FanExact` is `FanReachesAll`. `NeverStranded` is inductive next to `IInv` too: a
worker holds its mutex from the test that finds the queue empty until it waits, so that
a push cannot come in between (`WorkersSleepEmpty`), and a push is followed by its
notification before the receiver does anything else (`PushWakes`). The flag has no such
invariant, since it is cleared without the mutex: that is finding 2. The
refinement needs the external ids only: `IdInv` and `TableInv` show that the entry a
worker is given was free and that the one it leaves is its own.

*Client and listings.* Both have the abstract server, whose own invariant `SubInv` is
shared: the store has a subscription under its id exactly while it is stored. For the
client, `CallInv` relates an object's program point to its subscription's life, and
`CarryInv` says what an unsubscribe thread carries from step to step: the id it sends
is the one its target was given. For the listings, `NullsInv` says that null entries
are of ids the store does not have, and `WalkInv` that every subscription present from
the beginning is listed or ahead of the walk, and every listed one behind.

*Restart.* `StartInv` holds in every mode: retry counts and registration per program
point, and nothing is provisioned before serving. `AloneInv` adds `LiveConfigured` and
`CleanInv`, which carries `NoStrangers` from the clear to the serving; a step keeps it
as long as no second process runs (`OneAtATime`), in every mode, which is
`AloneIsEnough`. On-box, `LockInv` makes the process past the lock the only one
(`LockExcludes`), and the promises follow without that condition.

*Path validator.* `LoadInv`: an entry is that of the last object read for the path, or
absent or null when there is none; `ThreadInv`: a thread inserts a listed path only
after a race. The arithmetic of rounding (`RoundedIs`, `NearestIs` and the lemmas
about division) is proved separately for any `Unit`.

*Counter.* `StartedInv` and `GrowInv`: a cancelled thread was started, and between
snapshots counts only grow unless they fell. `AloneInv`: a thread in `computeRate` that
is not in `mixed` is the only one there, so that the reference it subtracts is the one
it found, and no larger than its count.

*Message bus.* `BusInv` adds to `LimitsRight` that time does not run backwards behind
`Opened` and `latest`, and that a stream is active while it waits; each message then
tests both limits with the count it has just made, and what is counted and not yet
written is the one in `handling`.

Only model-checked:

* `HolderNeverBlocks` of `Consolidator`, which is about `ENABLED`, and all liveness (`StreamEnds`,
  `RecordLimitEnds`, `PacketsFlow`, `WalkEnds`, `StartupEnds`, `ClientsEnd`,
  `ThreadsEnd`): fairness and `ENABLED` are out of the prover's reach.

Off-box, the runs check only what does not depend on the lock: `AloneIsEnough` is a
theorem and no run. Off-box agents that run at the same time have no promise at all:
they clear each other's sensors, and `OnBox = FALSE` refutes `LiveConfigured`.

## Not modelled

* Generated and vendored code, which is nearly all of the repository's roughly
  170 000 lines of implementation: the protobuf and gRPC stubs (`*.pb.cc`, `*.pb.h`,
  each kept twice, in `lib-protos` and `lib-rpc-service`), gtest, and the libraries
  under the client. They encode messages and hold no protocol of this system; the
  modules therefore map to a small share of those lines, and to most of the
  hand-written logic of the agent. The tests are read as documentation.
* JSON templates, OpenConfig translation, configuration, options, log and the Python
  simulator: text in, text out. Failure of a translation is an outcome in
  `MessageStream`.
* `getRequest`, `systemGet`, `getDataEncodings` and the statistics, which only read.
  Reading turned up two remarks that no module needs: `systemRemove` counts into
  `_add_system_count` (`server/AgentSystemProc.cpp:322`), and `GetEphemeralConfig` of
  `MgdServer` dereferences the entry of a request id it may not have.
* The client's listings, unsubscribe by id, management object and link aggregates;
  `AgentLag::reset` clears a map that stream threads use, which affects the display.
* Branches for a failed `new`, which throws; reconnection to the MQTT broker, which the
  library does.
* A cancellation over UDP before the metadata are sent, and second clean-ups there (see
  *Schedules left out*).
* Data races inside `std::map` beyond what `Listing` and `PathValidator` give them as
  outcomes: an entry missed, a null entry, any id.

## Plan

Model, runs and the proofs of the safety properties are complete. What is left:

1. A cancellation before `setActive(true)` cleans up twice, and the second clean-up can
   erase the entry of a stream that got the same id; over UDP it also runs beside the
   stream's `add_mapping` loop. Once finding 1 is fixed in the code, `EarlyCancel` and
   the assumption of `AgentServerProofs` go, and `UdpReceiver` has no schedule left out.
2. With a prover for `ENABLED` and fairness: `HolderNeverBlocks` and `PacketsFlow`, whose
   safety parts, `LockInv` and `NeverStranded`, are proved.
3. Lemmas that several proof modules state for themselves (`Distinct`, the counting of
   sequences) in one place.
