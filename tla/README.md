# PEIU Grid, specified

TLA+ models of the PEIU Grid micro-services, the TLC runs that check them and the
theorems TLAPS proves about them. Paths are relative to the repository (`src/`).

PEIU Grid runs energy storage (ESS) and photovoltaic (PV) sites. At each site a
*hub* polls a power conversion system (PCS) and its battery over Modbus TCP, keeps
the values in redis and the alarms in MySQL, and publishes both over MQTT. Data
services subscribe and store; agents send commands back; a Web API serves
operators and customers. Everything is .NET: `BackgroundService` loops, MQTT
callbacks and REST requests run as concurrent threads that share redis, MySQL
and, inside the hub, one Modbus connection.

## 1. Inventory

| Component | State | Operations | Talks to | What is hard |
|---|---|---|---|---|
| **Alarm poller** `Hubbub/ModbusToMqttService/Services/ModbusDigitalProcessingService.cs` | redis `{device}.{register}` and `{device}.{register}.{No}`; table `activeevent`; in-memory `DiMap.Value` | one loop: read a group, compare each register with redis, update its alarms in a transaction, publish | Modbus link, redis, MySQL, event publisher, and the controller through the table | redis written before the transaction, messages before the commit, swallowed exceptions, keys found again as text, acknowledgements of another thread |
| **REST controller** `Controllers/DeviceController.cs` | none of its own | EventAck, Set/GetLocalRemoteStatus, ManualControl, ReadHoldingRegister, queries | table, redis, Modbus link | lost updates against the poller |
| **Modbus link** `ModbusConnectionFactory.cs` | `TcpClient`, master | reconnect, read analog/digital, write | the device; shared by four callers | concurrent reconnects, connected but no master yet, busy waiting |
| **Analog poller** `Services/ModbusBackgroundService.cs` | next poll time of each group; redis hash of the device | read, store, publish | link, redis, brokers | an exception ends it; fallback between brokers |
| **Control subscriber** `ControlSubscribeWorker.cs` | none | write the registers of a control message | MQTT, link | writes beside reads |
| **ETRI command agent** `Hubbub/EtriCommandAgent` | date of the last command (memory only) | loop: read the command, check SOC and mode of four PCSs, limit by PV, publish; otherwise protect low batteries | view `vw_currentcommand`, redis, MQTT to the control subscriber | check-then-act over awaits, restart, no retry, signed powers in an unsigned word |
| **Work queues** `DataCollectorLib/BackgroundTaskQueue.cs`, `DaegunMQTTSubscribe/PacketQueue.cs`, `DaegunHub/MongoBackgroundTaskQueue.cs` | concurrent queue, semaphore | enqueue + release; wait + dequeue | MQTT callback to worker loop | two primitives kept in step without a lock |
| **Packet store** `DaegunMQTTSubscribe` | none beyond its queue | take a packet, publish it three times (`ConsumeDataService`) | queue, MQTT | an exception ends the loop; the store beside it (`MongoBackgroundHostService`) is excluded from the build |
| **Cassandra collector** `CentralizeDataCollector` | list of insert tasks | batch of inserts | queue, Cassandra | partial failure, shutdown with a batch open |
| **Event recorder** `DataService/EventTranslator` | `DeviceEvent` rows | recover and record summaries | queue, MySQL | key probed in one table and inserted in another |
| **Event publisher / subscriber** `Event/*` | event records, redis map | publish, record, recover | alarm poller, MQTT, redis, MySQL | at-least-once messages, records found by code alone; does not compile at this commit |
| **EventPusher** `EventPusher/` | LMDB value per register | edge detection | MQTT | value stored before publishing |
| **Web API** `WebApiService` | accounts, groups, roles, contractor rows | sign-on of three types, approval, login, password reset; queries, acknowledgement | MySQL, mail, redis | several saves in one request, requests that overlap or end between them |
| **Map-reduce statistics** `MapReducingService` | MongoDB result collection | a timer starts a map-reduce, merged into the results | MongoDB, two JavaScript functions per task | reduced values are reduced again; runs overlap; a document the map function cannot read |
| **Form validation script** `CSVPublisher/wwwroot/lib/jquery-validation-unobtrusive` (and the same text in `DaegunHub`) | rules by input, validator, what the page shows | parse, check, submit, reset, remote answers | jquery.validate, the page | answers that come late, inputs that come late, settings that are copied once |
| **Daegun hub, web pusher, relays** | little | forward what they receive | MQTT, SignalR, Mongo | pure I/O |
| GUI, exports, entity classes, migrations, other vendored scripts | - | - | - | not logic of the system |

Properties that make each correct: the **alarm poller** must keep the table, the
Status fields, redis and the bus telling the same story; the **link** must never
hand out a dead master, and must come back; the **agent** must send each command
once, in order, in its direction and within the limits; a **queue** must be a FIFO
without lost wake-ups; the **accounts** must keep account, role, group and row
together and let in exactly who was approved; the **statistics** must not say more
than was metered and must come to stand on all measurements; the **script** must
not post what the attributes refuse, and must show what is wrong and nothing else;
the **recorders** must keep one open record per alarm.

`PROJECT.json` lists the components with their status and the hazards, each at
its line.

## 2. Modules

```
EventIds          keys of activeevent and the query over them (operators)
  DigitalEvents   alarm poller + acknowledgement (state machine)
    MCDigitalEvents, MCDigitalNumbers      instances for TLC
    DigitalEventsProofs (uses EventIdsProofs)
TaskQueue         the queue with its semaphore;  INSTANCE Fifo (abstract queue)
    TaskQueueProofs
CommandAgent      the command agent
    MCCommandAgent,  CommandAgentProofs
ModbusLink        the shared connection and its callers
    MCModbusLink,  ModbusLinkProofs
SiteStatistics    timer, runs, map and reduce functions
    MCSiteStatistics,  SiteStatisticsProofs
FormValidation    the script and the validator it drives
    MCFormValidation,  FormValidationProofs
Accounts          sign-on, approval, login, password reset
    MCAccounts,  AccountsProofs
```

Definitions named `X_Y` under a comment that begins with "Mutant" are plausible
bugs of `X`. They are used by no specification: replacing `X` by one of them has to
break the property `PROJECT.json` lists beside it, which shows that the property
says something about the code.

### DigitalEvents and EventIds

*State.* `value` is the device; `shadow` is what the last read left in the `DiMap`
objects; `redis`, `status` are the two kinds of redis keys; `table` is the committed
`activeevent`; `view` and `dirty` are the open NHibernate session and transaction
(its snapshot with its own writes, and the rows it has written); `pc`, `groups`,
`todo`, `flags` say where the nested loops stand; `announced` is the last status on
the bus; `ack` is an acknowledgement between its read and its commit. `aborted`
and `reopened` are history for the properties.

A register's value is the set of its flags whose bits are set; bits without a flag
do not matter. A row is absent, open (`HasRecovered` false) or recovered, and
acknowledged or not. Groups that are disabled are left out of `Groups`.

*Actions.*

| Action | Code (`ModbusDigitalProcessingService` unless said) |
|---|---|
| `ReadModbusEvent`, `ReadNothing` | 122-126, `ModbusConnectionFactory.ReadModbusEvent`; the second is its return without a master |
| `SkipMap`, `StoreValue` | 135-155: disabled or unchanged; otherwise redis is written and the transaction begins (159-168) |
| `SilentFlag`, `NoEvent`, `NewEvent`, `AlreadyEvent`, `RecoverEvent` | one pass of the flag loop 169-241, one for each outcome; all of them set the Status field (`VisitFlag`) |
| `Commit`, `GroupDone`, `NextCycle` | 242, the ends of the loops, 258 |
| `Exception` | 252: anything thrown by the link, redis, the database or the broker; the transaction is rolled back, the loop starts over |
| `Crash` | the process with its REST requests dies and starts again |
| `AckRead`, `AckCommit` | `DeviceController.EventAck` 78 and 85 |
| `DeviceChanges` | the device (external) |

Why these steps: the database runs both transactions from a snapshot and takes
row locks as it writes, so what an acknowledgement can observe or disturb changes
only at the poller's begin, at its writes and at its commit. `Activeevent.hbm.xml`
has neither `dynamic-update` nor a version, so an update writes all columns: hence
`Commit` and `AckCommit` replace whole rows. `AckCommit` waits while the poller
holds one of its rows. The messages leave the process at once (no outbox), so
`Publish` takes effect with the flag, before `Commit`.

*Keys.* A flag's first row is `{device}{register}{No}`, its k-th re-occurrence
`..._{k}`; `EventIds` writes them as sequences of digits and defines the LIKE and
the ORDER BY of `GetLatestActiveEventAsync` on them. Where the collation puts the
underscore is a constant.

### TaskQueue and Fifo

`QueueWorkItem` is `Enqueue` then `Release`; `DequeueAsync` is `CallDequeue`,
`Acquire` (the end of `WaitAsync`) and `TryDequeue`, which returns `default(T)` on an
empty queue; `PublishAsync` is what the loop does with the item, of which an exception
ends the loop for good (`ConsumeDataService.cs:46`); `Cancel`, `WaitCancelled` and
`ThrowIfCancelled` are the host's stop. `Fifo` is the promise: items come out in the order
they went in, each once, and nothing else.

### CommandAgent

One action per await of `Worker.ExecuteAsync` and the methods it calls:
`ReadCommand`/`NoCommand`, `ReadSoc`, `CheckMode`, `Withhold`, `ReadPv`, `Publish`, and
`ProtectMode`, `ProtectSoc`, `ProtectSend`. `SendFails` is the inner catch, `RoundFails`
the outer one, `Restart` a new process, which has forgotten the date. The hub and
the energy manager change what the agent reads at any time (`HubReads`,
`SetLocalRemoteStatus`, `PlaceCommand`). A state of charge is its position among the
limits: below the minimum, at it, inside, at the maximum, or unknown (all fields
missing, which read 0). Powers are integers; the word is `power * 10` modulo 2^16,
which is what the code's `(ushort)` does to a negative float on the platform it runs
on (unchecked, through a 32-bit integer).

Two hashes hold a mode: `hubMode` is where the hub writes it, `agentMode` where the
agent reads it; `Keyed` is the set of PCSs for which somebody writes the second.
In the repository nobody does (`Keyed = {}`); the other runs take the deployment in
which an operator does, since otherwise nothing would ever be sent.

### ModbusLink

The factory has two fields, `tcpClient` and `master`, and no lock that anyone takes
(`lockerObj` only keeps one analog read from another's exchange,
`ModbusConnectionFactory.cs:177`). Each read and each assignment of a field by
`ReconnectWhenDisconnected` and `TryConnectModbus` is therefore an action: `IsNull` and
`IsDown` are the two halves of the condition of line 377, `Recheck` is line 381, and
`Test`, `Dispose`, `Clear`, `Connect`, `Create`, `Assign` are lines 407 to 418 one after
the other. A field another caller has cleared in between makes the access throw;
where that exception is caught decides between `TriesAgain` and `ReturnsFalse`.

A `Kind` says what a caller does with the master: the alarm poller reads group after
group; the analog poller is over (`dead`) when it finds none, since
`ReadModbusToJson` then returns an object without the name that
`ModbusBackgroundService` asks of it at line 106, and also when the save in redis after a
good read throws, which nothing catches (`Store`, line 103); a request is a control message or a REST
call. `Reconnects` is 2 for the REST calls, which reconnect and then call a method
that reconnects again. A `TcpClient` is "broken" when its peer has gone and nobody has
noticed: `Connected` stays true until an exchange fails. `StopMaster` and `StopClient` are
the host's disposal, after which the pollers go on (their token is not cancelled).

### SiteStatistics

`DoMapreduce` is a timer's callback, `Map` the map function on the next document, `Finish`
and `Merge` what MongoDB does at the end, `Spill` what it may do at any time: reduce what it
has of every key. The values are records of the fields the three pairs of functions
use; the names a function returns are fields of their own, so that `SiteReduce` returns
values without power and status, as `statBySite_Reduce.js` does. `NaN` stands for everything
that is no number. Amounts are integers that 3600 (`PerHour`) divides as often as they
are reduced. The configuration runs `statBySite` alone; `statByWhole` is commented out of
it, and the example's pair is run once by its own `Main`, hence `stopped'` in
`DoMapreduce`. `passes`, `covers` and `overlapped` are history.

### FormValidation

The script hands rules to jquery.validate; both are modelled as far as the script
reaches. `options` is `validationInfo(form).options.rules`, `settings` the validator's own deep
copy, made at the first attach (`Defined`: the copy drops undefined parameters). `Adapters`
are the seventeen in the order they are registered. The rules of an input are a function
from methods to records: the `place` of the first adapter that sets the method, since a
JavaScript object keeps the order of insertion, and the `param` of the last. `Check` is
the validator's loop over them, in which `required` and `remote` have moved to the ends
(`Turn`), so that `First` is the rule that decides; its outcomes are those of a JavaScript
method: pass, fail, "dependency-mismatch", "pending", or an exception when a rule
has no method (`creditcard` and what `extension` turns into have none in this version).
`FormState` is the rest of the validator and what the page shows. The submit event, the
validation that Ajax asks for, leaving an input, a reset and a remote answer each run to
their end, as JavaScript does; `Answer` includes the second check and the second
submit event that `stopRequest` raises. `Elements` are the inputs such a check asks: those
with rules that are neither hidden nor disabled (`aside`, which the page's own scripts change,
`SetAside`). A button with class `cancel` or `formnovalidate` sets `cancelSubmit`
(`ClickCancel`), and the next submit event lets the form out unchecked (`SubmitCancelled`,
or the one that `Answer` raises); that this one need not belong to the click is why the
two are steps of their own. A check that throws has shown nothing but may have begun the
requests of the inputs before (`Begun`). Texts are lengths, counts and classes; `Conforms`
decides for the methods that look at characters.

### Accounts

A request is at one of its awaits (`Phases`). The handlers and the `UserManager` share
the request's `DbContext`, so a save writes everything that was added before: `Insert`
(`CreateAsync`) saves the account and a new group at once, and `AddToRole` saves the role
and a contractor's row at once, because `SignonContractor` adds the row before line 491
while the other two add theirs after. `stamp` is Identity's ConcurrencyStamp: a save of
an account that was changed in between fails, and what was to be saved stays in the
context (`dirty`). A password reset reads the account (`ResetPassword`) and writes all of it
back (`SavePassword`), guarded by the stamp; the approval (`SaveStatus`) compares the stamp
too but does not change it, so that a reset which has read the account before it does
not notice. The login asks whether the account is confirmed (`OldLogin`) and then, from
the account as it is by then, makes the token (`SignIn`). `activated`, `overlapped`,
`signedIn`, `cutShort` and `raced` are history. `Abort` ends a request at any await. `ConfirmByHand` is there because no
handler confirms an aggregator or a supervisor.

## 3. Runs

| Run | Instance | Shows |
|---|---|---|
| `digital_events` | 2 groups, 3 registers, 4 flags, one register with Level 0, one flag without event code; 4 device changes, 1 fault, 1 acknowledgement, 3 occurrences per flag; 561,636 states | `TypeOK`, `TableFollowsRedis`, `StatusFollowsRedis`, `OnlyNewestOpen`, `AnnouncedBeforeRecorded`, `AnnouncedMatches`, `RowsOnlyAdvance`, `AckLostOnlyToRecovery` |
| `digital_liveness` | the same with 3 changes and the register `ctl` disabled; 76,387 states | `EventuallyRecorded`, `EventuallyRecovered` |
| `digital_numbers` | flags 1 and 10 of register 40132; expects a violation | `SetFlagHasOwnRow` fails: see 6 |
| `task_queue` | 2 producers, 2 consumers, 3 items; 4,217 states | `TypeOK`, `PermitsCovered`, `ImplementsFifo`, `EveryItemReturned` |
| `command_agent` | 2 PCSs, 2 commands, 1 change of a reading, 1 exception, 1 restart; about 3 million states | `TypeOK`, `SentOncePerLife`, `CommandsInOrder`, `DirectionKept`, `SentWithinLimits` |
| `command_liveness` | 2 PCSs, 2 commands, 1 change, 1 exception, 1 restart; 167,930 states | `CommandArrives` |
| `protection_runs` | 1 PCS, no command, the mode where the hub keeps it; expects a violation | `ProtectionRuns` fails: see 6 |
| `protection_charges` | 1 PCS; expects a violation | `ProtectionCharges` fails: see 6 |
| `modbus_link` | both pollers, 3 connections, 1 loss; 631,522 states | `TypeOK`, `MasterFollowsClient`, `OneOpenSocket`, `TrueMeansMaster`, `AnalogOutlivesFirstMaster`, `Recovers` |
| `site_statistics` | the 3 tasks, 2 runs, 3 documents of 2 sites, 1 failure; 242,733 states | `TypeOK`, `ExactInOnePass`, `CountExact`, `NeverOverstated`, `FreshWhenAlone`, `EventuallyCovered` |
| `form_validation` | 5 documents of up to 3 inputs, 3 values, 1 failed request; 491,231 states | `TypeOK`, `PostedIsValid`, `ShownAgrees` |
| `accounts` | 2 addresses, 1 name, 2 groups, 2 statuses, 2 requests, 1 password reset; 1,688,645 states | `TypeOK`, `RoleHasRow`, `NoOrphanGroup`, `TwinsWereRaced`, `ConfirmedIffActivated` |

*Bounds.* `MaxChanges`, `MaxFaults`, `MaxAcks`, `MaxItems`, `MaxCommands`, `MaxWrites`,
`MaxCrashes` bound the environment, never the program. Four changes of the device
are raise, recover, raise again and recover again of one flag, or two flags of a
register at once and one elsewhere; a fault can fall in any of them, and the
acknowledgement may lie across any. Three occurrences of a flag reach the bare key
and two numbered ones, after which nothing new happens to the keys until the
eleventh re-occurrence; the theorems take over there. When a flag has used up
`MaxInst` the poller could not find a free key; four changes make two occurrences at
most, so the bound is never met. Two PCSs show what one PCS does to the next
(the code has four, treated alike); two commands are needed for an old and a
new one.

In `modbus_link` two callers are what an overlap takes, and three connections are
one in each field and one being made. The requests are left to the proofs: they
hold for any number of callers of each kind. `TryCount` is 0 there (3 in the code);
attempts are alike, and only their number differs. In `site_statistics` three
documents are two that are reduced early and one that comes on top. The five
documents of `form_validation` are: a registration with a remote check and a button that
cancels; a remote check with further inputs, one of them late; an `equalto` whose target
comes late; one whose inputs are all loaded later, a checkbox among them; and one in
which two attributes set one rule and another's rule has no method, beside a remote
check. In all but the first one input may be hidden or disabled at any time. In
`accounts` the two groups allow two of one name; two requests overlap in every pair of
phases, and addresses, groups and requests are symmetric. Of the contract statuses the
code looks for "Activating" alone, so that one other stands for the rest.

*Deadlock* is checked except in `task_queue`, where a stopped host or exceptions end the
consumers and the producers reach `MaxItems`; in `site_statistics`, where the timers
are stopped for good; and in `form_validation`, where a post leaves the page.

## 4. Fairness

- `digital_liveness`: weak fairness of `Poll` (the loop has no exit but the token, and
  each await comes back) and of `AckCommit` (the request goes on; the row it waits
  for is unlocked when the poller's transaction ends, which `Poll` ensures). Faults
  are bounded: an exception that recurs in every cycle does starve the later groups,
  and the properties are not claimed for it.
- `task_queue`: weak fairness of `Release` for each producer (the line after `Enqueue`)
  and of each consumer's loop until it ends, as it may at every item: the fairness says that
  what the loop awaits comes back, with an exception or without. `EveryItemReturned`
  promises nothing once every loop has ended; the code starts one. No fairness of producers' arrivals or of `Cancel`.
- `command_liveness`, `protection_runs`: weak fairness of `Agent`, the loop.
- `modbus_link`: weak fairness of each caller's steps (threads of their own) and of a
  poller's next cycle, of the device's return and of the finalizer of an unreferenced
  `TcpClient`. Nobody has to send a request or stop the host.
- `site_statistics`: weak fairness of the timer's callback for each run, and of a run that
  has started. Documents need not come and MongoDB need not reduce early.

Without these assumptions the liveness properties fail by stuttering.

## 5. Proofs

TLAPS proves every safety invariant and action property that the passing runs check, for
all values of the constants that satisfy the named assumptions (`IdAssumption`,
`HubAssumption`, `QueueAssumption`, `AgentAssumption`, `LinkAssumption`, `AccountsAssumption`,
`StatisticsAssumption`, `FormAssumption`, `AttributeAssumption`, `MethodAssumption`, and
the two `NoneAssumption`s, which say that undefined and null are none of the values). Two
conditions are hypotheses of theorems instead: `KeysInOrder` and `NonNegative`.

**DigitalEventsProofs.** `TypeCorrect`; then `Invariance`: `IInv` is inductive. It has four
parts: `LoopInv` (an open transaction belongs to a register of the group at hand,
whose value redis already has, and the flags left belong to it), `TxnInv` (the view
agrees with the table outside the rows written, apart from acknowledgements, and a
written row is a new one or a recovered one), `AckInv` (a pending
acknowledgement read rows that exist; absent rows are not acknowledged) and `RowsInv`
(the occurrences of a flag are 0..n without a gap, and only the newest is open,
in the table and in the view). `TableFollowsRedis` by itself is not inductive: that
the newest row is the one the query finds depends on the shape of all rows, and
what a commit makes true must already hold in the transaction's view for the
flags visited. So each property adds its own half about the open transaction:
`FollowInv`, `StatusInv`, `PublishedInv`, `MatchInv`. Steps are first sorted into kinds
(`StepKinds`: quiet, store, visit of a flag, commit, fault, acknowledgement), and each
lemma treats one kind.

The theorems about rows assume `KeysInOrder`: no key search leaves its flag and the
text order of a flag's keys is the order of their numbers. **EventIdsProofs** says
when that holds: `OneDigitInOrder` (up to ten re-occurrences), `TwoDigitsOutOfOrder`
(never with more) and `PrefixFreeNumbers` (exactly when no flag's digits begin with
another's); `SchemeHolds` puts them together. `StatusFollows` needs neither.

**TaskQueueProofs.** `PermitsAreCovered` (the count of items is the count of permits,
signalled consumers and releasing producers) is what makes the unchecked
`TryDequeue` safe; with `OrderIsKept` it gives `NothingIsNeverReturned` and the
refinement `Implements`: every step is a `Put`, a `Get` or a stutter of `Fifo`.

**CommandAgentProofs.** `SentOnce` and `InOrder` rest on counting (`OnceInv`: the
current command has been sent in this life only to the PCSs the loop has passed)
and on dates (`OrderInv`: nothing later than the command at hand was ever sent). `Direction` uses lemmas about the 16-bit word and
about the PV limit, for powers between -200 and 200. `WithinLimits` says that a
PCS's entry of `ValidSocs` still tells the truth unless a reading changed
(`LimitsInv`).

**ModbusLinkProofs.** The properties of callers that do not overlap are inductive only
together with where the one caller inside `TryConnectModbus` stands (`LinkInv`): which
of the two fields it has already cleared or set, and that what it holds is what the
field holds. `CallInv` and `TypeInv` say what a caller at each place holds.
`AnalogOutlives` needs no such condition: no line ever clears `master`, so that the poller
can end with a master only at its save in redis (`Store`).

**SiteStatisticsProofs.** `Fresh` is about what a run has read: documents
are only ever appended, a run's position never passes a document without its Pcs or Pv,
and without overlap there is one run, which began no earlier than the one whose result
it replaces. `TypeCorrect`, `ExactOnce`, `CountsExact` and `NeverTooMuch` are about sums over
what a run has read, folds over data. The library's induction theorems cannot be used
for them, so induction is stated over sets: `NatInduct` for a subset of the naturals with 0
and successors, `FiniteInduct` for a set of finite sets, from the well-ordering of the
naturals. With it `SummedBy` unfolds the fold, whichever element its CHOOSE takes first:
`SummedEmpty` and `SummedAdds` are all the rest needs of it. A result by itself says nothing about a value that is
to be reduced again, so the inductive invariant `SoundInv` speaks of every key of every run
(`Sound`) and every result (`Faithful`): as long as nothing is reduced, what the reduce
function will take is what the measurements say (`Raw`); the count is right however often
it was reduced (`Counted`); and the rest only shrinks (`Within`, `AtMost`).
`ReduceGives` and `MapGives` say the same of all three pairs of functions, and `Stable` that
documents which arrive later change none of it. `NeverTooMuch` assumes `NonNegative`, that no
measurement has a power below zero; a negative charge that is divided again does grow.

**FormValidationProofs.** `PostedIsValid` and `ShownAgrees` judge by the attributes, the
script by the rules it made of them. `AdapterAgrees`, with a lemma for each kind of adapter,
closes the gap: what an attribute asks is what the rules its adapter sets ask.
`CheckIs` concludes that the check of an input the script can follow fails exactly when the
attributes ask for something else, and is otherwise what is known of the remote answer; it
needs that one of finitely many rules comes first (`LeastOne`, `BadRule`). Neither property
is inductive, as neither speaks of the rules or the answers a later check uses.
`Inv` adds them: `RulesInv` (what is parsed and what the validator has copied are the rules
of the document now, which for inputs that can be followed never change once parsed:
`RulesStay`), `Answered` (a kept answer is what the address says of the value it was
asked for; a reset unbinds the requests under way and forgets what they asked) and, in `Shape`,
that only inputs the validator has rules for are pending, so that an answer finds a
validator. `ChecksAre` says that checks keep all this and tell the truth of what they
check, `FormChecked` that what was fresh before and is not asked, being hidden or disabled,
stays right, and `BegunIs` the same of a check that throws; `ReceivedIs` the same of an answer, which may check and send the form again.

**AccountsProofs.** `Inv` adds to the properties what a request holds phase by phase
(`SignsOn`: a contractor's group is known from `SignonContractor` on, the account it made has
its type; `Acts`: what an approval waits to save, and that a reset whose stamp is still good
and which read the account as unconfirmed is one that `overlapped` names once it is
activated), that one request at most signs an account on (`OneSignOn`), that whoever is going
to save a group of a name nobody raced for is alone and there is none yet (`OneMaker`), and
what a contractor's row implies (`RowsHold`). The tables only grow (`Grows`), which keeps what the *other* requests
hold (`OthersHold`); steps that change one request only are `RequestStep`. `NoneAssumption`
says that null is no row.

*Only model-checked:* all liveness (`EventuallyRecorded`, `EventuallyRecovered`,
`EveryItemReturned`, `CommandArrives`, `Recovers`, `EventuallyCovered`), since the prover does
not handle fairness, and the three expected violations.

## 6. What the models show about the code

Holds, with the exceptions the properties spell out:

- Outside its transaction, a register's newest rows and Status fields say what
  *redis* says, except after a rollback of its last transaction: redis was written
  first, the next cycle finds no difference, and the alarm is missing (or stays
  open) until the register changes again. `EventuallyRecorded` and
  `EventuallyRecovered` carry the same exception.
- An alarm is never recorded without having been announced, but may be announced
  without being recorded. Only the first occurrence is announced as `New`; later
  ones are recorded in silence while their recoveries are announced.
- An acknowledgement and a recovery that overlap lose one of the two, in either
  order; nothing else reopens a row or takes an acknowledgement back.
- The agent repeats a command after a restart and only then; one that a limit,
  manual mode, an exception or a restart has held back is not tried again. For PV
  powers above 94 the limit turns a discharge into a charge. Its SOC limits stop a
  positive power at the maximum and a negative one at the minimum, although by its
  comments positive is discharge.

- Reconnections that do not overlap keep the two fields of the link together. Two that
  do overlap may leave a connected `TcpClient` beside the master of another connection
  (`Crossed`): every check then sees it connected, every exchange fails, and only the
  device's next drop-out or the host's end resolves it. They may also dispose each
  other's connections over and over, which the ten seconds between attempts make
  unlikely; `Recovers` names both. The lines that would clear the master after a
  disposal are commented out, and rightly: with them, a reconnection could end the
  analog poller at any time, and now only the first can (mutant `Clear_Master`).
- `ManualControl` answers Ok also when `WriteMultipleRegistersAsync` has returned false
  (`DeviceController.cs:136`).
- A statistic is exact when MongoDB has reduced it once. What is reduced again loses
  its earlier part (`statBySite`) or is divided by 3600 again (`statByWhole`); the count of
  `statByWhole` stays right. One document without `Pcs` or `Pv` ends every later run. Overlapping
  runs may put older statistics in the place of newer ones until the next run ends.
- Of what the submit event or Ajax lets out as valid, every input of the first parse that
  is neither hidden nor disabled is as its attributes ask. A button with class `cancel` or
  `formnovalidate` lets the next submit event out unchecked, also one that does not
  belong to the click: when the page keeps the click from submitting, `cancelSubmit`
  waits (`jquery.validate.js:101`). `Followed` spells out the other exceptions: attributes
  whose rule has no method (`creditcard`, `extension`, `fileextensions`) throw, and the browser
  posts the form unchecked; an `equalto` whose other input comes later has no effect;
  of two attributes that set one rule, the later registered wins, also when it is the
  looser one. Ajax does not wait for remote answers.
- Inputs parsed after the first attach are never checked: the validator keeps its own
  copy of the rules, although `parse` says it "enables validation" of what it finds
  (`jquery.validate.unobtrusive.js:226`).
- A remote request that fails leaves the form waiting for good. A submission that
  waits survives a reset and a failed check, so that a later answer may post the form
  once more without a click; what it posts is valid.
- A contractor's role and row are saved together. Aggregators and supervisors get
  theirs in a later save: a sign-on that ends before it leaves an account without its
  row whose address is taken for good. Two sign-ons at a time can make two groups of
  one name, and nothing else can. An aggregator's sign-on that ends between its first save
  and its last leaves a group nobody belongs to; one whose account is refused leaves
  none. The mail of welcome goes out before the approval is saved. A later status does not
  take the confirmation back, but a password reset that has read the account before the
  approval and saves it after does: the row then says Activating and the contractor
  cannot sign in until it is approved again.

Disagreements (runs that expect a violation):

- `digital_numbers`: the query for the newest row of flag No 1 of register 40132 also
  matches No 10, 11 and 12.
- `protection_runs`: the agent reads the mode from `JeJuGridPcs{n}`, the hub writes it to
  `6.JeJuGridPcs{n}`; the SOC protection never acts.
- `protection_charges`: the protection's "charge command" is +10, a discharge by the
  file's own comments.

## 7. Not modelled, and why

Time (poll intervals, the ten seconds between reconnects, `UpdatePeriod.Milliseconds`,
which is 0 for one second): a step may follow at once or later. The contents of
messages and rows beyond what the properties tell apart. The transport (MQTT
QoS, redis, MySQL and MongoDB themselves): external. Failures of a commit whose outcome
the client does not learn. The GUI, exports, entity classes, generated migrations and
the other vendored scripts hold no logic of the system. The Event projects do not
compile at this commit; `Publish` is taken from the poller's calls. Of
`DaegunMQTTSubscribe`, the batch store and its subscriber are excluded from the build.

In part: the poll times of the analog poller and its fallback between brokers keep
no state that others see. The order of a group's registers (a disabled register
shifts the ones after it, `ModbusConnectionFactory.cs:204`) belongs to the contents of
messages. Of the accounts, temporary sites and their conversion (`ContractorController`) are
left out: `ConnectSiteToCustomer` builds a `BadRequest`, drops it and goes on with null.
Of the script: message texts, rules from other
attributes than `data-val-*`, and a lone bound of a range, which is compared as text.

Left out for its size: the event recorder and the Cassandra batch, whose worker ends
with the first insert that fails.

## 8. Plan

1. *Done:* EventIds, DigitalEvents, TaskQueue with Fifo, CommandAgent, ModbusLink,
   SiteStatistics, FormValidation, Accounts, their runs, and the proofs of every
   safety property these check.
2. **EventRecorder**: keys looked for in one table and inserted in another, dropped
   summaries; behind TaskQueue.
3. **InsertBatch** of the Cassandra collector: partial failure and shutdown with a batch
   open.
4. **Sites** beside Accounts: from a temporary site to a contractor's.
5. Pure operators: the decoding of a group's words with disabled registers.
