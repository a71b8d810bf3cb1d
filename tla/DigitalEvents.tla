---------------------------- MODULE DigitalEvents ----------------------------
(***************************************************************************)
(* The hub's alarm poller (ModbusDigitalProcessingService) beside the      *)
(* operator's acknowledgement (DeviceController.EventAck).                 *)
(*                                                                         *)
(* The poller reads the digital registers of a device group by group.  A   *)
(* register whose value differs from the one in redis is stored in redis   *)
(* first; then, in one database transaction, every flag of the register is *)
(* compared with the newest row of its alarm, which is inserted, recovered *)
(* or left alone, and the change is published over MQTT before the         *)
(* transaction commits.  Any exception is swallowed and the cycle starts   *)
(* again; the process may also die.  An acknowledgement is a transaction   *)
(* of another thread, which writes every column of the rows it has read.   *)
(***************************************************************************)
EXTENDS EventIds, FiniteSets

CONSTANTS
    Maps,         \* the DI_MAP registers
    Groups,       \* the polling groups: a sequence of sequences of registers
    FlagSeq,      \* FlagSeq[m]: the flags of register m, in the order they are visited
    Disabled,     \* the registers with DI_MAP.Disable set
    Silent,       \* the registers whose Level is 0: status only, no alarm
    Mapped,       \* the flags with an event code in eventmap.csv: only these are published
    MaxChanges,   \* bound: register writes by the device
    MaxFaults,    \* bound: exceptions, crashes and reads without a master
    MaxAcks       \* bound: acknowledgement requests

\* The configuration: a flag stands in one register.
ASSUME HubAssumption ==
    /\ Groups \in Seq(Seq(Maps))
    /\ FlagSeq \in [Maps -> Seq(Flags)]
    /\ \A m1, m2 \in Maps :
          \A i \in DOMAIN FlagSeq[m1], j \in DOMAIN FlagSeq[m2] :
              FlagSeq[m1][i] = FlagSeq[m2][j] => m1 = m2
    /\ Mapped \subseteq Flags

VARIABLES
    value,        \* the device: value[m], the set of flags whose bit is set
    shadow,       \* DiMap.Value, the values the last read left in memory
    redis,        \* redis string {device}.{register}
    status,       \* redis hash field {device}.{register}.{No} Status
    table,        \* the committed rows of activeevent
    view,         \* the open transaction: its snapshot with its own writes
    dirty,        \* the rows the open transaction has written
    pc,           \* where the poller's loop stands
    groups,       \* the groups this cycle has not read yet
    todo,         \* the registers of the group read that are still to be looked at
    flags,        \* the flags of Head(todo) still to be visited
    announced,    \* the last status published for the flag's event code
    ack,          \* the rows a pending acknowledgement has read
    changes, faults, acks,
    aborted,      \* history: registers whose last transaction was rolled back
    reopened      \* history: rows an acknowledgement set back to not recovered

device == <<value, changes>>
link == <<shadow, groups, todo, flags>>
txn == <<view, dirty>>
vars == <<value, shadow, redis, status, table, view, dirty, pc, groups, todo, flags,
          announced, ack, changes, faults, acks, aborted, reopened>>

FlagsOf(m) == {FlagSeq[m][i] : i \in DOMAIN FlagSeq[m]}
MapsOf(g) == {g[i] : i \in DOMAIN g}
Watched == {m \in Maps : m \notin Disabled /\ m \notin Silent}

Row == [state : {"absent", "open", "recovered"}, acked : BOOLEAN]
Absent == [state |-> "absent", acked |-> FALSE]
NewRow == [state |-> "open", acked |-> FALSE]
NoView == [id \in Ids |-> Absent]
NoAck == [id \in {} |-> Absent]

Exists(t, id) == t[id].state # "absent"
IsOpen(t, id) == t[id].state = "open"

-----------------------------------------------------------------------------
(* Looking a flag's rows up by text.                                       *)

Found(t, f) == {id \in Matching[f] : Exists(t, id)}

\* Mutant: ORDER BY EventId without DESC.
Latest_Asc(t, f) ==
    {id \in Found(t, f) : \A other \in Found(t, f) : other = id \/ id \in Before[other]}

\* GetLatestActiveEventAsync: the last of the rows found, or none (null).
Latest(t, f) ==
    {id \in Found(t, f) : \A other \in Found(t, f) : other = id \/ other \in Before[id]}

\* Mutant: the first row itself is passed over.
Walk_SkipsFirst(t, id) ==
    {<<id[1], n>> : n \in {k \in Inst \ {0} : \A j \in 0..k : Exists(t, <<id[1], j>>)}}

\* The rows RecoversEvent visits from id: {id}, {id}_0, {id}_1, ... up to the
\* first that is missing.  Only a bare key has such successors.
Walk(t, id) ==
    IF id[2] = 0
    THEN {<<id[1], n>> : n \in {k \in Inst : \A j \in 0..k : Exists(t, <<id[1], j>>)}}
    ELSE {id}

\* Mutant: a re-occurrence takes the bare key again.
NextInst_Bare(t, f) == {0}

\* GetNextEventId: the first free {key}_{k}.
NextInst(t, f) ==
    {n \in Inst \ {0} : /\ ~Exists(t, <<f, n>>)
                        /\ \A k \in 1..(n - 1) : Exists(t, <<f, k>>)}

\* The newest row found is not recovered.
LatestOpen(t, f) == \E id \in Latest(t, f) : IsOpen(t, id)

\* Mutant: HasRecovered is not looked at when the flag is set.
EventStatus_NoRecoveredTest(t, f, active) ==
    CASE Latest(t, f) = {} /\ active -> "New"
      [] Latest(t, f) # {} /\ active -> "Already"
      [] LatestOpen(t, f) /\ ~active -> "Recover"
      [] OTHER -> "NoEvent"

\* Mutant: a re-occurrence is not told apart from no event.
EventStatus_NoAlready(t, f, active) ==
    CASE Latest(t, f) = {} /\ active -> "New"
      [] LatestOpen(t, f) /\ ~active -> "Recover"
      [] OTHER -> "NoEvent"

\* EventStatus: what a flag's bit means for the newest row found.
EventStatus(t, f, active) ==
    CASE Latest(t, f) = {} /\ active -> "New"
      [] Latest(t, f) # {} /\ ~LatestOpen(t, f) /\ active -> "Already"
      [] LatestOpen(t, f) /\ ~active -> "Recover"
      [] OTHER -> "NoEvent"

-----------------------------------------------------------------------------
Init ==
    /\ value = [m \in Maps |-> {}]
    /\ shadow = [m \in Maps |-> {}]
    /\ redis = [m \in Maps |-> {}]
    /\ status = [f \in Flags |-> "absent"]
    /\ table = [id \in Ids |-> Absent]
    /\ view = NoView
    /\ dirty = {}
    /\ pc = "group"
    /\ groups = Groups
    /\ todo = <<>>
    /\ flags = <<>>
    /\ announced = [f \in Flags |-> "none"]
    /\ ack = NoAck
    /\ changes = 0 /\ faults = 0 /\ acks = 0
    /\ aborted = {} /\ reopened = {}

\* The device sets the bits of a register to any other value.
DeviceChanges(m) ==
    /\ changes < MaxChanges
    /\ \E v \in SUBSET FlagsOf(m) \ {value[m]} : value' = [value EXCEPT ![m] = v]
    /\ changes' = changes + 1
    /\ UNCHANGED <<shadow, redis, status, table, txn, pc, groups, todo, flags, announced, ack,
                   faults, acks, aborted, reopened>>

-----------------------------------------------------------------------------
(* The poller.                                                             *)

\* One ReadHoldingRegisters for the group; the results are the DiMap objects.
ReadModbusEvent ==
    /\ pc = "group" /\ groups # <<>>
    /\ shadow' = [m \in Maps |-> IF m \in MapsOf(Head(groups)) THEN value[m] ELSE shadow[m]]
    /\ todo' = Head(groups)
    /\ groups' = Tail(groups)
    /\ pc' = "map"
    /\ UNCHANGED <<device, redis, status, table, txn, flags, announced, ack,
                   faults, acks, aborted, reopened>>

\* ... or an empty list, while the other poller has connected the socket and not
\* yet made the master: before this process has read anything.
ReadNothing ==
    /\ pc = "group" /\ groups # <<>>
    /\ shadow = [m \in Maps |-> {}]
    /\ faults < MaxFaults
    /\ faults' = faults + 1
    /\ groups' = Tail(groups)
    /\ UNCHANGED <<device, shadow, redis, status, table, txn, pc, todo, flags, announced, ack,
                   acks, aborted, reopened>>

\* Every group is read: the delay, and the next cycle.
NextCycle ==
    /\ pc = "group" /\ groups = <<>>
    /\ groups' = Groups
    /\ UNCHANGED <<device, shadow, redis, status, table, txn, pc, todo, flags, announced, ack,
                   faults, acks, aborted, reopened>>

GroupDone ==
    /\ pc = "map" /\ todo = <<>>
    /\ pc' = "group"
    /\ UNCHANGED <<device, link, redis, status, table, txn, announced, ack,
                   faults, acks, aborted, reopened>>

\* A register that is disabled, or whose value is the one in redis.
SkipMap ==
    /\ pc = "map" /\ todo # <<>>
    /\ Head(todo) \in Disabled \/ shadow[Head(todo)] = redis[Head(todo)]
    /\ todo' = Tail(todo)
    /\ UNCHANGED <<device, shadow, redis, status, table, txn, pc, groups, flags, announced, ack,
                   faults, acks, aborted, reopened>>

\* Any other register: redis is written, then the transaction begins.
StoreValue ==
    /\ pc = "map" /\ todo # <<>>
    /\ Head(todo) \notin Disabled
    /\ shadow[Head(todo)] # redis[Head(todo)]
    /\ redis' = [redis EXCEPT ![Head(todo)] = shadow[Head(todo)]]
    /\ view' = table
    /\ dirty' = {}
    /\ flags' = FlagSeq[Head(todo)]
    /\ pc' = "flag"
    /\ UNCHANGED <<device, shadow, status, table, groups, todo, announced, ack,
                   faults, acks, aborted, reopened>>

\* Insert a row into the open transaction.
Insert(id) ==
    /\ view' = [view EXCEPT ![id] = NewRow]
    /\ dirty' = dirty \cup {id}

\* RecoversEvent: every row of the walk that is not recovered yet.
RecoversEvent(id) ==
    LET stale == {k \in Walk(view, id) : IsOpen(view, k)}
    IN  /\ view' = [k \in Ids |-> IF k \in stale THEN [view[k] EXCEPT !.state = "recovered"]
                                                 ELSE view[k]]
        /\ dirty' = dirty \cup stale

\* Mutant: the hub's own EventStatus.Recover is sent for Recovery.
Publish_HubEnum(f, s) ==
    announced' = IF f \in Mapped
                 THEN [announced EXCEPT ![f] = IF s = "Recovery" THEN "Recover" ELSE s]
                 ELSE announced

\* PublishEvent, for a flag that has an event code.
Publish(f, s) ==
    announced' = IF f \in Mapped THEN [announced EXCEPT ![f] = s] ELSE announced

\* Mutant: Status is only set when the hash is created.
VisitFlag_StatusOnce(f) ==
    /\ pc = "flag" /\ flags # <<>> /\ f = Head(flags)
    /\ status' = IF status[f] # "absent" THEN status
                 ELSE [status EXCEPT ![f] = IF f \in shadow[Head(todo)] THEN "on" ELSE "off"]
    /\ flags' = Tail(flags)
    /\ UNCHANGED <<device, shadow, redis, table, pc, groups, todo, ack,
                   faults, acks, aborted, reopened>>

\* What every branch does with the flag at hand: its Status field is set from
\* the bit (CreateEventNode does so too), and the loop moves on.
VisitFlag(f) ==
    /\ pc = "flag" /\ flags # <<>> /\ f = Head(flags)
    /\ status' = [status EXCEPT ![f] = IF f \in shadow[Head(todo)] THEN "on" ELSE "off"]
    /\ flags' = Tail(flags)
    /\ UNCHANGED <<device, shadow, redis, table, pc, groups, todo, ack,
                   faults, acks, aborted, reopened>>

StatusOf(f) == EventStatus(view, f, f \in shadow[Head(todo)])

SilentFlag(f) ==
    /\ VisitFlag(f)
    /\ Head(todo) \in Silent
    /\ UNCHANGED <<txn, announced>>

NoEvent(f) ==
    /\ VisitFlag(f)
    /\ Head(todo) \notin Silent
    /\ StatusOf(f) = "NoEvent"
    /\ UNCHANGED <<txn, announced>>

\* Mutant: a new event is recorded and not published.
NewEvent_Unpublished(f) ==
    /\ VisitFlag(f)
    /\ Head(todo) \notin Silent
    /\ StatusOf(f) = "New"
    /\ Insert(<<f, 0>>)
    /\ UNCHANGED announced

NewEvent(f) ==
    /\ VisitFlag(f)
    /\ Head(todo) \notin Silent
    /\ StatusOf(f) = "New"
    /\ Insert(<<f, 0>>)
    /\ Publish(f, "New")

\* Mutant: a re-occurrence is published as well.
AlreadyEvent_Published(f) ==
    /\ VisitFlag(f)
    /\ Head(todo) \notin Silent
    /\ StatusOf(f) = "Already"
    /\ \E n \in NextInst(view, f) : Insert(<<f, n>>)
    /\ Publish(f, "New")

\* A re-occurrence is recorded and not published.
AlreadyEvent(f) ==
    /\ VisitFlag(f)
    /\ Head(todo) \notin Silent
    /\ StatusOf(f) = "Already"
    /\ \E n \in NextInst(view, f) : Insert(<<f, n>>)
    /\ UNCHANGED announced

RecoverEvent(f) ==
    /\ VisitFlag(f)
    /\ Head(todo) \notin Silent
    /\ StatusOf(f) = "Recover"
    /\ \E id \in Latest(view, f) : RecoversEvent(id)
    /\ Publish(f, "Recovery")

\* Mutant: every row the session has loaded is written back.
Commit_WholeView ==
    /\ pc = "flag" /\ flags = <<>>
    /\ table' = view
    /\ dirty' = {}
    /\ view' = NoView
    /\ todo' = Tail(todo)
    /\ pc' = "map"
    /\ aborted' = aborted \ {Head(todo)}
    /\ reopened' = reopened \ {id \in dirty : ~IsOpen(view, id)}
    /\ UNCHANGED <<device, shadow, redis, status, groups, flags, announced, ack, faults, acks>>

\* CommitAsync: the rows written replace the committed ones, every column.
Commit ==
    /\ pc = "flag" /\ flags = <<>>
    /\ table' = [id \in Ids |-> IF id \in dirty THEN view[id] ELSE table[id]]
    /\ dirty' = {}
    /\ view' = NoView
    /\ todo' = Tail(todo)
    /\ pc' = "map"
    /\ aborted' = aborted \ {Head(todo)}
    /\ reopened' = reopened \ {id \in dirty : ~IsOpen(view, id)}
    /\ UNCHANGED <<device, shadow, redis, status, groups, flags, announced, ack, faults, acks>>

-----------------------------------------------------------------------------
(* Faults.                                                                 *)

\* Back to the top of the loop; an open transaction is rolled back.
Restart ==
    /\ faults < MaxFaults
    /\ faults' = faults + 1
    /\ pc' = "group"
    /\ groups' = Groups
    /\ todo' = <<>>
    /\ flags' = <<>>
    /\ view' = NoView
    /\ dirty' = {}
    /\ aborted' = IF pc = "flag" THEN aborted \cup {Head(todo)} ELSE aborted

\* An exception of the link, redis, the database or the broker, swallowed by
\* the loop.  The status field of the flag at hand may have been set already.
Exception ==
    /\ Restart
    /\ \/ UNCHANGED status
       \/ /\ pc = "flag" /\ flags # <<>>
          /\ status' = [status EXCEPT ![Head(flags)] =
                            IF Head(flags) \in shadow[Head(todo)] THEN "on" ELSE "off"]
    /\ UNCHANGED <<device, shadow, redis, table, announced, ack, acks, reopened>>

\* The process dies with the requests in it and starts again.
Crash ==
    /\ Restart
    /\ shadow' = [m \in Maps |-> {}]
    /\ ack' = NoAck
    /\ UNCHANGED <<device, redis, status, table, announced, acks, reopened>>

-----------------------------------------------------------------------------
(* The operator.                                                           *)

\* EventAck reads the rows it is given; one that is missing or acknowledged
\* already is left out.
AckRead ==
    /\ DOMAIN ack = {} /\ acks < MaxAcks
    /\ \E keys \in SUBSET {id \in Ids : Exists(table, id) /\ ~table[id].acked} \ {{}} :
           ack' = [id \in keys |-> table[id]]
    /\ acks' = acks + 1
    /\ UNCHANGED <<device, link, redis, status, table, txn, pc, announced, faults,
                   aborted, reopened>>

\* ... and writes them back as it read them, IsAck set.  A row the poller's
\* open transaction has written is locked until that transaction ends.
AckCommit ==
    /\ DOMAIN ack # {} /\ DOMAIN ack \cap dirty = {}
    /\ table' = [id \in Ids |-> IF id \in DOMAIN ack THEN [ack[id] EXCEPT !.acked = TRUE]
                                                     ELSE table[id]]
    /\ reopened' = reopened \cup {id \in DOMAIN ack : ack[id].state # table[id].state}
    /\ ack' = NoAck
    /\ UNCHANGED <<device, link, redis, status, txn, pc, announced, faults, acks, aborted>>

-----------------------------------------------------------------------------
Poll ==
    \/ ReadModbusEvent
    \/ NextCycle
    \/ GroupDone
    \/ SkipMap
    \/ StoreValue
    \/ \E f \in Flags : SilentFlag(f)
    \/ \E f \in Flags : NoEvent(f)
    \/ \E f \in Flags : NewEvent(f)
    \/ \E f \in Flags : AlreadyEvent(f)
    \/ \E f \in Flags : RecoverEvent(f)
    \/ Commit

Next ==
    \/ \E m \in Maps : DeviceChanges(m)
    \/ Poll
    \/ ReadNothing
    \/ Exception
    \/ Crash
    \/ AckRead
    \/ AckCommit

Spec == Init /\ [][Next]_vars

\* The loop runs for ever and the rows it waits for are unlocked: its steps
\* are taken, and so is the end of an acknowledgement.  Faults are bounded.
FairSpec == Spec /\ WF_vars(Poll) /\ WF_vars(AckCommit)

-----------------------------------------------------------------------------
(* Properties.                                                             *)

\* Types, and what the loop position says of the loop's variables.
TypeOK ==
    /\ value \in [Maps -> SUBSET Flags]
    /\ shadow \in [Maps -> SUBSET Flags]
    /\ redis \in [Maps -> SUBSET Flags]
    /\ status \in [Flags -> {"absent", "on", "off"}]
    /\ table \in [Ids -> Row]
    /\ view \in [Ids -> Row]
    /\ dirty \in SUBSET Ids
    /\ pc \in {"group", "map", "flag"} /\ (pc = "flag" => todo # <<>>)
    /\ groups \in Seq(Seq(Maps))
    /\ todo \in Seq(Maps)
    /\ flags \in Seq(Flags)
    /\ announced \in [Flags -> {"none", "New", "Recovery"}]
    /\ DOMAIN ack \subseteq Ids /\ \A id \in DOMAIN ack : ack[id] \in Row
    /\ changes \in Nat /\ faults \in Nat /\ acks \in Nat
    /\ aborted \subseteq Maps
    /\ reopened \subseteq Ids

\* Register m is not in the middle of its transaction.
Settled(m) == ~(pc = "flag" /\ Head(todo) = m)

Recorded(f) == LatestOpen(table, f)

\* The alarm table follows redis: outside its transaction, a register whose
\* last transaction committed has an open newest row for exactly the flags that
\* are set in the value redis holds (redis is written before the database, and
\* the later comparisons are with redis alone), a row that an overlapping
\* acknowledgement has put back to open excepted.
TableFollowsRedis ==
    \A m \in Watched \ aborted : Settled(m) =>
        \A f \in FlagsOf(m) :
            (Latest(table, f) \cap reopened = {}) =>
                (Recorded(f) <=> f \in redis[m])

\* The Status fields follow the same value: outside its transaction, every flag
\* visited since redis last changed has its bit in its own field, although the
\* fields are written one by one, without the transaction.
StatusFollowsRedis ==
    \A m \in Maps \ (Disabled \cup aborted) : Settled(m) =>
        \A f \in FlagsOf(m) :
            (status[f] = "on") <=> (f \in redis[m])

\* A flag that is set has an open row of its own.
SetFlagHasOwnRow ==
    \A m \in Watched \ aborted : Settled(m) =>
        \A f \in FlagsOf(m) \cap redis[m] : \E n \in Inst : IsOpen(table, <<f, n>>)

\* At most one row of an alarm is open: a new occurrence is recorded only when
\* the last is recovered.  Only an acknowledgement that overlaps a recovery,
\* and writes its stale HasRecovered back, leaves an older row open.
OnlyNewestOpen ==
    \A id \in Ids : IsOpen(table, id) => id \in Latest(table, id[1]) \/ id \in reopened

\* An alarm is announced before it is recorded: no committed row of a published
\* flag without a message on the bus, whatever fails in between.
AnnouncedBeforeRecorded ==
    \A f \in Mapped : Found(table, f) # {} => announced[f] # "none"

\* As long as nothing has failed, the bus says "New" exactly for the flags whose
\* first occurrence is still open, those with a row an acknowledgement has put
\* back excepted.
AnnouncedMatches ==
    faults = 0 =>
        \A m \in Watched : Settled(m) =>
            \A f \in FlagsOf(m) \cap Mapped :
                (\A n \in Inst : <<f, n>> \notin reopened) =>
                    ((announced[f] = "New") <=> IsOpen(table, <<f, 0>>))

\* A row is never deleted, and a recovered one comes back to open only when an
\* acknowledgement commits what it read before the recovery.
RowsOnlyAdvance ==
    [][\A id \in Ids :
          /\ Exists(table, id) => Exists(table', id)
          /\ (table[id].state = "recovered" /\ IsOpen(table', id)) =>
                /\ id \in DOMAIN ack /\ IsOpen(ack, id)
                /\ id \in reopened'
      ]_vars

\* An acknowledgement is lost only to a recovery of the same row that was under
\* way when it committed.
AckLostOnlyToRecovery ==
    [][\A id \in Ids :
          (table[id].acked /\ ~table'[id].acked) =>
              /\ id \in dirty /\ ~view[id].acked
              /\ view[id].state = "recovered"
      ]_vars

\* A flag that stays set is in the end recorded as open for good, one that
\* stays clear as not open, unless the transaction of its last change is rolled
\* back or an acknowledgement reopens its row.
EventuallyRecorded ==
    \A m \in Watched : \A f \in FlagsOf(m) :
        <>[](f \in value[m]) => <>[](Recorded(f) \/ m \in aborted)

EventuallyRecovered ==
    \A m \in Watched : \A f \in FlagsOf(m) :
        <>[](f \notin value[m]) => <>[](~Recorded(f) \/ m \in aborted \/ reopened # {})

=============================================================================
