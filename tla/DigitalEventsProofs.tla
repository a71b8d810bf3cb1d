------------------------- MODULE DigitalEventsProofs -------------------------
(***************************************************************************)
(* The alarm poller's safety properties, for every number of registers,    *)
(* flags, register changes, faults and acknowledgements.                   *)
(***************************************************************************)
EXTENDS DigitalEvents, EventIdsProofs, WellFoundedInduction, SequenceTheorems, TLAPS

\* The elements of a sequence.
Elems(s) == {s[i] : i \in DOMAIN s}

LEMMA TailElems ==
    ASSUME NEW S, NEW s \in Seq(S), s # <<>>
    PROVE  /\ Head(s) \in S /\ Head(s) \in Elems(s)
           /\ Tail(s) \in Seq(S)
           /\ Elems(Tail(s)) \subseteq Elems(s)
           /\ Elems(s) \subseteq Elems(Tail(s)) \cup {Head(s)}
<1>1. /\ Len(s) \in Nat \ {0} /\ DOMAIN s = 1..Len(s)
      /\ Head(s) = s[1] /\ Head(s) \in S
      /\ Tail(s) \in Seq(S) /\ Len(Tail(s)) = Len(s) - 1
      /\ DOMAIN Tail(s) = 1..(Len(s) - 1)
      /\ \A i \in 1..(Len(s) - 1) : Tail(s)[i] = s[i + 1]
  BY HeadTailProperties, LenProperties, EmptySeq
<1>2. Elems(Tail(s)) \subseteq Elems(s)
  <2> SUFFICES ASSUME NEW i \in 1..(Len(s) - 1) PROVE Tail(s)[i] \in Elems(s)
    BY <1>1 DEF Elems
  <2>1. i + 1 \in DOMAIN s /\ Tail(s)[i] = s[i + 1]
    BY <1>1
  <2> QED
    BY <2>1 DEF Elems
<1>3. ASSUME NEW i \in DOMAIN s, i # 1 PROVE s[i] \in Elems(Tail(s))
  <2>1. i - 1 \in DOMAIN Tail(s) /\ Tail(s)[i - 1] = s[i]
    BY <1>1, <1>3
  <2> QED
    BY <2>1 DEF Elems
<1>4. Elems(s) \subseteq Elems(Tail(s)) \cup {Head(s)}
  BY <1>1, <1>3 DEF Elems
<1>5. Head(s) \in Elems(s)
  BY <1>1 DEF Elems
<1> QED
  BY <1>1, <1>2, <1>4, <1>5

\* A non-empty set of natural numbers has a least one.
LEMMA LeastNumber ==
    ASSUME NEW S, S \subseteq Nat, S # {}
    PROVE  \E n \in S : \A k \in S : n <= k
<1> DEFINE R == OpToRel(<, Nat)
<1>1. IsWellFoundedOn(R, Nat)
  BY NatLessThanWellFounded
<1>2. \A a, b \in Nat : a < b => <<a, b>> \in R
  BY DEF OpToRel
<1> HIDE DEF R
<1>3. PICK n \in S : \A k \in S : ~(<<k, n>> \in R)
  BY <1>1, WFMin
<1>4. \A k \in S : ~(k < n)
  BY <1>2, <1>3
<1> QED
  BY <1>4

\* A non-empty set of occurrences has a greatest one.
LEMMA GreatestInst ==
    ASSUME NEW S, S \subseteq Inst, S # {}
    PROVE  \E n \in S : \A k \in S : k <= n
<1> DEFINE T == {MaxInst - n : n \in S}
<1>0. MaxInst \in Nat /\ Inst = 0..MaxInst
  BY IdAssumption DEF Inst
<1>1. T \subseteq Nat
  BY <1>0
<1>2. T # {}
  <2>1. PICK n \in S : TRUE
    OBVIOUS
  <2>2. MaxInst - n \in T
    BY <2>1
  <2> QED
    BY <2>2
<1>3. PICK t \in T : \A k \in T : t <= k
  BY <1>1, <1>2, LeastNumber
<1>4. PICK n \in S : t = MaxInst - n
  OBVIOUS
<1>5. \A k \in S : MaxInst - k \in T
  OBVIOUS
<1>6. ASSUME NEW k \in S PROVE k <= n
  <2>1. t <= MaxInst - k
    BY <1>3, <1>5
  <2> QED
    BY <1>0, <1>4, <2>1
<1> QED
  BY <1>6

LEMMA ZeroInst == 0 \in Inst /\ Inst \subseteq Nat
  BY IdAssumption DEF Inst

LEMMA FlagsOfMap ==
    ASSUME NEW m \in Maps
    PROVE  FlagSeq[m] \in Seq(Flags) /\ FlagsOf(m) = Elems(FlagSeq[m]) /\ FlagsOf(m) \subseteq Flags
<1>1. FlagSeq[m] \in Seq(Flags)
  BY HubAssumption
<1>2. \A i \in DOMAIN FlagSeq[m] : FlagSeq[m][i] \in Flags
  BY <1>1, LenProperties, ElementOfSeq
<1> QED
  BY <1>1, <1>2 DEF FlagsOf, Elems

LEMMA OneRegister ==
    ASSUME NEW m \in Maps, NEW k \in Maps, NEW f \in FlagsOf(m), f \in FlagsOf(k)
    PROVE  m = k
  BY HubAssumption DEF FlagsOf

-----------------------------------------------------------------------------
(* Types.                                                                  *)

LEMMA LatestType ==
    ASSUME NEW t, NEW f \in Flags
    PROVE  Latest(t, f) \subseteq Ids
  BY DEF Latest, Found, Matching

\* The types, and a register is at hand while its flags are visited.
THEOREM TypeCorrect == Spec => []TypeOK
<1>1. Init => TypeOK
  <2> SUFFICES ASSUME Init PROVE TypeOK
    OBVIOUS
  <2>1. <<>> \in Seq(Maps) /\ <<>> \in Seq(Flags)
    BY EmptySeq
  <2>2. Absent \in Row
    BY DEF Absent, Row
  <2>3. DOMAIN ack = {}
    BY DEF Init, NoAck
  <2> QED
    BY <2>1, <2>2, <2>3, HubAssumption DEF Init, TypeOK, NoView
<1>2. TypeOK /\ [Next]_vars => TypeOK'
  <2> SUFFICES ASSUME TypeOK, [Next]_vars PROVE TypeOK'
    OBVIOUS
  <2> USE DEF TypeOK
  <2>1. ASSUME NEW m \in Maps, DeviceChanges(m) PROVE TypeOK'
    <3>1. FlagsOf(m) \subseteq Flags
      BY FlagsOfMap
    <3> QED
      BY <2>1, <3>1 DEF DeviceChanges, txn
  <2>2. CASE ReadModbusEvent
    <3>1. Head(groups) \in Seq(Maps) /\ Tail(groups) \in Seq(Seq(Maps))
      BY <2>2, HeadTailProperties DEF ReadModbusEvent
    <3> QED
      BY <2>2, <3>1 DEF ReadModbusEvent, device, txn
  <2>3. CASE NextCycle
    BY <2>3, HubAssumption DEF NextCycle, device, txn
  <2>4. CASE GroupDone
    BY <2>4 DEF GroupDone, device, link, txn
  <2>5. CASE SkipMap
    <3>1. Tail(todo) \in Seq(Maps)
      BY <2>5, HeadTailProperties DEF SkipMap
    <3> QED
      BY <2>5, <3>1 DEF SkipMap, device, txn
  <2>6. CASE StoreValue
    <3>1. Head(todo) \in Maps
      BY <2>6, HeadTailProperties DEF StoreValue
    <3>2. FlagSeq[Head(todo)] \in Seq(Flags)
      BY <3>1, HubAssumption
    <3> QED
      BY <2>6, <3>1, <3>2 DEF StoreValue, device
  <2>7. ASSUME NEW f \in Flags, VisitFlag(f)
        PROVE  /\ status' \in [Flags -> {"absent", "on", "off"}]
               /\ flags' \in Seq(Flags)
               /\ pc' = pc /\ pc = "flag"
    BY <2>7, HeadTailProperties DEF VisitFlag
  <2>8. ASSUME NEW f \in Flags, VisitFlag(f),
               view' \in [Ids -> Row], dirty' \in SUBSET Ids,
               announced' \in [Flags -> {"none", "New", "Recovery"}]
        PROVE  TypeOK'
    BY <2>7, <2>8 DEF VisitFlag, device
  <2>9. ASSUME NEW f \in Flags, SilentFlag(f) PROVE TypeOK'
    BY <2>8, <2>9 DEF SilentFlag, txn
  <2>10. ASSUME NEW f \in Flags, NoEvent(f) PROVE TypeOK'
    BY <2>8, <2>10 DEF NoEvent, txn
  <2>11. \A id \in Ids : Insert(id) => view' \in [Ids -> Row] /\ dirty' \in SUBSET Ids
    BY DEF Insert, NewRow, Row
  <2>12. \A f \in Flags, s \in {"none", "New", "Recovery"} :
             Publish(f, s) => announced' \in [Flags -> {"none", "New", "Recovery"}]
    BY DEF Publish
  <2>13. ASSUME NEW f \in Flags, NewEvent(f) PROVE TypeOK'
    <3>1. <<f, 0>> \in Ids
      BY ZeroInst DEF Ids
    <3> QED
      BY <2>8, <2>11, <2>12, <2>13, <3>1 DEF NewEvent
  <2>14. ASSUME NEW f \in Flags, AlreadyEvent(f) PROVE TypeOK'
    <3>1. PICK n \in NextInst(view, f) : Insert(<<f, n>>)
      BY <2>14 DEF AlreadyEvent
    <3>2. <<f, n>> \in Ids
      BY DEF Ids, NextInst
    <3> QED
      BY <2>8, <2>11, <2>14, <3>1, <3>2 DEF AlreadyEvent
  <2>15. ASSUME NEW f \in Flags, RecoverEvent(f) PROVE TypeOK'
    <3>1. PICK id \in Latest(view, f) : RecoversEvent(id)
      BY <2>15 DEF RecoverEvent
    <3>2. id \in Ids
      BY LatestType
    <3>3. Walk(view, id) \subseteq Ids
      BY <3>2 DEF Walk, Ids
    <3>4. view' \in [Ids -> Row] /\ dirty' \in SUBSET Ids
      BY <3>1, <3>3 DEF RecoversEvent, Row
    <3> QED
      BY <2>8, <2>12, <2>15, <3>4 DEF RecoverEvent
  <2>16. CASE Commit
    <3>1. Tail(todo) \in Seq(Maps)
      BY <2>16, HeadTailProperties DEF Commit
    <3>2. Absent \in Row
      BY DEF Absent, Row
    <3> QED
      BY <2>16, <3>1, <3>2 DEF Commit, device, NoView
  <2>17. ASSUME Restart
         PROVE  /\ faults' \in Nat /\ pc' = "group" /\ groups' \in Seq(Seq(Maps))
                /\ todo' \in Seq(Maps) /\ flags' \in Seq(Flags)
                /\ view' \in [Ids -> Row] /\ dirty' \in SUBSET Ids
                /\ aborted' \subseteq Maps
    <3>1. pc = "flag" => Head(todo) \in Maps
      BY HeadTailProperties
    <3>2. Absent \in Row
      BY DEF Absent, Row
    <3>3. <<>> \in Seq(Maps) /\ <<>> \in Seq(Flags)
      BY EmptySeq
    <3> QED
      BY <2>17, <3>1, <3>2, <3>3, HubAssumption DEF Restart, NoView
  <2>18. CASE Exception
    <3>1. status' \in [Flags -> {"absent", "on", "off"}]
      BY <2>18 DEF Exception
    <3> QED
      BY <2>17, <2>18, <3>1 DEF Exception, device
  <2>19. CASE Crash
    <3>1. DOMAIN ack' = {}
      BY <2>19 DEF Crash, NoAck
    <3> QED
      BY <2>17, <2>19, <3>1 DEF Crash, device
  <2>20. CASE AckRead
    BY <2>20 DEF AckRead, device, link, txn
  <2>21. CASE AckCommit
    <3>1. DOMAIN ack' = {}
      BY <2>21 DEF AckCommit, NoAck
    <3>2. table' \in [Ids -> Row]
      BY <2>21 DEF AckCommit, Row
    <3>3. reopened' \subseteq Ids
      BY <2>21 DEF AckCommit
    <3> QED
      BY <2>21, <3>1, <3>2, <3>3 DEF AckCommit, device, link, txn
  <2>22. CASE ReadNothing
    <3>1. Tail(groups) \in Seq(Seq(Maps))
      BY <2>22, HeadTailProperties DEF ReadNothing
    <3> QED
      BY <2>22, <3>1 DEF ReadNothing, device, txn
  <2>23. CASE UNCHANGED vars
    BY <2>23 DEF vars
  <2> QED
    BY <2>1, <2>2, <2>3, <2>4, <2>5, <2>6, <2>9, <2>10, <2>13, <2>14, <2>15, <2>16,
       <2>18, <2>19, <2>20, <2>21, <2>22, <2>23 DEF Next, Poll
<1> QED
  BY <1>1, <1>2, PTL DEF Spec

-----------------------------------------------------------------------------
(* A flag's newest row.                                                    *)

KeysInOrder == PrefixFree /\ OrderAgrees

\* Row n of flag f is there and no later one is.
Newest(t, f, n) ==
    /\ n \in Inst /\ Exists(t, <<f, n>>)
    /\ \A k \in Inst : Exists(t, <<f, k>>) => k <= n

NoRow(t, f) == \A n \in Inst : ~Exists(t, <<f, n>>)

\* With keys in order the query returns the newest row.
LEMMA LatestIsNewest ==
    ASSUME KeysInOrder, NEW t, NEW f \in Flags
    PROVE  /\ \A id \in Latest(t, f) : \E n \in Inst : id = <<f, n>> /\ Newest(t, f, n)
           /\ \A n \in Inst : Newest(t, f, n) => <<f, n>> \in Latest(t, f)
<1>1. Found(t, f) = {id \in {f} \X Inst : Exists(t, id)}
  BY DEF KeysInOrder, PrefixFree, Found
<1>2. \A m, n \in Inst : m < n <=> <<f, m>> \in Before[<<f, n>>]
  BY DEF KeysInOrder, OrderAgrees
<1>3. ASSUME NEW id \in Latest(t, f)
      PROVE  \E n \in Inst : id = <<f, n>> /\ Newest(t, f, n)
  <2>1. PICK n \in Inst : id = <<f, n>> /\ Exists(t, <<f, n>>)
    BY <1>1 DEF Latest
  <2>2. ASSUME NEW k \in Inst, Exists(t, <<f, k>>) PROVE k <= n
    <3>1. <<f, k>> \in Found(t, f)
      BY <1>1, <2>2
    <3>2. <<f, k>> = <<f, n>> \/ <<f, k>> \in Before[<<f, n>>]
      BY <2>1, <3>1 DEF Latest
    <3>3. k = n \/ k < n
      BY <1>2, <3>2
    <3> QED
      BY <3>3, ZeroInst
  <2> QED
    BY <2>1, <2>2 DEF Newest
<1>4. ASSUME NEW n \in Inst, Newest(t, f, n) PROVE <<f, n>> \in Latest(t, f)
  <2>1. <<f, n>> \in Found(t, f)
    BY <1>1, <1>4 DEF Newest
  <2>2. ASSUME NEW other \in Found(t, f)
        PROVE  other = <<f, n>> \/ other \in Before[<<f, n>>]
    <3>1. PICK k \in Inst : other = <<f, k>> /\ Exists(t, <<f, k>>)
      BY <1>1
    <3>2. k <= n
      BY <1>4, <3>1 DEF Newest
    <3>3. k = n \/ k < n
      BY <3>2, ZeroInst
    <3> QED
      BY <1>2, <3>1, <3>3
  <2> QED
    BY <2>1, <2>2 DEF Latest
<1> QED
  BY <1>3, <1>4

\* A flag with a row has a newest one.
LEMMA NewestExists ==
    ASSUME NEW t, NEW f \in Flags
    PROVE  NoRow(t, f) \/ \E n \in Inst : Newest(t, f, n)
<1> SUFFICES ASSUME ~NoRow(t, f) PROVE \E n \in Inst : Newest(t, f, n)
  OBVIOUS
<1> DEFINE S == {n \in Inst : Exists(t, <<f, n>>)}
<1>1. S # {}
  BY DEF NoRow
<1>2. PICK n \in S : \A k \in S : k <= n
  BY <1>1, GreatestInst
<1> QED
  BY <1>2 DEF Newest

LEMMA NewestUnique ==
    ASSUME NEW t, NEW f, NEW m, NEW n, Newest(t, f, m), Newest(t, f, n)
    PROVE  m = n
<1>1. m <= n /\ n <= m /\ m \in Nat /\ n \in Nat
  BY ZeroInst DEF Newest
<1> QED
  BY <1>1

LEMMA LatestCases ==
    ASSUME KeysInOrder, NEW t, NEW f \in Flags
    PROVE  /\ Latest(t, f) = {} <=> NoRow(t, f)
           /\ \A n \in Inst : Newest(t, f, n) => (LatestOpen(t, f) <=> IsOpen(t, <<f, n>>))
           /\ NoRow(t, f) => ~LatestOpen(t, f)
<1>1. NoRow(t, f) => Latest(t, f) = {}
  BY LatestIsNewest DEF NoRow, Newest
<1>2. Latest(t, f) = {} => NoRow(t, f)
  BY LatestIsNewest, NewestExists
<1>3. ASSUME NEW n \in Inst, Newest(t, f, n)
      PROVE  LatestOpen(t, f) <=> IsOpen(t, <<f, n>>)
  <2>1. <<f, n>> \in Latest(t, f)
    BY <1>3, LatestIsNewest
  <2>2. \A id \in Latest(t, f) : id = <<f, n>>
    BY <1>3, LatestIsNewest, NewestUnique
  <2> QED
    BY <2>1, <2>2 DEF LatestOpen
<1>4. NoRow(t, f) => ~LatestOpen(t, f)
  BY <1>1 DEF LatestOpen
<1> QED
  BY <1>1, <1>2, <1>3, <1>4

-----------------------------------------------------------------------------
(* The inductive invariant.                                                *)

Current == Head(todo)

\* While the flags of a register are visited, redis holds the value they are
\* looked up in, and the flags still to be visited are the register's.
LoopInv ==
    pc = "flag" =>
        /\ shadow[Current] = redis[Current]
        /\ Elems(flags) \subseteq FlagsOf(Current)

\* The open transaction: a row it has written is of the register at hand, and is
\* either new or recovered; any other row is as the table has it, or an
\* acknowledgement has put it back since the transaction began.
TxnInv ==
    /\ pc # "flag" => dirty = {}
    /\ pc = "flag" =>
          \A id \in Ids :
             /\ id \in dirty => /\ id[1] \in FlagsOf(Current)
                                /\ Exists(view, id)
                                /\ IsOpen(view, id) => ~Exists(table, id)
             /\ id \notin dirty => /\ Exists(view, id) <=> Exists(table, id)
                                   /\ view[id].state = table[id].state \/ id \in reopened

\* An acknowledgement holds rows that exist; only rows that exist are acknowledged.
AckInv ==
    \A id \in Ids :
        /\ id \in DOMAIN ack => Exists(ack, id) /\ Exists(table, id)
        /\ ~Exists(table, id) => ~table[id].acked

\* The rows of a flag are numbered without a gap, and one that is open is the
\* newest, or put back by an acknowledgement.
Contiguous(t) ==
    \A f \in Flags, n, k \in Inst : k <= n /\ Exists(t, <<f, n>>) => Exists(t, <<f, k>>)

OneOpen(t) ==
    \A f \in Flags, n \in Inst : IsOpen(t, <<f, n>>) => Newest(t, f, n) \/ <<f, n>> \in reopened

RowsInv ==
    /\ Contiguous(table) /\ OneOpen(table)
    /\ pc = "flag" => Contiguous(view) /\ OneOpen(view)

IInv == LoopInv /\ TxnInv /\ AckInv /\ RowsInv

-----------------------------------------------------------------------------
(* What a visit does to the rows of its flag.                              *)

InsertRow(f, n) ==
    /\ n \in Inst
    /\ view' = [view EXCEPT ![<<f, n>>] = NewRow]
    /\ dirty' = dirty \cup {<<f, n>>}
    /\ \A k \in Inst : Exists(view, <<f, k>>) <=> k < n
    /\ \A k \in Inst : Newest(view, f, k) => ~IsOpen(view, <<f, k>>)

RecoverRow(f, n) ==
    /\ Newest(view, f, n) /\ IsOpen(view, <<f, n>>)
    /\ view' = [view EXCEPT ![<<f, n>>].state = "recovered"]
    /\ dirty' = dirty \cup {<<f, n>>}

Active(f) == f \in shadow[Current]

LEMMA NewEventRow ==
    ASSUME KeysInOrder, NEW f \in Flags, NewEvent(f)
    PROVE  Active(f) /\ InsertRow(f, 0)
<1>1. Latest(view, f) = {} /\ Active(f)
  BY DEF NewEvent, StatusOf, EventStatus, Active, Current
<1>2. NoRow(view, f)
  BY <1>1, LatestCases
<1>3. \A k \in Inst : ~(k < 0)
  BY ZeroInst
<1> QED
  BY <1>1, <1>2, <1>3, ZeroInst DEF NewEvent, Insert, InsertRow, NoRow, Newest

LEMMA AlreadyEventRow ==
    ASSUME KeysInOrder, Contiguous(view), NEW f \in Flags, AlreadyEvent(f)
    PROVE  Active(f) /\ \E n \in Inst : n # 0 /\ InsertRow(f, n)
<1>1. Latest(view, f) # {} /\ ~LatestOpen(view, f) /\ Active(f)
  BY DEF AlreadyEvent, StatusOf, EventStatus, Active, Current
<1>2. PICK n \in NextInst(view, f) : Insert(<<f, n>>)
  BY DEF AlreadyEvent
<1>3. /\ n \in Inst /\ n # 0 /\ ~Exists(view, <<f, n>>)
      /\ \A k \in 1..(n - 1) : Exists(view, <<f, k>>)
  BY <1>2 DEF NextInst
<1>4. PICK l \in Inst : Newest(view, f, l)
  BY <1>1, LatestCases, NewestExists
<1>5. Exists(view, <<f, 0>>)
  <2>1. 0 <= l
    BY ZeroInst
  <2> QED
    BY <1>4, <2>1, ZeroInst DEF Contiguous, Newest
<1>6. ASSUME NEW k \in Inst, k < n PROVE Exists(view, <<f, k>>)
  <2>1. k = 0 \/ k \in 1..(n - 1)
    BY <1>3, <1>6, ZeroInst
  <2> QED
    BY <1>3, <1>5, <2>1
<1>7. ASSUME NEW k \in Inst, ~(k < n) PROVE ~Exists(view, <<f, k>>)
  <2>1. n <= k
    BY <1>3, <1>7, ZeroInst
  <2> QED
    BY <1>3, <2>1 DEF Contiguous
<1>8. \A k \in Inst : Newest(view, f, k) => ~IsOpen(view, <<f, k>>)
  BY <1>1, LatestCases
<1>9. InsertRow(f, n)
  BY <1>2, <1>3, <1>6, <1>7, <1>8 DEF Insert, InsertRow
<1> QED
  BY <1>1, <1>3, <1>9

LEMMA RecoverEventRow ==
    ASSUME TypeOK, KeysInOrder, NEW f \in Flags, RecoverEvent(f)
    PROVE  ~Active(f) /\ \E n \in Inst : RecoverRow(f, n)
<1>1. LatestOpen(view, f) /\ ~Active(f)
  BY DEF RecoverEvent, StatusOf, EventStatus, Active, Current
<1>2. PICK id \in Latest(view, f) : RecoversEvent(id)
  BY DEF RecoverEvent
<1>3. PICK n \in Inst : id = <<f, n>> /\ Newest(view, f, n)
  BY <1>2, LatestIsNewest
<1>4. IsOpen(view, <<f, n>>)
  BY <1>1, <1>3, LatestCases
<1>5. <<f, n>> \in Walk(view, id)
  BY <1>3, ZeroInst DEF Walk, Newest
<1>6. \A k \in Walk(view, id) : k = <<f, n>>
  <2>1. CASE n = 0
    <3>1. ASSUME NEW k \in Inst, \A j \in 0..k : Exists(view, <<f, j>>) PROVE k = 0
      <4>1. k \in 0..k /\ k \in Nat
        BY ZeroInst
      <4>2. k <= 0
        BY <1>3, <2>1, <3>1, <4>1 DEF Newest
      <4> QED
        BY <4>1, <4>2
    <3> QED
      BY <1>3, <2>1, <3>1 DEF Walk
  <2>2. CASE n # 0
    BY <1>3, <2>2 DEF Walk
  <2> QED
    BY <2>1, <2>2
<1>7. {k \in Walk(view, id) : IsOpen(view, k)} = {<<f, n>>}
  BY <1>4, <1>5, <1>6
<1>8. /\ view' = [k \in Ids |-> IF k = <<f, n>> THEN [view[k] EXCEPT !.state = "recovered"]
                                                ELSE view[k]]
      /\ dirty' = dirty \cup {<<f, n>>}
  BY <1>2, <1>7 DEF RecoversEvent
<1>9. view' = [view EXCEPT ![<<f, n>>].state = "recovered"]
  BY <1>8 DEF TypeOK
<1> QED
  BY <1>1, <1>3, <1>4, <1>8, <1>9 DEF RecoverRow

LEMMA NoEventRow ==
    ASSUME KeysInOrder, NEW f \in Flags, NoEvent(f)
    PROVE  /\ NoRow(view, f) => ~Active(f)
           /\ \A n \in Inst : Newest(view, f, n) => (IsOpen(view, <<f, n>>) <=> Active(f))
<1>1. EventStatus(view, f, Active(f)) = "NoEvent"
  BY DEF NoEvent, StatusOf, Active, Current
<1>2. CASE NoRow(view, f)
  <2>1. Latest(view, f) = {} /\ \A n \in Inst : ~Newest(view, f, n)
    BY <1>2, LatestCases DEF NoRow, Newest
  <2> QED
    BY <1>1, <2>1 DEF EventStatus
<1>3. CASE ~NoRow(view, f)
  <2>1. Latest(view, f) # {}
    BY <1>3, LatestCases
  <2>2. LatestOpen(view, f) <=> Active(f)
    BY <1>1, <2>1 DEF EventStatus
  <2> QED
    BY <1>3, <2>2, LatestCases
<1> QED
  BY <1>2, <1>3

\* An insertion keeps the transaction's half of the invariant.
LEMMA InsertKeeps ==
    ASSUME TypeOK, TxnInv, RowsInv, pc = "flag",
           NEW f \in FlagsOf(Current), f \in Flags, NEW n \in Inst, InsertRow(f, n),
           table' = table, reopened' = reopened, todo' = todo, pc' = pc
    PROVE  TxnInv' /\ Contiguous(view') /\ OneOpen(view)'
<1> DEFINE new == <<f, n>>
<1>1. new \in Ids /\ new[1] = f /\ n \in Nat
  BY ZeroInst DEF Ids
<1>2. /\ \A id \in Ids : id # new => view'[id] = view[id]
      /\ view'[new] = NewRow
  BY <1>1 DEF InsertRow, TypeOK
<1>3. IsOpen(view', new) /\ Exists(view', new)
  BY <1>2 DEF IsOpen, Exists, NewRow
<1>4. ~Exists(view, new) /\ ~Exists(table, new)
  <2>1. ~Exists(view, new)
    BY <1>1 DEF InsertRow
  <2> QED
    BY <1>1, <2>1 DEF TxnInv
<1>5. TxnInv'
  <2> SUFFICES ASSUME NEW id \in Ids
               PROVE  /\ id \in dirty' => /\ id[1] \in FlagsOf(Current)
                                          /\ Exists(view', id)
                                          /\ IsOpen(view', id) => ~Exists(table, id)
                      /\ id \notin dirty' => /\ Exists(view', id) <=> Exists(table, id)
                                             /\ view'[id].state = table[id].state \/ id \in reopened
    BY DEF TxnInv, Current
  <2>1. CASE id = new
    BY <1>1, <1>3, <1>4, <2>1 DEF InsertRow
  <2>2. CASE id # new
    BY <1>2, <2>2 DEF TxnInv, InsertRow, Exists, IsOpen
  <2> QED
    BY <2>1, <2>2
<1>6. ASSUME NEW g \in Flags, NEW k \in Inst
      PROVE  Exists(view', <<g, k>>) <=> IF g = f THEN k <= n ELSE Exists(view, <<g, k>>)
  <2>1. CASE <<g, k>> = new
    BY <1>1, <1>3, <2>1
  <2>2. CASE <<g, k>> # new
    <3>1. Exists(view', <<g, k>>) <=> Exists(view, <<g, k>>)
      BY <1>2, <2>2 DEF Ids, Exists
    <3>2. g = f => (Exists(view, <<g, k>>) <=> k < n)
      BY DEF InsertRow
    <3>3. g = f => k # n
      BY <2>2
    <3> QED
      BY <1>1, <3>1, <3>2, <3>3, ZeroInst
  <2> QED
    BY <2>1, <2>2
<1>7. Contiguous(view')
  <2> SUFFICES ASSUME NEW g \in Flags, NEW i \in Inst, NEW k \in Inst,
                      k <= i, Exists(view', <<g, i>>)
               PROVE  Exists(view', <<g, k>>)
    BY DEF Contiguous
  <2>1. CASE g = f
    BY <1>1, <1>6, <2>1, ZeroInst
  <2>2. CASE g # f
    BY <1>6, <2>2 DEF RowsInv, Contiguous
  <2> QED
    BY <2>1, <2>2
<1>8. OneOpen(view)'
  <2> SUFFICES ASSUME NEW g \in Flags, NEW k \in Inst, IsOpen(view', <<g, k>>)
               PROVE  Newest(view', g, k) \/ <<g, k>> \in reopened
    BY DEF OneOpen
  <2>1. CASE <<g, k>> = new
    BY <1>1, <1>3, <1>6, <2>1, ZeroInst DEF Newest
  <2>2. CASE <<g, k>> # new
    <3>1. IsOpen(view, <<g, k>>)
      BY <1>2, <2>2 DEF Ids, IsOpen
    <3>2. Newest(view, g, k) \/ <<g, k>> \in reopened
      BY <3>1 DEF RowsInv, OneOpen
    <3>3. g = f => ~Newest(view, g, k)
      BY <3>1 DEF InsertRow
    <3>4. g # f /\ Newest(view, g, k) => Newest(view', g, k)
      BY <1>6 DEF Newest
    <3> QED
      BY <3>2, <3>3, <3>4
  <2> QED
    BY <2>1, <2>2
<1> QED
  BY <1>5, <1>7, <1>8

\* So does a recovery.
LEMMA RecoverKeeps ==
    ASSUME TypeOK, TxnInv, RowsInv, pc = "flag",
           NEW f \in FlagsOf(Current), f \in Flags, NEW n \in Inst, RecoverRow(f, n),
           table' = table, reopened' = reopened, todo' = todo, pc' = pc
    PROVE  TxnInv' /\ Contiguous(view') /\ OneOpen(view)'
<1> DEFINE row == <<f, n>>
<1>1. row \in Ids /\ row[1] = f
  BY DEF Ids
<1>2. /\ \A id \in Ids : id # row => view'[id] = view[id]
      /\ view'[row].state = "recovered"
  BY <1>1 DEF RecoverRow, TypeOK, Row
<1>3. \A id \in Ids : Exists(view', id) <=> Exists(view, id)
  BY <1>2 DEF RecoverRow, Newest, Exists
<1>4. \A id \in Ids : IsOpen(view', id) => IsOpen(view, id) /\ id # row
  BY <1>2 DEF IsOpen
<1>5. TxnInv'
  <2> SUFFICES ASSUME NEW id \in Ids
               PROVE  /\ id \in dirty' => /\ id[1] \in FlagsOf(Current)
                                          /\ Exists(view', id)
                                          /\ IsOpen(view', id) => ~Exists(table, id)
                      /\ id \notin dirty' => /\ Exists(view', id) <=> Exists(table, id)
                                             /\ view'[id].state = table[id].state \/ id \in reopened
    BY DEF TxnInv, Current
  <2>1. CASE id = row
    BY <1>1, <1>3, <1>4, <2>1 DEF RecoverRow, Newest
  <2>2. CASE id # row
    BY <1>2, <1>3, <1>4, <2>2 DEF TxnInv, RecoverRow
  <2> QED
    BY <2>1, <2>2
<1>6. \A g \in Flags, k \in Inst : Exists(view', <<g, k>>) <=> Exists(view, <<g, k>>)
  BY <1>3 DEF Ids
<1>7. Contiguous(view')
  BY <1>6 DEF RowsInv, Contiguous
<1>8. OneOpen(view)'
  <2> SUFFICES ASSUME NEW g \in Flags, NEW k \in Inst, IsOpen(view', <<g, k>>)
               PROVE  Newest(view', g, k) \/ <<g, k>> \in reopened
    BY DEF OneOpen
  <2>1. IsOpen(view, <<g, k>>)
    BY <1>4 DEF Ids
  <2> QED
    BY <1>6, <2>1 DEF RowsInv, OneOpen, Newest
<1> QED
  BY <1>5, <1>7, <1>8

-----------------------------------------------------------------------------
(* The kinds of steps.                                                     *)

\* A step that changes neither the rows nor what the transaction sees.
Quiet ==
    /\ UNCHANGED <<table, view, dirty, redis, status, announced, reopened, aborted, ack>>
    /\ faults' = 0 => faults = 0
    /\ pc' = "flag" <=> pc = "flag"
    /\ pc = "flag" => UNCHANGED <<todo, flags, shadow>>

\* The open transaction, if any, is given up.
Fault ==
    /\ pc' = "group" /\ dirty' = {} /\ faults' = faults + 1
    /\ UNCHANGED <<table, redis, announced, reopened>>
    /\ ack' = ack \/ DOMAIN ack' = {}
    /\ aborted' = IF pc = "flag" THEN aborted \cup {Current} ELSE aborted
    /\ \/ status' = status
       \/ /\ pc = "flag" /\ flags # <<>>
          /\ \A g \in Flags : g # Head(flags) => status'[g] = status[g]

Visit(f) ==
    \/ SilentFlag(f)
    \/ NoEvent(f)
    \/ NewEvent(f)
    \/ AlreadyEvent(f)
    \/ RecoverEvent(f)

LEMMA StepKinds ==
    ASSUME TypeOK, [Next]_vars
    PROVE  \/ Quiet \/ StoreValue \/ (\E f \in Flags : Visit(f)) \/ Commit
           \/ Fault \/ AckRead \/ AckCommit
<1>1. ASSUME NEW m \in Maps, DeviceChanges(m) PROVE Quiet
  BY <1>1 DEF DeviceChanges, Quiet, txn
<1>2. ReadModbusEvent => Quiet
  BY DEF ReadModbusEvent, Quiet, device, txn
<1>3. NextCycle => Quiet
  BY DEF NextCycle, Quiet, device, txn
<1>4. GroupDone => Quiet
  BY DEF GroupDone, Quiet, device, link, txn
<1>5. SkipMap => Quiet
  BY DEF SkipMap, Quiet, device, txn
<1>6. Exception => Fault
  BY DEF Exception, Restart, Fault, device, Current, TypeOK
<1>7. Crash => Fault
  BY DEF Crash, Restart, Fault, device, Current, NoAck
<1>8. ReadNothing => Quiet
  BY DEF ReadNothing, Quiet, device, txn, TypeOK
<1>9. UNCHANGED vars => Quiet
  BY DEF vars, Quiet
<1> QED
  BY <1>1, <1>2, <1>3, <1>4, <1>5, <1>6, <1>7, <1>8, <1>9 DEF Next, Poll, Visit

\* What every visit does.
LEMMA VisitFrame ==
    ASSUME TypeOK, LoopInv, NEW f \in Flags, Visit(f)
    PROVE  /\ pc = "flag" /\ pc' = pc /\ f \in FlagsOf(Current)
           /\ UNCHANGED <<table, redis, shadow, todo, reopened, aborted, faults, ack>>
           /\ status' = [status EXCEPT ![f] = IF Active(f) THEN "on" ELSE "off"]
           /\ Elems(flags') \subseteq Elems(flags)
           /\ Elems(flags) \subseteq Elems(flags') \cup {f}
<1>1. VisitFlag(f)
  BY DEF Visit, SilentFlag, NoEvent, NewEvent, AlreadyEvent, RecoverEvent
<1>2. /\ Head(flags) \in Elems(flags)
      /\ Elems(Tail(flags)) \subseteq Elems(flags)
      /\ Elems(flags) \subseteq Elems(Tail(flags)) \cup {Head(flags)}
  BY <1>1, TailElems DEF VisitFlag, TypeOK
<1> QED
  BY <1>1, <1>2 DEF VisitFlag, LoopInv, device, Active, Current

\* A visit leaves the rows, inserts one or recovers one.
LEMMA VisitRows ==
    ASSUME TypeOK, KeysInOrder, RowsInv, pc = "flag", NEW f \in Flags, Visit(f)
    PROVE  \/ (SilentFlag(f) \/ NoEvent(f)) /\ UNCHANGED <<view, dirty, announced>>
           \/ \E n \in Inst : InsertRow(f, n) /\ Active(f)
           \/ \E n \in Inst : RecoverRow(f, n) /\ ~Active(f)
  BY NewEventRow, AlreadyEventRow, RecoverEventRow, ZeroInst
  DEF Visit, SilentFlag, NoEvent, txn, RowsInv

-----------------------------------------------------------------------------
(* The invariant holds.                                                    *)

LEMMA InitHolds == Init => IInv
<1> SUFFICES ASSUME Init PROVE IInv
  OBVIOUS
<1>1. \A id \in Ids : ~Exists(table, id) /\ ~IsOpen(table, id) /\ ~table[id].acked
  BY DEF Init, Absent, Exists, IsOpen
<1>2. pc # "flag" /\ dirty = {} /\ DOMAIN ack = {}
  BY DEF Init, NoAck
<1>3. Contiguous(table) /\ OneOpen(table)
  BY <1>1 DEF Contiguous, OneOpen, Ids
<1> QED
  BY <1>1, <1>2, <1>3 DEF IInv, LoopInv, TxnInv, AckInv, RowsInv

LEMMA QuietStep == ASSUME TypeOK, IInv, Quiet PROVE IInv'
<1>1. LoopInv'
  BY DEF IInv, LoopInv, Quiet, Current
<1>2. TxnInv'
  BY DEF IInv, TxnInv, Quiet, Current, Exists, IsOpen
<1>3. AckInv'
  BY DEF IInv, AckInv, Quiet, Exists
<1>4. RowsInv'
  BY DEF IInv, RowsInv, Quiet, Contiguous, OneOpen, Newest, Exists, IsOpen
<1> QED
  BY <1>1, <1>2, <1>3, <1>4 DEF IInv

LEMMA StoreValueStep == ASSUME TypeOK, IInv, StoreValue PROVE IInv'
<1>0. Head(todo) \in Maps
  BY HeadTailProperties DEF StoreValue, TypeOK
<1>1. LoopInv'
  BY <1>0, FlagsOfMap DEF LoopInv, StoreValue, TypeOK, Current
<1>2. TxnInv'
  BY DEF TxnInv, StoreValue, Current, Exists, IsOpen
<1>3. AckInv'
  BY DEF IInv, AckInv, StoreValue, Exists
<1>4. RowsInv'
  BY DEF IInv, RowsInv, StoreValue, Contiguous, OneOpen, Newest, Exists, IsOpen
<1> QED
  BY <1>1, <1>2, <1>3, <1>4 DEF IInv

LEMMA VisitStep == ASSUME TypeOK, IInv, KeysInOrder, NEW f \in Flags, Visit(f) PROVE IInv'
<1>1. /\ pc = "flag" /\ pc' = pc /\ f \in FlagsOf(Current)
      /\ UNCHANGED <<table, redis, shadow, todo, reopened, aborted, faults, ack>>
      /\ Elems(flags') \subseteq Elems(flags)
  BY VisitFrame DEF IInv
<1>2. LoopInv'
  BY <1>1 DEF IInv, LoopInv, Current
<1>3. AckInv'
  BY <1>1 DEF IInv, AckInv, Exists
<1>4. TxnInv' /\ Contiguous(view') /\ OneOpen(view)'
  <2>1. CASE UNCHANGED <<view, dirty>>
    BY <1>1, <2>1 DEF IInv, TxnInv, RowsInv, Contiguous, OneOpen, Newest, Exists, IsOpen, Current
  <2>2. CASE \E n \in Inst : InsertRow(f, n)
    BY <1>1, <2>2, InsertKeeps DEF IInv
  <2>3. CASE \E n \in Inst : RecoverRow(f, n)
    BY <1>1, <2>3, RecoverKeeps DEF IInv
  <2> QED
    BY <1>1, <2>1, <2>2, <2>3, VisitRows DEF IInv
<1>5. RowsInv'
  BY <1>1, <1>4 DEF IInv, RowsInv, Contiguous, OneOpen, Newest, Exists, IsOpen
<1> QED
  BY <1>2, <1>3, <1>4, <1>5 DEF IInv

\* What the table holds after a commit, row by row.
LEMMA CommitRows ==
    ASSUME TypeOK, IInv, Commit
    PROVE  /\ \A id \in Ids : table'[id] = IF id \in dirty THEN view[id] ELSE table[id]
           /\ \A id \in Ids : Exists(table', id) <=> Exists(view, id)
           /\ \A id \in Ids : IsOpen(table', id) =>
                 IsOpen(view, id) \/ (id \in reopened /\ id \in reopened')
           /\ \A id \in Ids : IsOpen(view, id) =>
                 IsOpen(table', id) \/ (id \in reopened /\ id \in reopened')
           /\ \A id \in reopened : IsOpen(view, id) => id \in reopened'
<1>1. pc = "flag"
  BY DEF Commit
<1>2. \A id \in Ids : table'[id] = IF id \in dirty THEN view[id] ELSE table[id]
  BY DEF Commit
<1>3. \A id \in reopened : id \notin dirty \/ IsOpen(view, id) => id \in reopened'
  BY DEF Commit
<1>4. \A id \in Ids : Exists(table', id) <=> Exists(view, id)
  BY <1>1, <1>2 DEF IInv, TxnInv, Exists
<1>5. \A id \in Ids : id \notin dirty =>
          (IsOpen(table', id) <=> IsOpen(view, id)) \/ id \in reopened
  BY <1>1, <1>2 DEF IInv, TxnInv, IsOpen
<1>6. \A id \in Ids : id \in dirty => (IsOpen(table', id) <=> IsOpen(view, id))
  BY <1>2 DEF IsOpen
<1> QED
  BY <1>2, <1>3, <1>4, <1>5, <1>6

LEMMA CommitStep == ASSUME TypeOK, IInv, Commit PROVE IInv'
<1>1. pc = "flag" /\ pc' # "flag" /\ dirty' = {} /\ ack' = ack
  BY DEF Commit
<1>2. LoopInv' /\ TxnInv'
  BY <1>1 DEF LoopInv, TxnInv
<1>3. AckInv'
  <2>1. ASSUME NEW id \in Ids, Exists(table, id) PROVE Exists(table', id)
    BY <1>1, <2>1, CommitRows DEF IInv, TxnInv
  <2>2. ASSUME NEW id \in Ids, ~Exists(table', id) PROVE ~table'[id].acked
    <3>1. id \notin dirty
      BY <1>1, <2>2, CommitRows DEF IInv, TxnInv
    <3>2. table'[id] = table[id]
      BY <3>1, CommitRows
    <3> QED
      BY <2>2, <3>2 DEF IInv, AckInv, Exists
  <2> QED
    BY <1>1, <2>1, <2>2 DEF IInv, AckInv, Exists
<1>4. \A g \in Flags, k \in Inst : Exists(table', <<g, k>>) <=> Exists(view, <<g, k>>)
  BY CommitRows DEF Ids
<1>5. Contiguous(table')
  BY <1>1, <1>4 DEF IInv, RowsInv, Contiguous
<1>6. OneOpen(table)'
  <2> SUFFICES ASSUME NEW g \in Flags, NEW k \in Inst, IsOpen(table', <<g, k>>)
               PROVE  Newest(table', g, k) \/ <<g, k>> \in reopened'
    BY DEF OneOpen
  <2>1. CASE <<g, k>> \in reopened'
    BY <2>1
  <2>2. CASE <<g, k>> \notin reopened'
    <3>1. IsOpen(view, <<g, k>>)
      BY <2>2, CommitRows DEF Ids
    <3>2. <<g, k>> \notin reopened
      BY <2>2, <3>1, CommitRows
    <3>3. Newest(view, g, k)
      BY <1>1, <3>1, <3>2 DEF IInv, RowsInv, OneOpen
    <3> QED
      BY <1>4, <3>3 DEF Newest
  <2> QED
    BY <2>1, <2>2
<1> QED
  BY <1>1, <1>2, <1>3, <1>5, <1>6 DEF IInv, RowsInv

LEMMA FaultStep == ASSUME TypeOK, IInv, Fault PROVE IInv'
  BY DEF IInv, LoopInv, TxnInv, AckInv, RowsInv, Fault, Contiguous, OneOpen, Newest, Exists, IsOpen

LEMMA AckReadStep == ASSUME TypeOK, IInv, AckRead PROVE IInv'
<1>1. UNCHANGED <<table, view, dirty, shadow, redis, todo, flags, pc, reopened>>
  BY DEF AckRead, txn, link
<1>2. \A id \in DOMAIN ack' : Exists(table, id) /\ Exists(ack', id)
  BY DEF AckRead, Exists
<1> QED
  BY <1>1, <1>2
  DEF IInv, LoopInv, TxnInv, AckInv, RowsInv, Contiguous, OneOpen, Newest, Exists, IsOpen, Current

\* An acknowledgement adds no row, and a row whose state it changes is noted in
\* reopened.
LEMMA AckRows ==
    ASSUME TypeOK, IInv, AckCommit
    PROVE  /\ \A id \in Ids : Exists(table', id) <=> Exists(table, id)
           /\ \A id \in Ids : table'[id].state = table[id].state \/ id \in reopened'
           /\ \A id \in dirty : table'[id] = table[id]
           /\ reopened \subseteq reopened'
           /\ \A id \in Ids : ~Exists(table', id) => table'[id] = table[id]
<1>1. \A id \in Ids : table'[id] = IF id \in DOMAIN ack THEN [ack[id] EXCEPT !.acked = TRUE]
                                                        ELSE table[id]
  BY DEF AckCommit
<1>2. \A id \in DOMAIN ack : [ack[id] EXCEPT !.acked = TRUE].state = ack[id].state
  BY DEF TypeOK, Row
<1>3. \A id \in DOMAIN ack : id \in Ids /\ Exists(ack, id) /\ Exists(table, id)
  BY DEF IInv, AckInv, TypeOK
<1>4. \A id \in Ids : Exists(table', id) <=> Exists(table, id)
  BY <1>1, <1>2, <1>3 DEF Exists
<1>5. \A id \in Ids : table'[id].state = table[id].state \/ id \in reopened'
  BY <1>1, <1>2 DEF AckCommit
<1>6. \A id \in dirty : id \notin DOMAIN ack /\ id \in Ids
  BY DEF AckCommit, TypeOK
<1> QED
  BY <1>1, <1>3, <1>4, <1>5, <1>6 DEF AckCommit

LEMMA AckCommitStep == ASSUME TypeOK, IInv, AckCommit PROVE IInv'
<1>1. UNCHANGED <<view, dirty, shadow, redis, todo, flags, pc>> /\ DOMAIN ack' = {}
  BY DEF AckCommit, txn, link, NoAck
<1>2. LoopInv'
  BY <1>1 DEF IInv, LoopInv, Current
<1>3. TxnInv'
  <2>1. ASSUME NEW id \in Ids, pc = "flag", id \in dirty
        PROVE  /\ id[1] \in FlagsOf(Current) /\ Exists(view, id)
               /\ IsOpen(view, id) => ~Exists(table', id)
    BY <2>1, AckRows DEF IInv, TxnInv
  <2>2. ASSUME NEW id \in Ids, pc = "flag", id \notin dirty
        PROVE  /\ Exists(view, id) <=> Exists(table', id)
               /\ view[id].state = table'[id].state \/ id \in reopened'
    BY <2>2, AckRows DEF IInv, TxnInv
  <2> QED
    BY <1>1, <2>1, <2>2 DEF IInv, TxnInv, Current, Exists, IsOpen
<1>4. AckInv'
  BY <1>1, AckRows DEF IInv, AckInv, Exists
<1>5. \A g \in Flags, k \in Inst :
          /\ Exists(table', <<g, k>>) <=> Exists(table, <<g, k>>)
          /\ IsOpen(table', <<g, k>>) => IsOpen(table, <<g, k>>) \/ <<g, k>> \in reopened'
  BY AckRows DEF Ids, IsOpen
<1>6. Contiguous(table')
  BY <1>5 DEF IInv, RowsInv, Contiguous
<1>7. OneOpen(table)'
  BY <1>5, AckRows DEF IInv, RowsInv, OneOpen, Newest
<1>8. pc = "flag" => Contiguous(view') /\ OneOpen(view)'
  BY <1>1, AckRows DEF IInv, RowsInv, Contiguous, OneOpen, Newest, Exists, IsOpen
<1> QED
  BY <1>1, <1>2, <1>3, <1>4, <1>6, <1>7, <1>8 DEF IInv, RowsInv

LEMMA StepHolds == ASSUME KeysInOrder, TypeOK, IInv, [Next]_vars PROVE IInv'
  BY StepKinds, QuietStep, StoreValueStep, VisitStep, CommitStep, FaultStep,
     AckReadStep, AckCommitStep

\* The inductive invariant, when the keys of the table are in order.
THEOREM Invariance == ASSUME KeysInOrder PROVE Spec => []IInv
  BY InitHolds, StepHolds, TypeCorrect, PTL DEF Spec

-----------------------------------------------------------------------------
(* The properties.                                                         *)

\* At most one row of a flag is open, the newest.
THEOREM NewestOnly == ASSUME KeysInOrder PROVE Spec => []OnlyNewestOpen
<1>1. IInv => OnlyNewestOpen
  <2> SUFFICES ASSUME IInv, NEW f \in Flags, NEW n \in Inst, IsOpen(table, <<f, n>>)
               PROVE  <<f, n>> \in Latest(table, f) \/ <<f, n>> \in reopened
    BY DEF OnlyNewestOpen, Ids
  <2> QED
    BY LatestIsNewest DEF IInv, RowsInv, OneOpen
<1> QED
  BY <1>1, Invariance, PTL

\* Rows are not deleted, and not reopened but by an acknowledgement that read the
\* row before it was recovered.
THEOREM RowsAdvance == ASSUME KeysInOrder PROVE Spec => RowsOnlyAdvance
<1> DEFINE Adv == \A id \in Ids :
                     /\ Exists(table, id) => Exists(table', id)
                     /\ (table[id].state = "recovered" /\ IsOpen(table', id)) =>
                           /\ id \in DOMAIN ack /\ IsOpen(ack, id)
                           /\ id \in reopened'
<1>1. TypeOK /\ IInv /\ [Next]_vars => [Adv]_vars
  <2> SUFFICES ASSUME TypeOK, IInv, [Next]_vars PROVE Adv
    OBVIOUS
  <2>1. ASSUME table' = table PROVE Adv
    BY <2>1 DEF Exists, IsOpen
  <2>2. CASE Commit
    <3> SUFFICES ASSUME NEW id \in Ids
                 PROVE  /\ Exists(table, id) => Exists(table', id)
                        /\ ~(table[id].state = "recovered" /\ IsOpen(table', id))
      OBVIOUS
    <3>1. pc = "flag"
      BY <2>2 DEF Commit
    <3>2. CASE id \in dirty
      <4>1. table'[id] = view[id] /\ Exists(view, id)
        BY <2>2, <3>1, <3>2, CommitRows DEF IInv, TxnInv
      <4>2. IsOpen(view, id) => ~Exists(table, id)
        BY <3>1, <3>2 DEF IInv, TxnInv
      <4> QED
        BY <4>1, <4>2 DEF Exists, IsOpen
    <3>3. CASE id \notin dirty
      <4>1. table'[id] = table[id]
        BY <2>2, <3>3, CommitRows
      <4> QED
        BY <4>1 DEF Exists, IsOpen
    <3> QED
      BY <3>2, <3>3
  <2>3. CASE AckCommit
    <3> SUFFICES ASSUME NEW id \in Ids, table[id].state = "recovered", IsOpen(table', id)
                 PROVE  id \in DOMAIN ack /\ IsOpen(ack, id) /\ id \in reopened'
      BY <2>3, AckRows
    <3>1. id \in DOMAIN ack
      BY <2>3 DEF AckCommit, IsOpen
    <3>2. table'[id].state = ack[id].state
      BY <2>3, <3>1 DEF AckCommit, TypeOK, Row
    <3>3. table'[id].state # table[id].state
      BY DEF IsOpen
    <3> QED
      BY <2>3, <3>1, <3>2, <3>3, AckRows DEF IsOpen
  <2>4. Quiet \/ StoreValue \/ Fault \/ AckRead => table' = table
    BY DEF Quiet, StoreValue, Fault, AckRead
  <2>5. ASSUME NEW f \in Flags, Visit(f) PROVE table' = table
    BY <2>5, VisitFrame DEF IInv
  <2> QED
    BY <2>1, <2>2, <2>3, <2>4, <2>5, StepKinds
<1> QED
  BY <1>1, Invariance, TypeCorrect, PTL DEF Spec, RowsOnlyAdvance

\* The commit of a recovery is the only step that takes an acknowledgement back.
THEOREM AckLost == ASSUME KeysInOrder PROVE Spec => AckLostOnlyToRecovery
<1> DEFINE Lost == \A id \in Ids :
                      (table[id].acked /\ ~table'[id].acked) =>
                          /\ id \in dirty /\ ~view[id].acked
                          /\ view[id].state = "recovered"
<1>1. TypeOK /\ IInv /\ [Next]_vars => [Lost]_vars
  <2> SUFFICES ASSUME TypeOK, IInv, [Next]_vars PROVE Lost
    OBVIOUS
  <2>1. ASSUME table' = table PROVE Lost
    BY <2>1
  <2>2. CASE Commit
    <3> SUFFICES ASSUME NEW id \in Ids, table[id].acked, ~table'[id].acked
                 PROVE  id \in dirty /\ ~view[id].acked /\ view[id].state = "recovered"
      OBVIOUS
    <3>1. id \in dirty /\ table'[id] = view[id]
      BY <2>2, CommitRows
    <3>2. Exists(table, id)
      BY DEF IInv, AckInv
    <3>3. Exists(view, id) /\ ~IsOpen(view, id)
      BY <2>2, <3>1, <3>2 DEF Commit, IInv, TxnInv
    <3>4. view[id].state \in {"absent", "open", "recovered"}
      BY DEF TypeOK, Row
    <3> QED
      BY <3>1, <3>3, <3>4 DEF Exists, IsOpen
  <2>3. CASE AckCommit
    <3> SUFFICES ASSUME NEW id \in Ids, table[id].acked PROVE table'[id].acked
      OBVIOUS
    <3>1. CASE id \in DOMAIN ack
      BY <2>3, <3>1 DEF AckCommit, TypeOK, Row
    <3>2. CASE id \notin DOMAIN ack
      BY <2>3, <3>2 DEF AckCommit
    <3> QED
      BY <3>1, <3>2
  <2>4. Quiet \/ StoreValue \/ Fault \/ AckRead => table' = table
    BY DEF Quiet, StoreValue, Fault, AckRead
  <2>5. ASSUME NEW f \in Flags, Visit(f) PROVE table' = table
    BY <2>5, VisitFrame DEF IInv
  <2> QED
    BY <2>1, <2>2, <2>3, <2>4, <2>5, StepKinds
<1> QED
  BY <1>1, Invariance, TypeCorrect, PTL DEF Spec, AckLostOnlyToRecovery

-----------------------------------------------------------------------------
(* The table against redis.                                                *)

\* The rows of flag f say that it is on, or off; rows in "excused" may say
\* anything.
Shows(t, f, on, excused) ==
    /\ NoRow(t, f) => ~on
    /\ \A n \in Inst : Newest(t, f, n) =>
           <<f, n>> \in excused \/ (IsOpen(t, <<f, n>>) <=> on)

\* The settled registers' rows show the value redis holds, and so do those of
\* the flags already visited of the register at hand, in the transaction.
FollowInv ==
    /\ \A m \in Watched \ aborted : Settled(m) =>
           \A f \in FlagsOf(m) : Shows(table, f, f \in redis[m], reopened)
    /\ (pc = "flag" /\ Current \in Watched) =>
           \A f \in FlagsOf(Current) \ Elems(flags) : Shows(view, f, f \in redis[Current], {})

\* A visit makes the rows of its flag show the bit ...
LEMMA VisitShows ==
    ASSUME TypeOK, KeysInOrder, IInv, NEW f \in Flags, Visit(f), Current \notin Silent
    PROVE  Shows(view', f, Active(f), {})
<1>1. pc = "flag"
  BY VisitFrame DEF IInv
<1>2. ASSUME NoEvent(f), UNCHANGED view PROVE Shows(view', f, Active(f), {})
  BY <1>2, NoEventRow DEF Shows
<1>3. ASSUME NEW n \in Inst, InsertRow(f, n), Active(f) PROVE Shows(view', f, Active(f), {})
  <2>1. <<f, n>> \in Ids
    BY DEF Ids
  <2>2. IsOpen(view', <<f, n>>) /\ Exists(view', <<f, n>>)
    BY <1>3, <2>1 DEF InsertRow, TypeOK, IsOpen, Exists, NewRow
  <2>3. ASSUME NEW k \in Inst, Newest(view', f, k) PROVE k = n
    <3>1. n <= k /\ k \in Nat /\ n \in Nat
      BY <2>2, <2>3, ZeroInst DEF Newest
    <3>2. ASSUME k # n PROVE FALSE
      <4>1. <<f, k>> \in Ids /\ <<f, k>> # <<f, n>>
        BY <3>2 DEF Ids
      <4>2. Exists(view, <<f, k>>)
        BY <1>3, <2>3, <4>1 DEF InsertRow, TypeOK, Exists, Newest
      <4>3. k < n
        BY <1>3, <4>2 DEF InsertRow
      <4> QED
        BY <3>1, <4>3
    <3> QED
      BY <3>2
  <2> QED
    BY <1>3, <2>2, <2>3 DEF Shows, NoRow
<1>4. ASSUME NEW n \in Inst, RecoverRow(f, n), ~Active(f) PROVE Shows(view', f, Active(f), {})
  <2>1. <<f, n>> \in Ids
    BY DEF Ids
  <2>2. ~IsOpen(view', <<f, n>>)
    BY <1>4, <2>1 DEF RecoverRow, TypeOK, Row, IsOpen
  <2>3. \A k \in Inst : Exists(view', <<f, k>>) <=> Exists(view, <<f, k>>)
    <3> SUFFICES ASSUME NEW k \in Inst PROVE Exists(view', <<f, k>>) <=> Exists(view, <<f, k>>)
      OBVIOUS
    <3>1. <<f, k>> \in Ids
      BY DEF Ids
    <3> QED
      BY <1>4, <2>1, <3>1 DEF RecoverRow, TypeOK, Row, Exists, Newest
  <2>4. ASSUME NEW k \in Inst, Newest(view', f, k) PROVE k = n
    <3>1. Newest(view, f, k)
      BY <2>3, <2>4 DEF Newest
    <3> QED
      BY <1>4, <3>1, NewestUnique DEF RecoverRow
  <2> QED
    BY <1>4, <2>2, <2>4 DEF Shows
<1>5. ~SilentFlag(f)
  BY DEF SilentFlag, Current
<1> QED
  BY <1>1, <1>2, <1>3, <1>4, <1>5, VisitRows DEF IInv

\* ... and leaves the rows of every other flag alone.
LEMMA VisitOthers ==
    ASSUME TypeOK, KeysInOrder, IInv, NEW f \in Flags, Visit(f),
           NEW g \in Flags, g # f, NEW n \in Inst
    PROVE  view'[<<g, n>>] = view[<<g, n>>]
<1>1. pc = "flag" /\ <<g, n>> \in Ids
  BY VisitFrame DEF IInv, Ids
<1>2. \A k \in Inst : <<g, n>> # <<f, k>>
  OBVIOUS
<1>3. \A k \in Inst : InsertRow(f, k) \/ RecoverRow(f, k) => view'[<<g, n>>] = view[<<g, n>>]
  BY <1>1, <1>2 DEF InsertRow, RecoverRow, TypeOK
<1> QED
  BY <1>1, <1>3, VisitRows DEF IInv

LEMMA FollowVisit ==
    ASSUME TypeOK, KeysInOrder, IInv, FollowInv, NEW f \in Flags, Visit(f)
    PROVE  FollowInv'
<1>1. /\ pc = "flag" /\ pc' = pc /\ f \in FlagsOf(Current)
      /\ UNCHANGED <<table, redis, shadow, todo, reopened, aborted>>
      /\ Elems(flags) \subseteq Elems(flags') \cup {f}
  BY VisitFrame DEF IInv
<1>2. \A m \in Watched \ aborted' : Settled(m)' =>
          \A g \in FlagsOf(m) : Shows(table', g, g \in redis'[m], reopened')
  BY <1>1 DEF FollowInv, Settled, Shows, NoRow, Newest, Exists, IsOpen
<1>3. ASSUME Current \in Watched, NEW g \in FlagsOf(Current) \ Elems(flags')
      PROVE  Shows(view', g, g \in redis[Current], {})
  <2>1. g \in Flags
    BY <1>3, FlagsOfMap DEF Watched
  <2>2. shadow[Current] = redis[Current]
    BY <1>1 DEF IInv, LoopInv
  <2>3. CASE g = f
    BY <1>3, <2>2, <2>3, VisitShows DEF Watched, Active
  <2>4. CASE g # f
    <3>1. Shows(view, g, g \in redis[Current], {})
      BY <1>1, <1>3, <2>4 DEF FollowInv
    <3>2. \A n \in Inst : view'[<<g, n>>] = view[<<g, n>>]
      BY <2>1, <2>4, VisitOthers
    <3> QED
      BY <3>1, <3>2 DEF Shows, NoRow, Newest, Exists, IsOpen
  <2> QED
    BY <2>3, <2>4
<1> QED
  BY <1>1, <1>2, <1>3 DEF FollowInv, Current

\* A commit changes no row of another register.
LEMMA CommitOthers ==
    ASSUME TypeOK, IInv, Commit, NEW m \in Maps, m # Current, NEW f \in FlagsOf(m), NEW n \in Inst
    PROVE  /\ table'[<<f, n>>] = table[<<f, n>>]
           /\ <<f, n>> \in reopened' <=> <<f, n>> \in reopened
<1>1. pc = "flag" /\ Current \in Maps
  BY HeadTailProperties DEF Commit, TypeOK, Current
<1>2. f \in Flags /\ <<f, n>> \in Ids
  BY FlagsOfMap DEF Ids
<1>3. f \notin FlagsOf(Current)
  BY <1>1, OneRegister
<1>4. <<f, n>> \notin dirty
  BY <1>1, <1>2, <1>3 DEF IInv, TxnInv
<1> QED
  BY <1>2, <1>4 DEF Commit

LEMMA FollowCommit == ASSUME TypeOK, IInv, FollowInv, Commit PROVE FollowInv'
<1>1. pc = "flag" /\ pc' = "map" /\ flags = <<>> /\ redis' = redis
      /\ aborted' = aborted \ {Current}
  BY DEF Commit, Current
<1>2. Elems(flags) = {}
  BY <1>1 DEF Elems
<1>3. ASSUME NEW m \in Watched \ aborted', NEW f \in FlagsOf(m)
      PROVE  Shows(table', f, f \in redis[m], reopened')
  <2>1. m \in Maps /\ f \in Flags
    BY FlagsOfMap DEF Watched
  <2>2. CASE m = Current
    <3>1. Shows(view, f, f \in redis[m], {})
      BY <1>1, <1>2, <2>2 DEF FollowInv
    <3>2. \A n \in Inst : <<f, n>> \in Ids
      BY <2>1 DEF Ids
    <3>3. \A n \in Inst : Exists(table', <<f, n>>) <=> Exists(view, <<f, n>>)
      BY <3>2, CommitRows
    <3>4. \A n \in Inst :
              (IsOpen(table', <<f, n>>) <=> IsOpen(view, <<f, n>>)) \/ <<f, n>> \in reopened'
      BY <3>2, CommitRows
    <3> QED
      BY <3>1, <3>3, <3>4 DEF Shows, NoRow, Newest
  <2>3. CASE m # Current
    <3>1. Shows(table, f, f \in redis[m], reopened)
      BY <1>1, <2>3 DEF FollowInv, Settled, Current
    <3>2. \A n \in Inst : /\ table'[<<f, n>>] = table[<<f, n>>]
                          /\ <<f, n>> \in reopened' <=> <<f, n>> \in reopened
      BY <2>1, <2>3, CommitOthers
    <3> QED
      BY <3>1, <3>2 DEF Shows, NoRow, Newest, Exists, IsOpen
  <2> QED
    BY <2>2, <2>3
<1> QED
  BY <1>1, <1>3 DEF FollowInv

LEMMA FollowAck == ASSUME TypeOK, IInv, FollowInv, AckCommit PROVE FollowInv'
<1>1. UNCHANGED <<view, redis, todo, flags, pc, aborted>>
  BY DEF AckCommit, txn, link
<1>2. ASSUME NEW m \in Watched \ aborted, Settled(m), NEW f \in FlagsOf(m)
      PROVE  Shows(table', f, f \in redis[m], reopened')
  <2>1. f \in Flags
    BY FlagsOfMap DEF Watched
  <2>2. \A n \in Inst : <<f, n>> \in Ids
    BY <2>1 DEF Ids
  <2>3. \A n \in Inst : /\ Exists(table', <<f, n>>) <=> Exists(table, <<f, n>>)
                        /\ table'[<<f, n>>].state = table[<<f, n>>].state \/ <<f, n>> \in reopened'
                        /\ <<f, n>> \in reopened => <<f, n>> \in reopened'
    BY <2>2, AckRows
  <2> QED
    BY <1>2, <2>3 DEF FollowInv, Shows, NoRow, Newest, IsOpen
<1>3. pc = "flag" /\ Current \in Watched =>
          \A f \in FlagsOf(Current) \ Elems(flags) : Shows(view', f, f \in redis[Current], {})
  BY <1>1 DEF FollowInv, Shows, NoRow, Newest, Exists, IsOpen
<1> QED
  BY <1>1, <1>2, <1>3 DEF FollowInv, Settled, Current

LEMMA FollowStore == ASSUME TypeOK, IInv, FollowInv, StoreValue PROVE FollowInv'
<1>1. /\ pc = "map" /\ pc' = "flag" /\ todo' = todo /\ flags' = FlagSeq[Current]
      /\ UNCHANGED <<table, reopened, aborted>>
      /\ Current \in Maps
      /\ \A m \in Maps : m # Current => redis'[m] = redis[m]
  BY HeadTailProperties DEF StoreValue, Current, TypeOK
<1>2. FlagsOf(Current) \ Elems(flags') = {}
  BY <1>1, FlagsOfMap
<1>3. ASSUME NEW m \in Watched \ aborted, m # Current, NEW f \in FlagsOf(m)
      PROVE  Shows(table', f, f \in redis'[m], reopened')
  BY <1>1, <1>3 DEF FollowInv, Settled, Watched, Shows, NoRow, Newest, Exists, IsOpen
<1> QED
  BY <1>1, <1>2, <1>3 DEF FollowInv, Settled, Current

LEMMA FollowStep == ASSUME KeysInOrder, TypeOK, IInv, FollowInv, [Next]_vars PROVE FollowInv'
<1>1. CASE Quiet
  BY <1>1 DEF Quiet, FollowInv, Settled, Current, Shows, NoRow, Newest, Exists, IsOpen
<1>2. CASE Fault
  <2>1. pc = "flag" => Current \in aborted'
    BY <1>2 DEF Fault
  <2>2. \A m \in Maps : m \notin aborted' => m \notin aborted /\ Settled(m)
    BY <1>2 DEF Fault, Settled, Current
  <2> QED
    BY <1>2, <2>2 DEF Fault, FollowInv, Watched, Shows, NoRow, Newest, Exists, IsOpen
<1>3. CASE AckRead
  BY <1>3 DEF AckRead, link, txn, FollowInv, Settled, Current, Shows, NoRow, Newest, Exists, IsOpen
<1> QED
  BY <1>1, <1>2, <1>3, StepKinds, FollowVisit, FollowCommit, FollowAck, FollowStore

\* Outside its transaction a register's newest rows are open for exactly the
\* flags that are set in the value redis holds, whatever has failed before.
THEOREM TableFollows == ASSUME KeysInOrder PROVE Spec => []TableFollowsRedis
<1>1. Init => FollowInv
  <2> SUFFICES ASSUME Init PROVE FollowInv
    OBVIOUS
  <2>1. \A f \in Flags, n \in Inst : ~Exists(table, <<f, n>>)
    BY DEF Init, Exists, Absent, Ids
  <2>2. \A m \in Watched : \A f \in FlagsOf(m) : f \in Flags /\ f \notin redis[m]
    BY FlagsOfMap DEF Init, Watched
  <2>3. pc # "flag"
    BY DEF Init
  <2> QED
    BY <2>1, <2>2, <2>3 DEF FollowInv, Shows, Newest
<1>2. FollowInv => TableFollowsRedis
  <2> SUFFICES ASSUME FollowInv, NEW m \in Watched \ aborted, Settled(m), NEW f \in FlagsOf(m),
                      Latest(table, f) \cap reopened = {}
               PROVE  Recorded(f) <=> f \in redis[m]
    BY DEF TableFollowsRedis
  <2>1. f \in Flags
    BY FlagsOfMap DEF Watched
  <2>2. Shows(table, f, f \in redis[m], reopened)
    BY DEF FollowInv
  <2>3. CASE NoRow(table, f)
    BY <2>1, <2>2, <2>3, LatestCases DEF Shows, Recorded
  <2>4. ASSUME NEW n \in Inst, Newest(table, f, n) PROVE Recorded(f) <=> f \in redis[m]
    <3>1. <<f, n>> \notin reopened
      BY <2>1, <2>4, LatestIsNewest
    <3> QED
      BY <2>1, <2>2, <2>4, <3>1, LatestCases DEF Shows, Recorded
  <2> QED
    BY <2>1, <2>3, <2>4, NewestExists
<1> QED
  BY <1>1, <1>2, FollowStep, Invariance, TypeCorrect, PTL DEF Spec

-----------------------------------------------------------------------------
(* The Status fields against redis; the keys play no part.                 *)

StatusInv ==
    /\ \A m \in Maps \ (Disabled \cup aborted) : Settled(m) =>
           \A f \in FlagsOf(m) : (status[f] = "on") <=> (f \in redis[m])
    /\ pc = "flag" =>
           \A f \in FlagsOf(Current) \ Elems(flags) : (status[f] = "on") <=> (f \in redis[Current])

LEMMA LoopStep == ASSUME TypeOK, LoopInv, [Next]_vars PROVE LoopInv'
<1>1. StoreValue => LoopInv'
  <2> SUFFICES ASSUME StoreValue PROVE LoopInv'
    OBVIOUS
  <2>1. Head(todo) \in Maps
    BY HeadTailProperties DEF StoreValue, TypeOK
  <2> QED
    BY <2>1, FlagsOfMap DEF LoopInv, StoreValue, TypeOK, Current
<1>2. ASSUME NEW f \in Flags, Visit(f) PROVE LoopInv'
  BY <1>2, VisitFrame DEF LoopInv, Current
<1>3. Quiet \/ AckRead \/ AckCommit => LoopInv'
  BY DEF Quiet, AckRead, AckCommit, link, txn, LoopInv, Current
<1>4. Commit \/ Fault => LoopInv'
  BY DEF Commit, Fault, LoopInv
<1> QED
  BY <1>1, <1>2, <1>3, <1>4, StepKinds

LEMMA StatusStep == ASSUME TypeOK, LoopInv, StatusInv, [Next]_vars PROVE StatusInv'
<1>0. todo # <<>> => Current \in Maps
  BY HeadTailProperties DEF TypeOK, Current
<1>1. CASE Quiet
  BY <1>1 DEF Quiet, StatusInv, Settled, Current
<1>2. CASE StoreValue
  <2>1. /\ pc = "map" /\ pc' = "flag" /\ todo' = todo /\ flags' = FlagSeq[Current]
        /\ UNCHANGED <<status, aborted>>
        /\ Current \in Maps
        /\ \A m \in Maps : m # Current => redis'[m] = redis[m]
    BY <1>0, <1>2 DEF StoreValue, Current, TypeOK
  <2>2. FlagsOf(Current) \ Elems(flags') = {}
    BY <2>1, FlagsOfMap
  <2> QED
    BY <2>1, <2>2 DEF StatusInv, Settled, Current
<1>3. ASSUME NEW f \in Flags, Visit(f) PROVE StatusInv'
  <2>1. /\ pc = "flag" /\ pc' = pc /\ f \in FlagsOf(Current)
        /\ UNCHANGED <<redis, shadow, todo, aborted>>
        /\ status' = [status EXCEPT ![f] = IF Active(f) THEN "on" ELSE "off"]
        /\ Elems(flags) \subseteq Elems(flags') \cup {f}
        /\ Current \in Maps
    BY <1>0, <1>3, VisitFrame DEF TypeOK
  <2>2. ASSUME NEW m \in Maps, m # Current, NEW g \in FlagsOf(m) PROVE status'[g] = status[g]
    BY <2>1, <2>2, OneRegister, FlagsOfMap DEF TypeOK
  <2>3. ASSUME NEW g \in FlagsOf(Current) \ Elems(flags')
        PROVE  (status'[g] = "on") <=> (g \in redis[Current])
    <3>1. g \in Flags
      BY <2>1, <2>3, FlagsOfMap
    <3>2. CASE g = f
      BY <2>1, <3>1, <3>2 DEF LoopInv, Active, TypeOK
    <3>3. CASE g # f
      BY <2>1, <2>3, <3>1, <3>3 DEF StatusInv, TypeOK
    <3> QED
      BY <3>2, <3>3
  <2> QED
    BY <2>1, <2>2, <2>3 DEF StatusInv, Settled, Current
<1>4. CASE Commit
  <2>1. /\ pc = "flag" /\ pc' = "map" /\ flags = <<>> /\ redis' = redis /\ status' = status
        /\ aborted' = aborted \ {Current}
    BY <1>4 DEF Commit, Current
  <2>2. Elems(flags) = {}
    BY <2>1 DEF Elems
  <2> QED
    BY <2>1, <2>2 DEF StatusInv, Settled, Current
<1>5. CASE Fault
  <2>1. pc = "flag" => Current \in aborted' /\ Current \in Maps
    BY <1>0, <1>5 DEF Fault, TypeOK
  <2>2. \A m \in Maps : m \notin aborted' => m \notin aborted /\ Settled(m)
    BY <1>5 DEF Fault, Settled, Current
  <2>3. ASSUME NEW m \in Maps \ aborted', NEW g \in FlagsOf(m) PROVE status'[g] = status[g]
    <3>1. CASE status' = status
      BY <3>1
    <3>2. CASE /\ pc = "flag" /\ flags # <<>>
               /\ \A h \in Flags : h # Head(flags) => status'[h] = status[h]
      <4>1. Head(flags) \in FlagsOf(Current)
        BY <3>2, TailElems DEF TypeOK, LoopInv
      <4>2. m # Current /\ g \in Flags
        BY <2>1, <3>2, FlagsOfMap
      <4>3. g # Head(flags)
        BY <2>1, <3>2, <4>1, <4>2, OneRegister
      <4> QED
        BY <3>2, <4>2, <4>3
    <3> QED
      BY <1>5, <3>1, <3>2 DEF Fault
  <2> QED
    BY <1>5, <2>2, <2>3 DEF Fault, StatusInv
<1>6. CASE AckRead
  BY <1>6 DEF AckRead, link, txn, StatusInv, Settled, Current
<1>7. CASE AckCommit
  BY <1>7 DEF AckCommit, link, txn, StatusInv, Settled, Current
<1> QED
  BY <1>1, <1>2, <1>3, <1>4, <1>5, <1>6, <1>7, StepKinds

\* Outside its transaction a register's Status fields are the bits of the value
\* redis holds.
THEOREM StatusFollows == Spec => []StatusFollowsRedis
<1>1. Init => LoopInv /\ StatusInv
  <2> SUFFICES ASSUME Init PROVE LoopInv /\ StatusInv
    OBVIOUS
  <2>1. \A m \in Maps : \A f \in FlagsOf(m) : status[f] # "on" /\ f \notin redis[m]
    BY FlagsOfMap DEF Init
  <2>2. pc # "flag"
    BY DEF Init
  <2> QED
    BY <2>1, <2>2 DEF LoopInv, StatusInv
<1>2. StatusInv => StatusFollowsRedis
  BY DEF StatusInv, StatusFollowsRedis
<1> QED
  BY <1>1, <1>2, LoopStep, StatusStep, TypeCorrect, PTL DEF Spec

-----------------------------------------------------------------------------
(* The messages against the table.                                         *)

\* No row of a published flag without a message, in the table or in the open
\* transaction.
PublishedInv ==
    \A f \in Mapped, n \in Inst :
        (Exists(table, <<f, n>>) \/ (pc = "flag" /\ Exists(view, <<f, n>>))) =>
            announced[f] # "none"

LEMMA PublishedVisit ==
    ASSUME TypeOK, KeysInOrder, IInv, PublishedInv, NEW f \in Flags, Visit(f)
    PROVE  PublishedInv'
<1>1. pc = "flag" /\ pc' = pc /\ table' = table
  BY VisitFrame DEF IInv
<1>2. announced' = announced \/ \E s \in {"New", "Recovery"} : Publish(f, s)
  BY DEF Visit, SilentFlag, NoEvent, NewEvent, AlreadyEvent, RecoverEvent
<1>3. /\ \A g \in Mapped : announced[g] # "none" => announced'[g] # "none"
      /\ \A g \in Flags : g # f => announced'[g] = announced[g]
      /\ f \in Mapped /\ announced' # announced => announced'[f] # "none"
  BY <1>2, HubAssumption DEF Publish, TypeOK
<1>4. ASSUME NEW g \in Mapped, NEW n \in Inst, Exists(view', <<g, n>>), ~Exists(view, <<g, n>>)
      PROVE  announced'[g] # "none"
  <2>1. g \in Flags /\ <<g, n>> \in Ids
    BY HubAssumption DEF Ids
  <2>2. g = f
    BY <1>4, <2>1, VisitOthers DEF Exists
  <2>3. CASE NewEvent(f)
    BY <1>4, <2>2, <2>3, HubAssumption DEF NewEvent, Publish, TypeOK
  <2>4. CASE AlreadyEvent(f)
    <3>1. PICK k \in Inst : k # 0 /\ InsertRow(f, k)
      BY <2>4, AlreadyEventRow, <1>1 DEF IInv, RowsInv
    <3>2. Exists(view, <<f, 0>>)
      <4>1. 0 < k
        BY <3>1, ZeroInst
      <4> QED
        BY <3>1, <4>1, ZeroInst DEF InsertRow
    <3> QED
      BY <1>1, <1>3, <1>4, <2>2, <3>2, ZeroInst DEF PublishedInv
  <2>5. CASE RecoverEvent(f)
    <3>1. PICK k \in Inst : RecoverRow(f, k)
      BY <2>5, RecoverEventRow
    <3>2. Exists(view', <<g, n>>) <=> Exists(view, <<g, n>>)
      BY <2>1, <2>2, <3>1 DEF RecoverRow, TypeOK, Row, Exists, Newest
    <3> QED
      BY <1>4, <3>2
  <2>6. CASE SilentFlag(f) \/ NoEvent(f)
    BY <1>4, <2>6 DEF SilentFlag, NoEvent, txn
  <2> QED
    BY <2>3, <2>4, <2>5, <2>6 DEF Visit
<1> QED
  BY <1>1, <1>3, <1>4 DEF PublishedInv, Exists

\* A row of a published flag, in the table, has been announced.
THEOREM Announced == ASSUME KeysInOrder PROVE Spec => []AnnouncedBeforeRecorded
<1>1. Init => PublishedInv
  <2> SUFFICES ASSUME Init PROVE PublishedInv
    OBVIOUS
  <2>1. \A f \in Mapped, n \in Inst : ~Exists(table, <<f, n>>)
    BY HubAssumption DEF Init, Exists, Absent, Ids
  <2> QED
    BY <2>1 DEF Init, PublishedInv
<1>2. TypeOK /\ IInv /\ PublishedInv /\ [Next]_vars => PublishedInv'
  <2> SUFFICES ASSUME TypeOK, IInv, PublishedInv, [Next]_vars PROVE PublishedInv'
    OBVIOUS
  <2>0. \A f \in Mapped, n \in Inst : <<f, n>> \in Ids
    BY HubAssumption DEF Ids
  <2>1. CASE Quiet
    BY <2>1 DEF Quiet, PublishedInv, Exists
  <2>2. CASE StoreValue
    BY <2>2 DEF StoreValue, PublishedInv, Exists
  <2>3. CASE Commit
    <3>1. pc = "flag" /\ pc' # "flag" /\ announced' = announced
      BY <2>3 DEF Commit
    <3>2. \A f \in Mapped, n \in Inst : Exists(table', <<f, n>>) <=> Exists(view, <<f, n>>)
      BY <2>0, <2>3, CommitRows
    <3> QED
      BY <3>1, <3>2 DEF PublishedInv
  <2>4. CASE Fault
    BY <2>4 DEF Fault, PublishedInv, Exists
  <2>5. CASE AckRead
    BY <2>5 DEF AckRead, link, txn, PublishedInv, Exists
  <2>6. CASE AckCommit
    <3>1. UNCHANGED <<pc, view, announced>>
      BY <2>6 DEF AckCommit, txn
    <3>2. \A f \in Mapped, n \in Inst : Exists(table', <<f, n>>) <=> Exists(table, <<f, n>>)
      BY <2>0, <2>6, AckRows
    <3> QED
      BY <3>1, <3>2 DEF PublishedInv, Exists
  <2> QED
    BY <2>1, <2>2, <2>3, <2>4, <2>5, <2>6, StepKinds, PublishedVisit
<1>3. PublishedInv => AnnouncedBeforeRecorded
  <2> SUFFICES ASSUME PublishedInv, NEW f \in Mapped, NEW id \in Found(table, f)
               PROVE  announced[f] # "none"
    BY DEF AnnouncedBeforeRecorded
  <2>1. \E n \in Inst : id = <<f, n>> /\ Exists(table, id)
    BY HubAssumption DEF Found, KeysInOrder, PrefixFree
  <2> QED
    BY <2>1 DEF PublishedInv
<1> QED
  BY <1>1, <1>2, <1>3, Invariance, TypeCorrect, PTL DEF Spec

\* The rows an acknowledgement has put back, less those the transaction is about
\* to recover.
PutBack == reopened \ {id \in dirty : ~IsOpen(view, id)}

MatchInv ==
    faults = 0 =>
        /\ \A m \in Watched : Settled(m) =>
               \A f \in FlagsOf(m) \cap Mapped :
                   (\A n \in Inst : <<f, n>> \notin reopened) =>
                       ((announced[f] = "New") <=> IsOpen(table, <<f, 0>>))
        /\ (pc = "flag" /\ Current \in Watched) =>
               \A f \in FlagsOf(Current) \cap Mapped :
                   (\A n \in Inst : <<f, n>> \notin PutBack) =>
                       ((announced[f] = "New") <=> IsOpen(view, <<f, 0>>))

LEMMA MatchVisit ==
    ASSUME TypeOK, KeysInOrder, IInv, MatchInv, NEW f \in Flags, Visit(f)
    PROVE  MatchInv'
<1>0. /\ pc = "flag" /\ pc' = pc /\ f \in FlagsOf(Current) /\ Current \in Maps
      /\ UNCHANGED <<table, todo, reopened, faults>>
  BY VisitFrame, HeadTailProperties DEF IInv, Current, TypeOK
<1>1. announced' = announced \/ \E s \in {"New", "Recovery"} : Publish(f, s)
  BY DEF Visit, SilentFlag, NoEvent, NewEvent, AlreadyEvent, RecoverEvent
<1>2. \A g \in Flags : g # f => announced'[g] = announced[g]
  BY <1>1 DEF Publish, TypeOK
<1>3. ASSUME faults = 0, NEW m \in Watched, Settled(m)', NEW g \in FlagsOf(m) \cap Mapped,
             \A n \in Inst : <<g, n>> \notin reopened'
      PROVE  (announced'[g] = "New") <=> IsOpen(table', <<g, 0>>)
  <2>1. m # Current /\ Settled(m) /\ m \in Maps
    BY <1>0, <1>3 DEF Settled, Current, Watched
  <2>2. g # f /\ g \in Flags
    BY <1>0, <2>1, OneRegister, FlagsOfMap
  <2> QED
    BY <1>0, <1>2, <1>3, <2>1, <2>2 DEF MatchInv, IsOpen
<1>4. ASSUME faults = 0, Current \in Watched, NEW g \in FlagsOf(Current) \cap Mapped,
             \A n \in Inst : <<g, n>> \notin PutBack'
      PROVE  (announced'[g] = "New") <=> IsOpen(view', <<g, 0>>)
  <2>0. g \in Flags /\ \A n \in Inst : <<g, n>> \in Ids
    BY <1>0, FlagsOfMap DEF Ids
  <2>1. (\A n \in Inst : <<g, n>> \notin PutBack) =>
            ((announced[g] = "New") <=> IsOpen(view, <<g, 0>>))
    BY <1>0, <1>4 DEF MatchInv
  <2>2. CASE UNCHANGED <<view, dirty, announced>>
    BY <1>0, <1>4, <2>1, <2>2 DEF PutBack, IsOpen
  <2>3. CASE g # f /\ ~UNCHANGED <<view, dirty, announced>>
    <3>1. \A n \in Inst : view'[<<g, n>>] = view[<<g, n>>]
      BY <2>0, <2>3, VisitOthers
    <3>2. \A n \in Inst : <<g, n>> \in dirty' <=> <<g, n>> \in dirty
      <4>1. \E k \in Inst : InsertRow(f, k) \/ RecoverRow(f, k)
        BY <1>0, <2>3, VisitRows DEF IInv
      <4>2. PICK k \in Inst : dirty' = dirty \cup {<<f, k>>}
        BY <4>1 DEF InsertRow, RecoverRow
      <4> QED
        BY <2>3, <4>2
    <3> QED
      BY <1>0, <1>2, <1>4, <2>0, <2>1, <2>3, <3>1, <3>2, ZeroInst DEF PutBack, IsOpen
  <2>4. CASE NewEvent(f) /\ g = f
    <3>1. InsertRow(f, 0) /\ <<f, 0>> \in Ids
      BY <2>0, <2>4, NewEventRow, ZeroInst
    <3>2. IsOpen(view', <<f, 0>>)
      BY <3>1 DEF InsertRow, TypeOK, IsOpen, NewRow
    <3>3. announced'[f] = "New"
      BY <1>4, <2>0, <2>4 DEF NewEvent, Publish, TypeOK
    <3> QED
      BY <2>4, <3>2, <3>3
  <2>5. CASE AlreadyEvent(f) /\ g = f
    <3>1. PICK k \in Inst : k # 0 /\ InsertRow(f, k)
      BY <1>0, <2>5, AlreadyEventRow DEF IInv, RowsInv
    <3>2. /\ \A n \in Inst : n # k => view'[<<f, n>>] = view[<<f, n>>]
          /\ IsOpen(view', <<f, k>>)
      BY <2>0, <2>5, <3>1 DEF InsertRow, TypeOK, IsOpen, NewRow
    <3>3. \A n \in Inst : n # k => (<<f, n>> \in dirty' <=> <<f, n>> \in dirty)
      BY <3>1 DEF InsertRow
    <3>4. \A n \in Inst : <<f, n>> \notin PutBack
      BY <1>0, <1>4, <2>5, <3>2, <3>3 DEF PutBack, IsOpen
    <3>5. announced' = announced
      BY <2>5 DEF AlreadyEvent
    <3> QED
      BY <2>1, <2>5, <3>1, <3>2, <3>4, <3>5, ZeroInst DEF IsOpen
  <2>6. CASE RecoverEvent(f) /\ g = f
    <3>1. PICK k \in Inst : RecoverRow(f, k)
      BY <2>6, RecoverEventRow
    <3>2. /\ \A n \in Inst : n # k => view'[<<f, n>>] = view[<<f, n>>]
          /\ ~IsOpen(view', <<f, k>>)
      BY <2>0, <2>6, <3>1 DEF RecoverRow, TypeOK, Row, IsOpen
    <3>3. announced'[f] = "Recovery"
      BY <1>4, <2>0, <2>6 DEF RecoverEvent, Publish, TypeOK
    <3>4. ASSUME IsOpen(view', <<f, 0>>) PROVE FALSE
      <4>1. k # 0 /\ IsOpen(view, <<f, 0>>)
        BY <3>2, <3>4, ZeroInst DEF IsOpen
      <4>2. ~Newest(view, f, 0)
        BY <3>1, <4>1, NewestUnique DEF RecoverRow
      <4>3. <<f, 0>> \in reopened
        BY <1>0, <4>1, <4>2, ZeroInst DEF IInv, RowsInv, OneOpen
      <4> QED
        BY <1>0, <1>4, <2>6, <3>4, <4>3, ZeroInst DEF PutBack
    <3> QED
      BY <2>6, <3>3, <3>4
  <2>7. ~SilentFlag(f)
    BY <1>4 DEF SilentFlag, Current, Watched
  <2>8. NoEvent(f) => UNCHANGED <<view, dirty, announced>>
    BY DEF NoEvent, txn
  <2> QED
    BY <2>2, <2>3, <2>4, <2>5, <2>6, <2>7, <2>8 DEF Visit
<1> QED
  BY <1>0, <1>3, <1>4 DEF MatchInv, Current

LEMMA MatchStep == ASSUME TypeOK, KeysInOrder, IInv, MatchInv, [Next]_vars PROVE MatchInv'
<1>1. CASE Quiet
  BY <1>1 DEF Quiet, MatchInv, PutBack, Settled, Current, IsOpen
<1>2. CASE StoreValue
  <2>1. /\ pc = "map" /\ pc' = "flag" /\ todo' = todo /\ view' = table /\ dirty' = {}
        /\ UNCHANGED <<table, announced, reopened, faults>>
    BY <1>2 DEF StoreValue
  <2>2. PutBack' = reopened
    BY <2>1 DEF PutBack
  <2> QED
    BY <2>1, <2>2 DEF MatchInv, Settled, Current, IsOpen
<1>3. CASE Commit
  <2>1. /\ pc = "flag" /\ pc' = "map" /\ reopened' = PutBack
        /\ UNCHANGED <<announced, faults>>
    BY <1>3 DEF Commit, PutBack
  <2> SUFFICES ASSUME faults = 0, NEW m \in Watched, NEW f \in FlagsOf(m) \cap Mapped,
                      \A n \in Inst : <<f, n>> \notin reopened'
               PROVE  (announced[f] = "New") <=> IsOpen(table', <<f, 0>>)
    BY <2>1 DEF MatchInv
  <2>2. m \in Maps /\ f \in Flags /\ <<f, 0>> \in Ids
    BY FlagsOfMap, ZeroInst DEF Watched, Ids
  <2>3. CASE m = Current
    <3>1. (announced[f] = "New") <=> IsOpen(view, <<f, 0>>)
      BY <2>1, <2>3 DEF MatchInv
    <3>2. IsOpen(table', <<f, 0>>) <=> IsOpen(view, <<f, 0>>)
      BY <1>3, <2>2, CommitRows, ZeroInst
    <3> QED
      BY <3>1, <3>2
  <2>4. CASE m # Current
    <3>1. \A n \in Inst : /\ table'[<<f, n>>] = table[<<f, n>>]
                          /\ <<f, n>> \notin reopened
      BY <1>3, <2>2, <2>4, CommitOthers
    <3>2. Settled(m)
      BY <2>4 DEF Settled, Current
    <3> QED
      BY <3>1, <3>2, ZeroInst DEF MatchInv, IsOpen
  <2> QED
    BY <2>3, <2>4
<1>4. CASE Fault
  BY <1>4 DEF Fault, MatchInv, TypeOK
<1>5. CASE AckRead
  BY <1>5 DEF AckRead, link, txn, MatchInv, PutBack, Settled, Current, IsOpen
<1>6. CASE AckCommit
  <2>1. UNCHANGED <<pc, view, dirty, todo, announced, faults>>
    BY <1>6 DEF AckCommit, link, txn
  <2>2. reopened \subseteq reopened' /\ PutBack \subseteq PutBack'
    BY <1>6, <2>1, AckRows DEF PutBack, IsOpen
  <2>3. ASSUME NEW m \in Watched, NEW f \in FlagsOf(m), \A n \in Inst : <<f, n>> \notin reopened'
        PROVE  IsOpen(table', <<f, 0>>) <=> IsOpen(table, <<f, 0>>)
    <3>1. <<f, 0>> \in Ids
      BY FlagsOfMap, ZeroInst DEF Watched, Ids
    <3>2. table'[<<f, 0>>].state = table[<<f, 0>>].state
      BY <1>6, <2>3, <3>1, AckRows, ZeroInst
    <3> QED
      BY <3>2 DEF IsOpen
  <2>4. faults = 0 =>
            \A m \in Watched : Settled(m)' =>
                \A f \in FlagsOf(m) \cap Mapped :
                    (\A n \in Inst : <<f, n>> \notin reopened') =>
                        ((announced'[f] = "New") <=> IsOpen(table', <<f, 0>>))
    BY <2>1, <2>2, <2>3 DEF MatchInv, Settled
  <2>5. faults = 0 =>
            ((pc = "flag" /\ Current \in Watched) =>
                \A f \in FlagsOf(Current) \cap Mapped :
                    (\A n \in Inst : <<f, n>> \notin PutBack') =>
                        ((announced'[f] = "New") <=> IsOpen(view', <<f, 0>>)))
    BY <2>1, <2>2 DEF MatchInv, IsOpen
  <2> QED
    BY <2>1, <2>4, <2>5 DEF MatchInv, Current
<1> QED
  BY <1>1, <1>2, <1>3, <1>4, <1>5, <1>6, StepKinds, MatchVisit

\* Until something fails, "New" is the last message of exactly the flags whose
\* first row is open, unless an acknowledgement has put one of their rows back.
THEOREM Matches == ASSUME KeysInOrder PROVE Spec => []AnnouncedMatches
<1>1. Init => MatchInv
  <2> SUFFICES ASSUME Init, NEW m \in Watched, NEW f \in FlagsOf(m)
               PROVE  announced[f] # "New" /\ ~IsOpen(table, <<f, 0>>)
    BY DEF Init, MatchInv
  <2>1. f \in Flags /\ <<f, 0>> \in Ids
    BY FlagsOfMap, ZeroInst DEF Watched, Ids
  <2> QED
    BY <2>1 DEF Init, IsOpen, Absent
<1>2. MatchInv => AnnouncedMatches
  BY DEF MatchInv, AnnouncedMatches
<1> QED
  BY <1>1, <1>2, MatchStep, Invariance, TypeCorrect, PTL DEF Spec

-----------------------------------------------------------------------------
\* The keys as they are written are in order for an alarm and ten re-occurrences,
\* when no flag's number begins with another's: then the table follows redis.
THEOREM SchemeHolds ==
    ASSUME MaxInst <= 10,
           \A f, g \in Flags : StartsWith(Digits[g], Digits[f]) => f = g
    PROVE  Spec => []TableFollowsRedis
  BY OneDigitInOrder, PrefixFreeNumbers, TableFollows DEF KeysInOrder

=============================================================================
