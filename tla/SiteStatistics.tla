--------------------------- MODULE SiteStatistics ---------------------------
(***************************************************************************)
(* The daily statistics (MapReducingService): a timer starts a MongoDB     *)
(* map-reduce over every measurement, again and again, and merges what     *)
(* comes out into a result collection.  The map and reduce functions are   *)
(* JavaScript files: statBySite, which is configured, and statByWhole.  The*)
(* example under Temp has a pair of its own and runs it once, by hand.     *)
(*                                                                         *)
(* MongoDB may reduce the values of a key at any time and reduce the       *)
(* result again with later ones; a key with one value it does not reduce.  *)
(* Amounts are whole numbers that PerHour divides as often as needed.      *)
(***************************************************************************)
EXTENDS Integers, Sequences, SequencesExt, FiniteSetsExt

CONSTANTS
    Tasks,       \* the map-reduce tasks considered
    Sites,       \* the sites; the measurements are of one day
    Whole,       \* the key of a statistic over all sites
    Documents,   \* the measurements there may be: a site and a reading
    Bare,        \* a measurement without its Pcs or its Pv part
    NaN,         \* what is not a number, undefined included
    None,        \* no result for the key
    PerHour,     \* readings an hour, one a second (3600 in the code)
    Runs,        \* bound: runs of the task at a time
    MaxDocs,     \* bound: measurements
    MaxFaults    \* bound: runs that fail for another reason than their input

Number == Int \cup {NaN}
Reading == [status : 0..7, power : Number, total : Number, energy : Number]

ASSUME StatisticsAssumption ==
    /\ Tasks \subseteq {"site", "whole", "example"}
    /\ Documents \subseteq [site : Sites, reading : Reading \cup {Bare}]
    /\ NaN \notin Int /\ Bare \notin Reading
    /\ Whole \notin Sites
    /\ PerHour \in Nat \ {0} /\ MaxDocs \in Nat /\ MaxFaults \in Nat

VARIABLES
    task,        \* the task followed, of MapReduceTasks
    docs,        \* the collection: [site, reading] in the order of insertion
    run,         \* run[r]: a callback of the timer at work, or Idle
    result,      \* result[k]: the document of key k in the result collection
    covers,      \* history: covers[k]: how many measurements the run had read
                 \* that result[k] comes from
    overlapped,  \* history: two runs were at work at a time
    stopped, faults

vars == <<task, docs, run, result, covers, overlapped, stopped, faults>>

Keys == Sites \cup {Whole}

-----------------------------------------------------------------------------
(* The map and reduce functions.                                           *)

\* Numbers of JavaScript: NaN swallows every sum.
Plus(a, b) == IF NaN \in {a, b} THEN NaN ELSE a + b
Hours(a) == IF a = NaN THEN NaN ELSE a \div PerHour
Summed(amounts) == FoldFunction(Plus, 0, amounts)
Total(values, Amount(_)) == Summed([i \in DOMAIN values |-> Amount(values[i])])

\* (status & 0x04) == 0x04 and (status & 0x05) == 0x05; undefined is 0 to both.
InBit4(value) == (value.status \div 4) % 2 = 1

\* Mutant: one of the two bits is enough.
InBits5_Any(value) == InBit4(value) \/ value.status % 2 = 1

InBits5(value) == InBit4(value) /\ value.status % 2 = 1

\* The fields of all the functions; chg, dhg and energy are accum_chargingkW,
\* accum_dischargingkW and accum_energykW of one and accumchg and accumdhg of
\* the others.  passes is history: how often the oldest part was reduced.
Value == [count : Number, status : 0..7, pcs : Number, pv : Number,
          chg : Number, dhg : Number, energy : Number, passes : Nat]

Emitted(count, reading, pv) ==
    [count |-> count, status |-> reading.status, pcs |-> reading.power, pv |-> pv,
     chg |-> 0, dhg |-> 0, energy |-> 0, passes |-> 0]

SiteMap(doc) == Emitted(NaN, doc.reading, doc.reading.total)
WholeMap(doc) == Emitted(1, doc.reading, doc.reading.energy)
ExampleMap(doc) == Emitted(1, doc.reading, doc.reading.energy)

\* What was reduced before comes first.
Passes(values) == 1 + values[1].passes

\* Mutant: what was reduced before is taken for one more measurement.
SiteReduce_Carries(values) ==
    [count |-> NaN, status |-> 4, pcs |-> Total(values, LAMBDA value : value.pcs), pv |-> NaN,
     chg |-> Hours(Total(values, LAMBDA value : IF InBit4(value) /\ value.pcs # NaN THEN value.pcs ELSE 0)),
     dhg |-> 0, energy |-> 0, passes |-> Passes(values)]

\* statBySite_Reduce: the fields it returns are not those it reads, so a
\* value it has reduced has no status and no power the next time.
SiteReduce(values) ==
    [count |-> NaN, status |-> 0, pcs |-> NaN, pv |-> NaN,
     chg |-> Hours(Total(values, LAMBDA value : IF InBit4(value) /\ value.pcs # NaN THEN value.pcs ELSE 0)),
     dhg |-> Hours(Total(values, LAMBDA value : IF InBits5(value) /\ value.pcs # NaN THEN value.pcs ELSE 0)),
     energy |-> Hours(Total(values, LAMBDA value : IF value.pv # NaN THEN value.pv ELSE 0)),
     passes |-> Passes(values)]

\* Mutant: the values are counted, not what they count.
WholeReduce_Length(values) ==
    [count |-> Len(values), status |-> 0,
     pcs |-> Hours(Total(values, LAMBDA value : value.pcs)),
     pv |-> Hours(Total(values, LAMBDA value : value.pv)),
     chg |-> Hours(Total(values, LAMBDA value : IF InBit4(value) THEN value.pcs ELSE 0)),
     dhg |-> Hours(Total(values, LAMBDA value : IF InBits5(value) THEN value.pcs ELSE 0)),
     energy |-> 0, passes |-> Passes(values)]

\* statByWhole_Reduce: the sums it reads again are divided again, and the
\* charges it has summed up are not read.
WholeReduce(values) ==
    [count |-> Total(values, LAMBDA value : value.count), status |-> 0,
     pcs |-> Hours(Total(values, LAMBDA value : value.pcs)),
     pv |-> Hours(Total(values, LAMBDA value : value.pv)),
     chg |-> Hours(Total(values, LAMBDA value : IF InBit4(value) THEN value.pcs ELSE 0)),
     dhg |-> Hours(Total(values, LAMBDA value : IF InBits5(value) THEN value.pcs ELSE 0)),
     energy |-> 0, passes |-> Passes(values)]

\* The example's Reduce is the same text.
ExampleReduce(values) == WholeReduce(values)

MapOf(doc) ==
    CASE task = "site" -> SiteMap(doc) [] task = "whole" -> WholeMap(doc) [] task = "example" -> ExampleMap(doc)
ReduceOf(values) ==
    CASE task = "site" -> SiteReduce(values) [] task = "whole" -> WholeReduce(values)
      [] task = "example" -> ExampleReduce(values)

\* The key emitted: the site and the day, or the day alone.
KeyOf(doc) == IF task = "whole" THEN Whole ELSE doc.site

-----------------------------------------------------------------------------
(* The runs.                                                               *)

\* A run maps one measurement after the other and then writes its output.
At(phase, next, values) == [phase |-> phase, next |-> next, values |-> values]
Empty == [k \in Keys |-> <<>>]
Idle == At("idle", 0, Empty)

\* The values with the one that the map function emits for doc.
With(values, doc) == [values EXCEPT ![KeyOf(doc)] = Append(@, MapOf(doc))]

\* What MongoDB makes of the values of a key it has several of.
Reduced(values) == [k \in Keys |->
    IF Len(values[k]) > 1 THEN <<ReduceOf(values[k])>> ELSE values[k]]

Init ==
    /\ task \in Tasks
    /\ docs = <<>>
    /\ run = [r \in Runs |-> Idle]
    /\ result = [k \in Keys |-> None]
    /\ covers = [k \in Keys |-> 0] /\ overlapped = FALSE
    /\ stopped = FALSE /\ faults = 0

\* A measurement arrives.
Insert ==
    /\ Len(docs) < MaxDocs
    /\ \E doc \in Documents : docs' = Append(docs, doc)
    /\ UNCHANGED <<task, run, result, covers, overlapped, stopped, faults>>

\* Mutant: the timer has no period.
DoMapreduce_Once(r) ==
    /\ ~stopped /\ run[r].phase = "idle" /\ docs = <<>>
    /\ run' = [run EXCEPT ![r] = At("map", 0, Empty)]
    /\ overlapped' = (overlapped \/ \E other \in Runs : run[other].phase # "idle")
    /\ UNCHANGED <<task, docs, result, covers, stopped, faults>>

\* The timer's callback begins; the timer does not wait for the last one.  The
\* example has no timer: it begins one run.
DoMapreduce(r) ==
    /\ ~stopped /\ run[r].phase = "idle"
    /\ run' = [run EXCEPT ![r] = At("map", 0, Empty)]
    /\ overlapped' = (overlapped \/ \E other \in Runs : run[other].phase # "idle")
    /\ stopped' = (task = "example")
    /\ UNCHANGED <<task, docs, result, covers, faults>>

\* Mutant: a measurement without Pcs or Pv is passed over, with the next one.
Map_Skips(r) ==
    /\ run[r].phase = "map" /\ run[r].next < Len(docs)
    /\ LET doc == docs[run[r].next + 1]
       IN  run' = [run EXCEPT ![r] =
                      IF doc.reading = Bare THEN At("map", @.next + 2, @.values)
                      ELSE At("map", @.next + 1, With(@.values, doc))]
    /\ UNCHANGED <<task, docs, result, covers, overlapped, stopped, faults>>

\* The map function on the next measurement; this.Pcs.ActivePower throws where
\* there is no Pcs, and this.Pv.TotalActivePower where there is no Pv, which ends
\* the run.
Map(r) ==
    /\ run[r].phase = "map" /\ run[r].next < Len(docs)
    /\ LET doc == docs[run[r].next + 1]
       IN  run' = [run EXCEPT ![r] =
                      IF doc.reading = Bare THEN Idle ELSE At("map", @.next + 1, With(@.values, doc))]
    /\ UNCHANGED <<task, docs, result, covers, overlapped, stopped, faults>>

\* MongoDB reduces what it has so far, to save memory.
Spill(r) ==
    /\ run[r].phase = "map" /\ \E k \in Keys : Len(run[r].values[k]) > 1
    /\ run' = [run EXCEPT ![r] = At("map", @.next, Reduced(@.values))]
    /\ UNCHANGED <<task, docs, result, covers, overlapped, stopped, faults>>

\* Mutant: the cursor is closed before the last measurement.
Finish_Early(r) ==
    /\ run[r].phase = "map"
    /\ run' = [run EXCEPT ![r] = At("out", @.next, Reduced(@.values))]
    /\ UNCHANGED <<task, docs, result, covers, overlapped, stopped, faults>>

\* No measurement is left to read: the values of every key are reduced.
Finish(r) ==
    /\ run[r].phase = "map" /\ run[r].next = Len(docs)
    /\ run' = [run EXCEPT ![r] = At("out", @.next, Reduced(@.values))]
    /\ UNCHANGED <<task, docs, result, covers, overlapped, stopped, faults>>

\* The output is merged: the document of a key takes the place of the last one.
Merge(r) ==
    /\ run[r].phase = "out"
    /\ LET values == run[r].values
       IN  /\ result' = [k \in Keys |-> IF values[k] = <<>> THEN result[k] ELSE values[k][1]]
           /\ covers' = [k \in Keys |-> IF values[k] = <<>> THEN covers[k] ELSE run[r].next]
    /\ run' = [run EXCEPT ![r] = Idle]
    /\ UNCHANGED <<task, docs, overlapped, stopped, faults>>

\* Another exception, which DoMapreduce logs.
Fail(r) ==
    /\ run[r].phase # "idle" /\ faults < MaxFaults
    /\ run' = [run EXCEPT ![r] = Idle]
    /\ faults' = faults + 1
    /\ UNCHANGED <<task, docs, result, covers, overlapped, stopped>>

\* The timers are stopped; a callback at work goes on.
StopAsync ==
    /\ ~stopped /\ stopped' = TRUE
    /\ UNCHANGED <<task, docs, run, result, covers, overlapped, faults>>

Next ==
    \/ Insert
    \/ \E r \in Runs : DoMapreduce(r) \/ Map(r) \/ Spill(r) \/ Finish(r) \/ Merge(r) \/ Fail(r)
    \/ StopAsync

Spec == Init /\ [][Next]_vars

\* The timer fires for ever, and a run it has started is carried through.
Fairness == \A r \in Runs : WF_vars(DoMapreduce(r)) /\ WF_vars(Map(r) \/ Finish(r) \/ Merge(r))

FairSpec == Spec /\ Fairness

-----------------------------------------------------------------------------
(* Properties.                                                             *)

Run == [phase : {"idle", "map", "out"}, next : 0..Len(docs), values : [Keys -> Seq(Value)]]

\* Every variable has its type, and no run reads past the collection's end.
TypeOK ==
    /\ task \in Tasks
    /\ docs \in Seq(Documents) /\ Len(docs) <= MaxDocs
    /\ run \in [Runs -> Run]
    /\ result \in [Keys -> Value \cup {None}]
    /\ covers \in [Keys -> 0..Len(docs)]
    /\ overlapped \in BOOLEAN /\ stopped \in BOOLEAN
    /\ faults \in 0..MaxFaults

\* The measurements of key k among the first n, and what a meter would show of
\* the amounts of some of them.
Seen(n, k) == {i \in 1..n : KeyOf(docs[i]) = k}
Metered(amounts) == Hours(Summed(amounts))

\* What a statistic should say: the power while status bit 4 is set, while bits
\* 4 and 1 are, and the PV power; the statistic by site leaves out what is no
\* number.
Counts(amount) == task # "site" \/ amount # NaN
Charged(n, k) == Metered([i \in {j \in Seen(n, k) : docs[j].reading.status \in {4, 5, 6, 7}
                                     /\ Counts(docs[j].reading.power)} |-> docs[i].reading.power])
Discharged(n, k) == Metered([i \in {j \in Seen(n, k) : docs[j].reading.status \in {5, 7}
                                        /\ Counts(docs[j].reading.power)} |-> docs[i].reading.power])
PvPower(reading) == IF task = "site" THEN reading.total ELSE reading.energy
Generated(n, k) == Metered([i \in {j \in Seen(n, k) : Counts(PvPower(docs[j].reading))}
                               |-> PvPower(docs[i].reading)])
PvOf(value) == IF task = "site" THEN value.energy ELSE value.pv

\* A result that MongoDB has reduced in one go is the statistic of the
\* measurements its run had read, whatever keys they were mixed with and
\* whatever is no number among them.
ExactInOnePass ==
    \A k \in Keys : result[k] # None /\ result[k].passes = 1 =>
        /\ result[k].chg = Charged(covers[k], k)
        /\ result[k].dhg = Discharged(covers[k], k)
        /\ PvOf(result[k]) = Generated(covers[k], k)

\* However MongoDB splits the values of a key, reducing what is reduced already,
\* the count of the functions that have one stays the number of measurements.
CountExact ==
    task # "site" => \A k \in Keys :
        result[k] # None => result[k].count = Cardinality(Seen(covers[k], k))

\* What is reduced more than once only loses: no reduced statistic is more than
\* what was metered (when no power is negative).
NeverOverstated ==
    \A k \in Keys : result[k] # None /\ result[k].passes > 0 =>
        /\ NaN \notin {result[k].chg, Charged(covers[k], k)} => result[k].chg <= Charged(covers[k], k)
        /\ NaN \notin {result[k].dhg, Discharged(covers[k], k)} => result[k].dhg <= Discharged(covers[k], k)
        /\ NaN \notin {PvOf(result[k]), Generated(covers[k], k)} => PvOf(result[k]) <= Generated(covers[k], k)

\* A run replaces the statistic of a key by one of as many measurements or more
\* as long as no two runs were at work at a time: the timer does not see to it.
FreshWhenAlone ==
    [][~overlapped => \A k \in Keys : covers'[k] >= covers[k]]_vars

\* While the timers run and no measurement lacks its Pcs or Pv part, the statistics
\* come to stand on all measurements, also after runs that failed and runs that
\* overlapped.
EventuallyCovered ==
    <>[](\/ stopped
         \/ \E i \in DOMAIN docs : docs[i].reading = Bare
         \/ \A k \in Keys : Seen(Len(docs), k) # {} => covers[k] = Len(docs))

=============================================================================
