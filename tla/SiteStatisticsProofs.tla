------------------------ MODULE SiteStatisticsProofs ------------------------
(***************************************************************************)
(* What a statistic covers and what it says, for every task, collection of *)
(* measurements, number of runs and hour.                                  *)
(*                                                                         *)
(* First the measurements a run has read.  Then what the map and reduce    *)
(* functions compute: Summed does not depend on the order in which it adds,*)
(* so that one value more adds its part; from there, what a run holds for a*)
(* key is related, step by step, to the measurements it has read (Sound),  *)
(* and what is merged to those it covers (Faithful).                       *)
(***************************************************************************)
EXTENDS SiteStatistics, SequenceTheorems, FiniteSetTheorems, WellFoundedInduction, TLAPS

-----------------------------------------------------------------------------
(* What a run has read and a statistic covers.                             *)

Form(f) == f = [phase |-> f.phase, next |-> f.next, values |-> f.values]

\* A measurement without its Pcs or its Pv part ends every run that reaches it:
\* no statistic is ever made that has one before its end.
NoneBare ==
    \A k \in Keys : \A i \in 1..covers[k] : docs[i].reading # Bare

\* A run has read no measurement beyond the collection's end, and none that
\* ends it; a merged statistic neither.
CoverInv ==
    /\ docs \in Seq(Documents)
    /\ run = [r \in Runs |-> run[r]]
    /\ \A r \in Runs :
          /\ Form(run[r])
          /\ run[r].phase \in {"idle", "map", "out"}
          /\ run[r].next \in Nat /\ run[r].next <= Len(docs)
          /\ \A i \in 1..run[r].next : docs[i].reading # Bare
    /\ covers \in [Keys -> Nat]
    /\ \A k \in Keys : covers[k] <= Len(docs)
    /\ NoneBare

\* Without overlapping runs one is at work at most, and what it has to merge
\* is of as many measurements as every statistic there is.
AloneInv ==
    ~overlapped =>
        /\ \A r, o \in Runs : run[r].phase # "idle" /\ run[o].phase # "idle" => r = o
        /\ \A r \in Runs, k \in Keys : run[r].phase = "out" => covers[k] <= run[r].next

\* At the start nothing has been read.
LEMMA InitCover ==
    ASSUME Init
    PROVE  CoverInv /\ AloneInv
<1>1. docs \in Seq(Documents) /\ Len(docs) = 0
  BY DEF Init
<1>2. \A r \in Runs : run[r] = Idle
  BY DEF Init
<1>3. Form(Idle) /\ Idle.phase = "idle" /\ Idle.next = 0
  BY DEF Form, Idle, At
<1>4. covers \in [Keys -> Nat] /\ \A k \in Keys : covers[k] = 0
  BY DEF Init
<1>5. run = [r \in Runs |-> run[r]]
  BY DEF Init
<1>6. NoneBare
  BY <1>4 DEF NoneBare
<1>7. CoverInv
  BY <1>1, <1>2, <1>3, <1>4, <1>5, <1>6 DEF CoverInv
<1>8. AloneInv
  BY <1>2, <1>3 DEF AloneInv
<1> QED
  BY <1>7, <1>8

\* The runs other than r are left alone.
Keeps(r) == \A o \in Runs : o # r => run'[o] = run[o]

\* What every step does to the runs, the collection and the statistics.
LEMMA Steps ==
    ASSUME CoverInv, [Next]_vars
    PROVE  \/ UNCHANGED <<run, covers, overlapped, result>> /\ docs' \in Seq(Documents)
                 /\ Len(docs') >= Len(docs) /\ \A i \in 1..Len(docs) : docs'[i] = docs[i]
           \/ /\ UNCHANGED docs /\ run' = [o \in Runs |-> run'[o]]
              /\ \E r \in Runs :
                    /\ Keeps(r) /\ Form(run'[r])
                    /\ \/ /\ run[r].phase = "idle" /\ run'[r].phase = "map" /\ run'[r].next = 0
                          /\ overlapped' = (overlapped \/ \E o \in Runs : run[o].phase # "idle")
                          /\ UNCHANGED covers
                       \/ /\ run[r].phase = "map" /\ run'[r].phase = "map"
                          /\ run[r].next < Len(docs) /\ run'[r].next = run[r].next + 1
                          /\ docs[run[r].next + 1].reading # Bare
                          /\ UNCHANGED <<covers, overlapped>>
                       \/ /\ run[r].phase = "map" /\ run'[r].phase = "map"
                          /\ run'[r].next = run[r].next
                          /\ UNCHANGED <<covers, overlapped>>
                       \/ /\ run[r].phase = "map" /\ run'[r].phase = "out"
                          /\ run[r].next = Len(docs) /\ run'[r].next = run[r].next
                          /\ UNCHANGED <<covers, overlapped>>
                       \/ /\ run[r].phase # "idle" /\ run'[r].phase = "idle" /\ run'[r].next = 0
                          /\ UNCHANGED <<covers, overlapped>>
                       \/ /\ run[r].phase = "out" /\ run'[r].phase = "idle" /\ run'[r].next = 0
                          /\ covers' \in [Keys -> Nat]
                          /\ \A k \in Keys : covers'[k] \in {covers[k], run[r].next}
                          /\ UNCHANGED overlapped
<1>0. /\ run = [r \in Runs |-> run[r]]
      /\ \A r \in Runs : run[r] = [phase |-> run[r].phase, next |-> run[r].next,
                                  values |-> run[r].values]
      /\ docs \in Seq(Documents) /\ covers \in [Keys -> Nat]
      /\ \A r \in Runs : run[r].next \in Nat
  BY DEF CoverInv, Form
<1> USE DEF Form, Keeps
<1>1. CASE Insert
  <2>1. PICK doc \in Documents : docs' = Append(docs, doc)
    BY <1>1 DEF Insert
  <2>2. /\ docs' \in Seq(Documents) /\ Len(docs') = Len(docs) + 1
        /\ \A i \in 1..Len(docs) : docs'[i] = docs[i]
    BY <1>0, <2>1, AppendProperties
  <2> QED
    BY <1>0, <1>1, <2>2, LenProperties DEF Insert
<1>2. ASSUME NEW r \in Runs, DoMapreduce(r)
      PROVE  /\ UNCHANGED <<docs, covers>> /\ run' = [o \in Runs |-> run'[o]]
             /\ Keeps(r) /\ Form(run'[r])
             /\ run[r].phase = "idle" /\ run'[r].phase = "map" /\ run'[r].next = 0
             /\ overlapped' = (overlapped \/ \E o \in Runs : run[o].phase # "idle")
  BY <1>0, <1>2 DEF DoMapreduce, Idle, At
<1>3. ASSUME NEW r \in Runs, Map(r)
      PROVE  /\ UNCHANGED <<docs, covers, overlapped>> /\ run' = [o \in Runs |-> run'[o]]
             /\ Keeps(r) /\ Form(run'[r]) /\ run[r].phase = "map"
             /\ \/ run'[r].phase = "idle" /\ run'[r].next = 0
                \/ /\ run'[r].phase = "map"
                   /\ run[r].next < Len(docs) /\ run'[r].next = run[r].next + 1
                   /\ docs[run[r].next + 1].reading # Bare
  BY <1>0, <1>3 DEF Map, Idle, At
<1>4. ASSUME NEW r \in Runs, Spill(r)
      PROVE  /\ UNCHANGED <<docs, covers, overlapped>> /\ run' = [o \in Runs |-> run'[o]]
             /\ Keeps(r) /\ Form(run'[r])
             /\ run[r].phase = "map" /\ run'[r].phase = "map" /\ run'[r].next = run[r].next
  BY <1>0, <1>4 DEF Spill, At
<1>5. ASSUME NEW r \in Runs, Finish(r)
      PROVE  /\ UNCHANGED <<docs, covers, overlapped>> /\ run' = [o \in Runs |-> run'[o]]
             /\ Keeps(r) /\ Form(run'[r]) /\ run[r].phase = "map" /\ run'[r].phase = "out"
             /\ run[r].next = Len(docs) /\ run'[r].next = run[r].next
  BY <1>0, <1>5 DEF Finish, At
<1>6. ASSUME NEW r \in Runs, Merge(r)
      PROVE  /\ UNCHANGED <<docs, overlapped>> /\ run' = [o \in Runs |-> run'[o]]
             /\ Keeps(r) /\ Form(run'[r])
             /\ run[r].phase = "out" /\ run'[r].phase = "idle" /\ run'[r].next = 0
             /\ covers' \in [Keys -> Nat]
             /\ \A k \in Keys : covers'[k] \in {covers[k], run[r].next}
  <2>1. covers' \in [Keys -> Nat] /\ \A k \in Keys : covers'[k] \in {covers[k], run[r].next}
    <3>1. covers' = [k \in Keys |-> IF run[r].values[k] = <<>> THEN covers[k] ELSE run[r].next]
      BY <1>6 DEF Merge
    <3> QED
      BY <1>0, <3>1
  <2> QED
    BY <1>0, <1>6, <2>1 DEF Merge, Idle, At
<1>7. ASSUME NEW r \in Runs, Fail(r)
      PROVE  /\ UNCHANGED <<docs, covers, overlapped>> /\ run' = [o \in Runs |-> run'[o]]
             /\ Keeps(r) /\ Form(run'[r])
             /\ run[r].phase # "idle" /\ run'[r].phase = "idle" /\ run'[r].next = 0
  BY <1>0, <1>7 DEF Fail, Idle, At
<1>8. CASE StopAsync \/ UNCHANGED vars
  BY <1>0, <1>8, LenProperties DEF StopAsync, vars
<1>9. CASE Insert \/ StopAsync \/ UNCHANGED vars
  BY <1>1, <1>8, <1>9
<1> HIDE DEF Form, Keeps
<1>10. CASE \E r \in Runs : DoMapreduce(r)
  BY <1>2, <1>10
<1>11. CASE \E r \in Runs : Map(r)
  <2>1. PICK r \in Runs : Map(r)
    BY <1>11
  <2>2. run[r].phase # "idle"
    BY <1>3, <2>1
  <2> QED
    BY <1>3, <2>1, <2>2
<1>12. CASE \E r \in Runs : Spill(r)
  BY <1>4, <1>12
<1>13. CASE \E r \in Runs : Finish(r)
  BY <1>5, <1>13
<1>14. CASE \E r \in Runs : Merge(r)
  BY <1>6, <1>14
<1>15. CASE \E r \in Runs : Fail(r)
  BY <1>7, <1>15
<1> QED
  BY <1>9, <1>10, <1>11, <1>12, <1>13, <1>14, <1>15 DEF Next

\* No step takes a measurement out of the collection or changes one.
LEMMA NextCover ==
    ASSUME CoverInv, [Next]_vars
    PROVE  CoverInv'
<1>1. CASE UNCHANGED <<run, covers, overlapped, result>> /\ docs' \in Seq(Documents)
           /\ Len(docs') >= Len(docs) /\ \A i \in 1..Len(docs) : docs'[i] = docs[i]
  <2>1. Len(docs) \in Nat /\ Len(docs') \in Nat
    BY <1>1, LenProperties DEF CoverInv
  <2>2. \A n \in Nat : n <= Len(docs) =>
           n <= Len(docs') /\ \A i \in 1..n : i \in 1..Len(docs) /\ docs'[i] = docs[i]
    BY <1>1, <2>1
  <2> QED
    BY <1>1, <2>1, <2>2 DEF CoverInv, NoneBare
<1>2. ASSUME NEW r \in Runs, UNCHANGED docs, run' = [o \in Runs |-> run'[o]],
             Keeps(r), Form(run'[r]),
             run'[r].phase \in {"idle", "map", "out"},
             run'[r].next \in Nat, run'[r].next <= Len(docs),
             \A i \in 1..run'[r].next : docs[i].reading # Bare,
             covers' \in [Keys -> Nat], \A k \in Keys : covers'[k] \in {covers[k], run[r].next}
      PROVE  CoverInv'
  <2>1. \A k \in Keys : covers'[k] <= Len(docs)
    BY <1>2 DEF CoverInv
  <2>2. NoneBare'
    BY <1>2 DEF CoverInv, NoneBare
  <2> QED
    BY <1>2, <2>1, <2>2 DEF CoverInv, Keeps
<1>3. covers \in [Keys -> Nat] /\ \A k \in Keys : covers[k] = covers[k]
  BY DEF CoverInv
<1>4. Len(docs) \in Nat
  BY LenProperties DEF CoverInv
<1>5. ASSUME NEW r \in Runs, run[r].next < Len(docs), run'[r].next = run[r].next + 1,
             docs[run[r].next + 1].reading # Bare
      PROVE  /\ run'[r].next \in Nat /\ run'[r].next <= Len(docs)
             /\ \A i \in 1..run'[r].next : docs[i].reading # Bare
  <2>1. run[r].next \in Nat /\ \A i \in 1..run[r].next : docs[i].reading # Bare
    BY DEF CoverInv
  <2>2. \A i \in 1..run'[r].next : i \in 1..run[r].next \/ i = run[r].next + 1
    BY <1>5, <2>1
  <2> QED
    BY <1>4, <1>5, <2>1, <2>2
<1>6. ASSUME NEW r \in Runs
      PROVE  /\ run[r].next \in Nat /\ run[r].next <= Len(docs) /\ 0 <= Len(docs)
             /\ \A i \in 1..run[r].next : docs[i].reading # Bare
             /\ \A i \in 1..0 : docs[i].reading # Bare
  BY <1>4 DEF CoverInv
<1> QED
  BY <1>1, <1>2, <1>3, <1>5, <1>6, Steps

\* No step lets a second run in unnoticed, or a run behind a statistic.
LEMMA NextAlone ==
    ASSUME CoverInv, AloneInv, [Next]_vars
    PROVE  /\ AloneInv'
           /\ ~overlapped => \A k \in Keys : covers'[k] >= covers[k]
<1> USE DEF AloneInv, Keeps
<1>1. /\ covers \in [Keys -> Nat] /\ \A k \in Keys : covers[k] <= Len(docs)
      /\ \A r \in Runs : run[r].next \in Nat
      /\ Len(docs) \in Nat
  BY LenProperties DEF CoverInv
<1>2. ~overlapped => \A k \in Keys : covers'[k] >= covers[k]
  BY <1>1, Steps
<1>3. AloneInv'
  <2>1. CASE UNCHANGED <<run, covers, overlapped, result>>
    BY <2>1
  <2>2. ASSUME NEW r \in Runs, Keeps(r), UNCHANGED <<covers, overlapped>>,
               run'[r].phase \in {run[r].phase, "idle"},
               run'[r].phase = "out" => run'[r].next = run[r].next
        PROVE  AloneInv'
    BY <2>2
  <2>3. ASSUME NEW r \in Runs, Keeps(r), UNCHANGED covers,
               run[r].phase = "idle", run'[r].phase = "map",
               overlapped' = (overlapped \/ \E o \in Runs : run[o].phase # "idle")
        PROVE  AloneInv'
    BY <2>3
  <2>4. ASSUME NEW r \in Runs, Keeps(r), UNCHANGED <<covers, overlapped>>,
               run[r].phase = "map", run'[r].phase = "out",
               run'[r].next = run[r].next, run[r].next = Len(docs)
        PROVE  AloneInv'
    BY <1>1, <2>4
  <2>5. ASSUME NEW r \in Runs, Keeps(r), UNCHANGED overlapped,
               run[r].phase = "out", run'[r].phase = "idle"
        PROVE  AloneInv'
    BY <2>5
  <2> HIDE DEF AloneInv, Keeps
  <2> QED
    BY <2>1, <2>2, <2>3, <2>4, <2>5, Steps
<1> QED
  BY <1>2, <1>3

\* Without overlapping runs a statistic is only ever replaced by one of as many
\* measurements or more.
THEOREM Fresh == Spec => FreshWhenAlone
<1>1. Init => CoverInv /\ AloneInv
  BY InitCover
<1>2. CoverInv /\ AloneInv /\ [Next]_vars => (CoverInv /\ AloneInv)'
  BY NextCover, NextAlone
<1>3. CoverInv /\ AloneInv /\ [Next]_vars =>
         [~overlapped => \A k \in Keys : covers'[k] >= covers[k]]_vars
  BY NextAlone
<1> QED
  BY <1>1, <1>2, <1>3, PTL DEF Spec, FreshWhenAlone

-----------------------------------------------------------------------------
(* Induction, stated with sets in the place of predicates.                 *)

\* Induction over the natural numbers, from their well-founded order.
LEMMA NatInduct ==
    ASSUME NEW S, 0 \in S, \A n \in Nat : n \in S => n + 1 \in S
    PROVE  \A n \in Nat : n \in S
<1> DEFINE Less == {ss \in Nat \X Nat : ss[1] < ss[2]}
           T == Nat \ S
<1>1. OpToRel(<, Nat) = Less
  BY DEF OpToRel
<1>2. IsWellFoundedOn(Less, Nat)
  BY <1>1, NatLessThanWellFounded
<1>3. SUFFICES ASSUME T # {}
               PROVE  FALSE
  OBVIOUS
<1>4. PICK m \in T : \A k \in T : <<k, m>> \notin Less
  BY <1>2, <1>3, WFMin
<1>5. m \in Nat /\ m # 0 /\ m - 1 \in Nat
  OBVIOUS
<1>6. <<m - 1, m>> \in Less
  BY <1>5
<1>7. m - 1 \in S
  BY <1>4, <1>5, <1>6
<1> QED
  BY <1>5, <1>7

\* A set of n + 1 elements has one, and n others.
LEMMA OneLess ==
    ASSUME NEW T, IsFiniteSet(T), NEW n \in Nat, Cardinality(T) = n + 1
    PROVE  T # {} /\ \A x \in T : Cardinality(T \ {x}) = n
<1>1. T # {}
  BY FS_EmptySet
<1>2. ASSUME NEW x \in T
      PROVE  Cardinality(T \ {x}) = n
  <2>1. Cardinality(T \ {x}) = Cardinality(T) - 1
    BY FS_RemoveElement
  <2> QED
    BY <2>1
<1> QED
  BY <1>1, <1>2

\* What {} has, and keeps with every element added, a finite set has.
LEMMA FiniteInduct ==
    ASSUME NEW S, IsFiniteSet(S), NEW G, {} \in G,
           \A T \in SUBSET S, x \in S : T \in G /\ x \notin T => T \cup {x} \in G
    PROVE  S \in G
<1> DEFINE N == {n \in Nat : \A T \in SUBSET S : Cardinality(T) = n => T \in G}
<1>1. \A T \in SUBSET S : IsFiniteSet(T) /\ Cardinality(T) \in Nat
  BY FS_Subset, FS_CardinalityType
<1>2. 0 \in N
  BY <1>1, FS_EmptySet
<1>3. ASSUME NEW n \in N
      PROVE  n + 1 \in N
  <2>1. SUFFICES ASSUME NEW T \in SUBSET S, Cardinality(T) = n + 1
                 PROVE  T \in G
    OBVIOUS
  <2>2. PICK x \in T : Cardinality(T \ {x}) = n
    BY <1>1, <2>1, OneLess
  <2>3. Cardinality(T \ {x}) = n
    BY <2>2
  <2>4. T \ {x} \in G /\ T = (T \ {x}) \cup {x}
    BY <2>2, <2>3
  <2> QED
    BY <2>2, <2>4
<1> HIDE DEF N
<1>4. \A n \in Nat : n \in N
  BY <1>2, <1>3, NatInduct
<1> QED
  BY <1>1, <1>4 DEF N

-----------------------------------------------------------------------------
(* Sums: Summed does not depend on the order in which it adds.             *)

\* h[T] is the sum of the amounts a[i] with i in T, for every T of the subsets of S.
SumsOn(a, S, h) ==
    /\ h \in [SUBSET S -> Number] /\ h[{}] = 0
    /\ \A T \in SUBSET S : \A x \in T : h[T] = Plus(a[x], h[T \ {x}])

\* Adding stays among the numbers of JavaScript; 0 adds nothing.
LEMMA PlusNumber ==
    /\ \A x, y \in Number : Plus(x, y) \in Number /\ Plus(x, y) = Plus(y, x)
    /\ \A x \in Number : Plus(x, 0) = x /\ Plus(0, x) = x
BY StatisticsAssumption DEF Number, Plus

\* Of three amounts it does not matter which is added last, NaN or not.
LEMMA PlusSwap ==
    ASSUME NEW x \in Number, NEW y \in Number, NEW z \in Number
    PROVE  Plus(x, Plus(y, z)) = Plus(y, Plus(x, z))
BY StatisticsAssumption DEF Number, Plus

\* Every finite set of amounts has its sums, in whatever order they are added.
LEMMA SumsExist ==
    ASSUME NEW S, IsFiniteSet(S), NEW a \in [S -> Number]
    PROVE  \E h : SumsOn(a, S, h)
<1> DEFINE G == {T \in SUBSET S : \E h : SumsOn(a, T, h)}
<1>1. {} \in G
  <2>1. SumsOn(a, {}, [T \in SUBSET {} |-> 0])
    BY DEF SumsOn, Number
  <2> QED
    BY <2>1
<1>2. ASSUME NEW U \in SUBSET S, NEW x \in S, U \in G, x \notin U
      PROVE  U \cup {x} \in G
  <2>1. PICK h : SumsOn(a, U, h)
    BY <1>2
  <2> DEFINE V == U \cup {x}
             g == [T \in SUBSET V |-> IF x \in T THEN Plus(a[x], h[T \ {x}]) ELSE h[T]]
  <2>2. \A T \in SUBSET V : /\ T \ {x} \in SUBSET U /\ h[T \ {x}] \in Number
                            /\ x \notin T => T \in SUBSET U /\ h[T] \in Number
    BY <2>1 DEF SumsOn
  <2>3. g \in [SUBSET V -> Number] /\ g[{}] = 0
    <3>1. g[{}] = 0
      BY <2>1 DEF SumsOn
    <3>2. \A T \in SUBSET V : g[T] \in Number
      BY <2>2, PlusNumber
    <3> QED
      BY <3>1, <3>2
  <2>4. ASSUME NEW T \in SUBSET V, NEW y \in T
        PROVE  g[T] = Plus(a[y], g[T \ {y}])
    <3>1. g[T] = IF x \in T THEN Plus(a[x], h[T \ {x}]) ELSE h[T]
      OBVIOUS
    <3>2. T \ {y} \in SUBSET V
      OBVIOUS
    <3>3. g[T \ {y}] = IF x \in T \ {y} THEN Plus(a[x], h[(T \ {y}) \ {x}]) ELSE h[T \ {y}]
      BY <3>2
    <3>4. CASE x = y
      BY <3>1, <3>3, <3>4
    <3>5. CASE x # y /\ x \notin T
      <4>1. T \in SUBSET U
        BY <2>2, <3>5
      <4> QED
        BY <2>1, <3>1, <3>3, <3>5, <4>1 DEF SumsOn
    <3>6. CASE x # y /\ x \in T
      <4>1. T \ {x} \in SUBSET U /\ y \in T \ {x} /\ (T \ {y}) \ {x} = (T \ {x}) \ {y}
        BY <3>6
      <4>2. h[T \ {x}] = Plus(a[y], h[(T \ {x}) \ {y}])
        BY <2>1, <4>1 DEF SumsOn
      <4>3. (T \ {x}) \ {y} \in SUBSET U
        BY <4>1
      <4>4. h[(T \ {x}) \ {y}] \in Number /\ a[x] \in Number /\ a[y] \in Number
        BY <2>1, <4>1, <4>3 DEF SumsOn
      <4>5. g[T] = Plus(a[x], Plus(a[y], h[(T \ {x}) \ {y}]))
        BY <3>1, <3>6, <4>2
      <4>6. g[T \ {y}] = Plus(a[x], h[(T \ {x}) \ {y}])
        BY <3>3, <3>6, <4>1
      <4>7. Plus(a[x], Plus(a[y], h[(T \ {x}) \ {y}])) = Plus(a[y], Plus(a[x], h[(T \ {x}) \ {y}]))
        BY <4>4, PlusSwap
      <4> HIDE DEF g
      <4> QED
        BY <4>5, <4>6, <4>7
    <3> QED
      BY <3>4, <3>5, <3>6
  <2> HIDE DEF g
  <2>5. SumsOn(a, V, g)
    BY <2>3, <2>4 DEF SumsOn
  <2> QED
    BY <2>5
<1> HIDE DEF G
<1>3. S \in G
  BY <1>1, <1>2, FiniteInduct
<1> QED
  BY <1>3 DEF G

\* What the definition of Summed chooses.
Iterates(a, iter) ==
    iter = [s \in SUBSET DOMAIN a |->
               IF s = {} THEN 0 ELSE Plus(a[CHOOSE x \in s : TRUE], iter[s \ {CHOOSE x \in s : TRUE}])]

\* The fold of the community module, taken apart.
LEMMA SummedIs == \A a : Summed(a) = (CHOOSE iter : Iterates(a, iter))[DOMAIN a]
BY DEF Summed, FoldFunction, FoldFunctionOnSet, MapThenFoldSet, Iterates

\* Summed adds in an order it chooses: the sum is that of any order.
LEMMA SummedBy ==
    ASSUME NEW S, IsFiniteSet(S), NEW a \in [S -> Number], NEW h, SumsOn(a, S, h)
    PROVE  Summed(a) = h[S]
<1> DEFINE g == CHOOSE iter : Iterates(a, iter)
<1>1. \A s \in SUBSET S : s # {} => (CHOOSE x \in s : TRUE) \in s
  OBVIOUS
<1>2. DOMAIN a = S /\ S \in SUBSET S /\ {} \in SUBSET S
  OBVIOUS
<1>3. \A s \in SUBSET S :
         h[s] = IF s = {} THEN 0 ELSE Plus(a[CHOOSE x \in s : TRUE], h[s \ {CHOOSE x \in s : TRUE}])
  BY <1>1 DEF SumsOn
<1>4. Iterates(a, h)
  <2>1. h = [s \in SUBSET S |-> h[s]]
    BY DEF SumsOn
  <2> QED
    BY <1>2, <1>3, <2>1 DEF Iterates
<1>5. Iterates(a, g)
  BY <1>4
<1> HIDE DEF g
<1>6. \A s \in SUBSET S :
         g[s] = IF s = {} THEN 0 ELSE Plus(a[CHOOSE x \in s : TRUE], g[s \ {CHOOSE x \in s : TRUE}])
  BY <1>2, <1>5 DEF Iterates
<1> DEFINE N == {n \in Nat : \A T \in SUBSET S : Cardinality(T) = n => g[T] = h[T]}
<1>7. \A T \in SUBSET S : IsFiniteSet(T) /\ Cardinality(T) \in Nat
  BY FS_Subset, FS_CardinalityType
<1>8. 0 \in N
  <2>1. \A T \in SUBSET S : Cardinality(T) = 0 => T = {}
    BY <1>7, FS_EmptySet
  <2> QED
    BY <1>2, <1>3, <1>6, <2>1
<1>9. ASSUME NEW n \in N
      PROVE  n + 1 \in N
  <2>1. SUFFICES ASSUME NEW T \in SUBSET S, Cardinality(T) = n + 1
                 PROVE  g[T] = h[T]
    OBVIOUS
  <2> DEFINE x == CHOOSE y \in T : TRUE
  <2>2. T # {} /\ \A y \in T : Cardinality(T \ {y}) = n
    BY <1>7, <2>1, OneLess
  <2>3. x \in T
    BY <2>2
  <2>4. g[T] = Plus(a[x], g[T \ {x}]) /\ h[T] = Plus(a[x], h[T \ {x}])
    BY <1>3, <1>6, <2>2
  <2> HIDE DEF x
  <2>5. Cardinality(T \ {x}) = n
    BY <2>2, <2>3
  <2>6. g[T \ {x}] = h[T \ {x}]
    BY <2>5
  <2> QED
    BY <2>4, <2>6
<1> HIDE DEF N
<1>10. \A n \in Nat : n \in N
  BY <1>8, <1>9, NatInduct
<1>11. g[S] = h[S]
  BY <1>2, <1>7, <1>10 DEF N
<1> QED
  BY <1>2, <1>11, SummedIs DEF g

\* Nothing sums up to 0, and one amount more is added, wherever it stands.
LEMMA SummedEmpty == \A a \in [{} -> Number] : Summed(a) = 0
<1>1. ASSUME NEW a \in [{} -> Number]
      PROVE  Summed(a) = 0
  <2>1. PICK h : SumsOn(a, {}, h)
    BY FS_EmptySet, SumsExist
  <2> QED
    BY <2>1, FS_EmptySet, SummedBy DEF SumsOn
<1> QED
  BY <1>1

\* b has the amounts of a and one more, at x.
IsAdded(S, x, a, b) ==
    /\ IsFiniteSet(S) /\ x \notin S
    /\ a \in [S -> Number] /\ b \in [S \cup {x} -> Number]
    /\ \A i \in S : b[i] = a[i]

\* One amount more adds itself to the sum.
LEMMA SummedAdds ==
    ASSUME NEW S, NEW x, NEW a, NEW b, IsAdded(S, x, a, b)
    PROVE  Summed(b) = Plus(Summed(a), b[x]) /\ Summed(a) \in Number
<1> USE DEF IsAdded
<1> DEFINE V == S \cup {x}
<1>1. IsFiniteSet(V)
  BY FS_AddElement
<1>2. PICK h : SumsOn(b, V, h)
  BY <1>1, SumsExist
<1> DEFINE g == [T \in SUBSET S |-> h[T]]
<1>3. SumsOn(a, S, g)
  <2>1. g \in [SUBSET S -> Number] /\ g[{}] = 0
    BY <1>2 DEF SumsOn
  <2>2. ASSUME NEW T \in SUBSET S, NEW y \in T
        PROVE  g[T] = Plus(a[y], g[T \ {y}])
    <3>1. T \in SUBSET V /\ T \ {y} \in SUBSET S /\ a[y] = b[y]
      OBVIOUS
    <3>2. h[T] = Plus(b[y], h[T \ {y}])
      BY <1>2, <3>1 DEF SumsOn
    <3> QED
      BY <3>1, <3>2
  <2> HIDE DEF g
  <2> QED
    BY <2>1, <2>2 DEF SumsOn
<1>4. Summed(a) = h[S] /\ Summed(a) \in Number
  <2>1. Summed(a) = g[S]
    BY <1>3, SummedBy
  <2> QED
    BY <1>2, <2>1 DEF SumsOn
<1>5. Summed(b) = h[V]
  BY <1>1, <1>2, SummedBy
<1>6. h[V] = Plus(b[x], h[V \ {x}]) /\ V \ {x} = S
  BY <1>2 DEF SumsOn
<1>7. b[x] \in Number
  OBVIOUS
<1> HIDE DEF V
<1>8. Plus(b[x], Summed(a)) = Plus(Summed(a), b[x])
  BY <1>4, <1>7, PlusNumber
<1> QED
  BY <1>4, <1>5, <1>6, <1>8

\* A sum is a number of JavaScript.
LEMMA SummedNumber ==
    ASSUME NEW S, IsFiniteSet(S), NEW a \in [S -> Number]
    PROVE  Summed(a) \in Number
<1>1. PICK h : SumsOn(a, S, h)
  BY SumsExist
<1>2. Summed(a) = h[S]
  BY <1>1, SummedBy
<1>3. S \in SUBSET S
  OBVIOUS
<1> QED
  BY <1>1, <1>2, <1>3 DEF SumsOn

-----------------------------------------------------------------------------
(* What the functions make of values.                                      *)

Metrics == {"chg", "dhg", "pv"}

\* What a reduce function takes from a value for a metric, and where it leaves it.
PcsIf(bit, value) == IF bit /\ (task = "site" => value.pcs # NaN) THEN value.pcs ELSE 0
Part(m, value) ==
    CASE m = "chg"   -> PcsIf(InBit4(value), value)
      [] m = "dhg"   -> PcsIf(InBits5(value), value)
      [] m = "pv"    -> IF task = "site" => value.pv # NaN THEN value.pv ELSE 0
      [] m = "count" -> value.count
Got(m, value) == CASE m = "chg" -> value.chg [] m = "dhg" -> value.dhg [] m = "pv" -> PvOf(value)
Parts(m, values) == Summed([i \in DOMAIN values |-> Part(m, values[i])])

\* What a measurement counts for a metric.
Relevant(m, reading) ==
    CASE m = "chg" -> reading.status \in {4, 5, 6, 7} /\ Counts(reading.power)
      [] m = "dhg" -> reading.status \in {5, 7} /\ Counts(reading.power)
      [] m = "pv"  -> Counts(PvPower(reading))
Amount(m, reading) == IF m = "pv" THEN PvPower(reading) ELSE reading.power
Chosen(m, n, k) == {i \in Seen(n, k) : Relevant(m, docs[i].reading)}
Due(m, n, k) == Summed([i \in Chosen(m, n, k) |-> Amount(m, docs[i].reading)])

\* What a statistic should say, in terms of what is due.
LEMMA DueIs ==
    \A n, k : /\ Charged(n, k) = Hours(Due("chg", n, k))
              /\ Discharged(n, k) = Hours(Due("dhg", n, k))
              /\ Generated(n, k) = Hours(Due("pv", n, k))
<1> SUFFICES ASSUME NEW n, NEW k
             PROVE  /\ Charged(n, k) = Hours(Due("chg", n, k))
                    /\ Discharged(n, k) = Hours(Due("dhg", n, k))
                    /\ Generated(n, k) = Hours(Due("pv", n, k))
  OBVIOUS
<1>1. Chosen("chg", n, k) = {j \in Seen(n, k) : docs[j].reading.status \in {4, 5, 6, 7}
                                /\ Counts(docs[j].reading.power)}
  BY DEF Chosen, Relevant
<1>2. Chosen("dhg", n, k) = {j \in Seen(n, k) : docs[j].reading.status \in {5, 7}
                                /\ Counts(docs[j].reading.power)}
  BY DEF Chosen, Relevant
<1>3. Chosen("pv", n, k) = {j \in Seen(n, k) : Counts(PvPower(docs[j].reading))}
  BY DEF Chosen, Relevant
<1>4. Charged(n, k) = Hours(Due("chg", n, k))
  BY <1>1 DEF Charged, Metered, Due, Amount
<1>5. Discharged(n, k) = Hours(Due("dhg", n, k))
  BY <1>2 DEF Discharged, Metered, Due, Amount
<1>6. Generated(n, k) = Hours(Due("pv", n, k))
  BY <1>3 DEF Generated, Metered, Due, Amount
<1> QED
  BY <1>4, <1>5, <1>6

\* Hours keep numbers numbers and never add to an amount.
LEMMA HoursNumber ==
    /\ \A x \in Number : Hours(x) \in Number
    /\ \A x \in Nat : Hours(x) \in Nat /\ Hours(x) <= x
    /\ \A x, y \in Nat : x <= y => Hours(x) <= Hours(y)
BY StatisticsAssumption DEF Number, Hours

\* What is taken from a value is a number of JavaScript.
LEMMA PartNumber ==
    ASSUME NEW value \in Value, NEW m \in Metrics \cup {"count"}
    PROVE  Part(m, value) \in Number
<1>1. value.pcs \in Number /\ value.pv \in Number /\ value.count \in Number /\ 0 \in Number
  BY DEF Value, Number
<1> QED
  BY <1>1 DEF Part, PcsIf, Metrics

\* One value more adds its part.
LEMMA PartsAppend ==
    ASSUME NEW values \in Seq(Value), NEW value \in Value, NEW m \in Metrics \cup {"count"}
    PROVE  /\ Parts(m, values) \in Number
           /\ Parts(m, Append(values, value)) = Plus(Parts(m, values), Part(m, value))
<1> DEFINE n == Len(values)
           all == Append(values, value)
           a == [i \in DOMAIN values |-> Part(m, values[i])]
           b == [i \in DOMAIN all |-> Part(m, all[i])]
<1>1. n \in Nat /\ DOMAIN values = 1..n /\ \A i \in 1..n : values[i] \in Value
  BY LenProperties, ElementOfSeq
<1>2. /\ all \in Seq(Value) /\ DOMAIN all = 1..(n + 1) /\ all[n + 1] = value
      /\ \A i \in 1..n : all[i] = values[i]
  BY AppendProperties, LenProperties
<1>3. 1..(n + 1) = 1..n \cup {n + 1} /\ n + 1 \notin 1..n
  BY <1>1
<1>4. a \in [1..n -> Number]
  BY <1>1, PartNumber
<1>5. \A i \in 1..(n + 1) : all[i] \in Value
  BY <1>1, <1>2, <1>3
<1>6. b \in [1..n \cup {n + 1} -> Number]
  BY <1>2, <1>3, <1>5, PartNumber
<1>7. \A i \in 1..n : b[i] = a[i]
  BY <1>1, <1>2, <1>3
<1>8. b[n + 1] = Part(m, value)
  BY <1>2, <1>3
<1>9. IsFiniteSet(1..n)
  BY <1>1, FS_Interval
<1>10. Parts(m, values) = Summed(a) /\ Parts(m, all) = Summed(b)
  BY DEF Parts
<1>11. Summed(b) = Plus(Summed(a), b[n + 1]) /\ Summed(a) \in Number
  <2> HIDE DEF a, b
  <2>1. IsAdded(1..n, n + 1, a, b)
    BY <1>3, <1>4, <1>6, <1>7, <1>9 DEF IsAdded
  <2> QED
    BY <2>1, SummedAdds
<1> HIDE DEF a, b, n, all
<1>12. Parts(m, values) \in Number /\ Parts(m, all) = Plus(Parts(m, values), Part(m, value))
  BY <1>8, <1>10, <1>11
<1> QED
  BY <1>12 DEF all

\* No values, no parts.
LEMMA PartsOfNone == \A m : Parts(m, <<>>) = 0
<1> SUFFICES ASSUME NEW m
             PROVE  Parts(m, <<>>) = 0
  OBVIOUS
<1> DEFINE none == <<>>
           a == [i \in DOMAIN none |-> Part(m, none[i])]
<1>1. DOMAIN none = {}
  OBVIOUS
<1>2. Parts(m, none) = Summed(a)
  BY DEF Parts
<1> HIDE DEF none
<1>3. a \in [{} -> Number]
  BY <1>1
<1> HIDE DEF a
<1>4. Parts(m, none) = 0
  BY <1>2, <1>3, SummedEmpty
<1> QED
  BY <1>4 DEF none

\* The parts of one value are its part.
LEMMA PartsOfOne ==
    ASSUME NEW value \in Value, NEW m \in Metrics \cup {"count"}
    PROVE  Parts(m, <<value>>) = Part(m, value)
<1>1. <<>> \in Seq(Value) /\ Append(<<>>, value) = <<value>>
  BY EmptySeq
<1>2. Parts(m, <<value>>) = Plus(0, Part(m, value))
  BY <1>1, PartsOfNone, PartsAppend
<1> QED
  BY <1>2, PartNumber, PlusNumber

\* A measurement with its parts gives one value, which no function has reduced
\* and from which the reduce function takes what the measurement counts.
LEMMA MapGives ==
    ASSUME task \in Tasks, NEW doc \in Documents, doc.reading # Bare
    PROVE  /\ MapOf(doc) \in Value /\ MapOf(doc).passes = 0
           /\ task # "site" => Part("count", MapOf(doc)) = 1
           /\ \A m \in Metrics :
                 /\ Part(m, MapOf(doc)) = IF Relevant(m, doc.reading) THEN Amount(m, doc.reading) ELSE 0
                 /\ Relevant(m, doc.reading) => Amount(m, doc.reading) \in Number
<1> DEFINE reading == doc.reading
<1>1. reading \in Reading /\ doc.site \in Sites
  BY StatisticsAssumption
<1>2. /\ reading.status \in 0..7 /\ reading.power \in Number
      /\ reading.total \in Number /\ reading.energy \in Number
  BY <1>1 DEF Reading
<1>3. task \in {"site", "whole", "example"}
  BY StatisticsAssumption
<1>4. MapOf(doc) = IF task = "site" THEN Emitted(NaN, reading, reading.total)
                                    ELSE Emitted(1, reading, reading.energy)
  BY <1>3 DEF MapOf, SiteMap, WholeMap, ExampleMap
<1> HIDE DEF reading
<1>5. MapOf(doc) = [count |-> IF task = "site" THEN NaN ELSE 1, status |-> reading.status,
                    pcs |-> reading.power, pv |-> PvPower(reading),
                    chg |-> 0, dhg |-> 0, energy |-> 0, passes |-> 0]
  BY <1>4 DEF Emitted, PvPower
<1>6. PvPower(reading) \in Number
  BY <1>2 DEF PvPower
<1>7. MapOf(doc) \in Value /\ MapOf(doc).passes = 0
  BY <1>2, <1>5, <1>6 DEF Value, Number
<1>8. task # "site" => Part("count", MapOf(doc)) = 1
  BY <1>5 DEF Part
<1>9. InBit4(MapOf(doc)) <=> reading.status \in {4, 5, 6, 7}
  BY <1>2, <1>5 DEF InBit4
<1>10. InBits5(MapOf(doc)) <=> reading.status \in {5, 7}
  BY <1>2, <1>5 DEF InBits5, InBit4
<1>11. Part("chg", MapOf(doc)) = IF Relevant("chg", reading) THEN Amount("chg", reading) ELSE 0
  BY <1>5, <1>9 DEF Part, PcsIf, Relevant, Amount, Counts
<1>12. Part("dhg", MapOf(doc)) = IF Relevant("dhg", reading) THEN Amount("dhg", reading) ELSE 0
  BY <1>5, <1>10 DEF Part, PcsIf, Relevant, Amount, Counts
<1>13. Part("pv", MapOf(doc)) = IF Relevant("pv", reading) THEN Amount("pv", reading) ELSE 0
  BY <1>5 DEF Part, Relevant, Amount, Counts
<1>14. \A m \in Metrics : Amount(m, reading) \in Number
  BY <1>2, <1>6 DEF Amount
<1> QED
  BY <1>7, <1>8, <1>11, <1>12, <1>13, <1>14 DEF Metrics, reading

\* The reduce functions: the metrics are the hours of what is taken from the
\* values, and of these only the count, and the PV power but not by site, is
\* taken from the result the next time.
LEMMA ReduceGives ==
    ASSUME task \in Tasks, NEW values \in Seq(Value), Len(values) > 0
    PROVE  LET value == ReduceOf(values)
           IN  /\ value \in Value /\ value.passes = 1 + values[1].passes
               /\ \A m \in Metrics : Got(m, value) = Hours(Parts(m, values))
               /\ Part("chg", value) = 0 /\ Part("dhg", value) = 0
               /\ Part("pv", value) = IF task = "site" THEN 0 ELSE Hours(Parts("pv", values))
               /\ task # "site" => Part("count", value) = Parts("count", values)
<1> DEFINE value == ReduceOf(values)
           T(m) == Parts(m, values)
           pcs == Total(values, LAMBDA v : v.pcs)
<1>1. task \in {"site", "whole", "example"}
  BY StatisticsAssumption
<1>2. 1 \in DOMAIN values /\ \A i \in DOMAIN values : values[i] \in Value
  BY LenProperties, ElementOfSeq
<1>3. values[1].passes \in Nat
  BY <1>2 DEF Value
<1>4. \A m \in Metrics \cup {"count"} : T(m) \in Number
  BY <1>2, PartsAppend
<1>5. pcs \in Number
  <2> DEFINE a == [i \in DOMAIN values |-> values[i].pcs]
  <2>1. a \in [DOMAIN values -> Number]
    BY <1>2 DEF Value
  <2>2. IsFiniteSet(DOMAIN values)
    BY LenProperties, FS_Interval
  <2>3. pcs = Summed(a)
    BY DEF Total
  <2> HIDE DEF a, pcs
  <2> QED
    BY <2>1, <2>2, <2>3, SummedNumber
<1>6. CASE task = "site"
  <2>1. T("chg") = Summed([i \in DOMAIN values |->
            IF InBit4(values[i]) /\ values[i].pcs # NaN THEN values[i].pcs ELSE 0])
    <3>1. [i \in DOMAIN values |-> IF InBit4(values[i]) /\ values[i].pcs # NaN THEN values[i].pcs ELSE 0]
            = [i \in DOMAIN values |-> Part("chg", values[i])]
      BY <1>6 DEF Part, PcsIf
    <3> QED
      BY <3>1 DEF Parts
  <2>2. T("dhg") = Summed([i \in DOMAIN values |->
            IF InBits5(values[i]) /\ values[i].pcs # NaN THEN values[i].pcs ELSE 0])
    <3>1. [i \in DOMAIN values |-> IF InBits5(values[i]) /\ values[i].pcs # NaN THEN values[i].pcs ELSE 0]
            = [i \in DOMAIN values |-> Part("dhg", values[i])]
      BY <1>6 DEF Part, PcsIf
    <3> QED
      BY <3>1 DEF Parts
  <2>3. T("pv") = Summed([i \in DOMAIN values |-> IF values[i].pv # NaN THEN values[i].pv ELSE 0])
    <3>1. [i \in DOMAIN values |-> IF values[i].pv # NaN THEN values[i].pv ELSE 0]
            = [i \in DOMAIN values |-> Part("pv", values[i])]
      BY <1>6 DEF Part
    <3> QED
      BY <3>1 DEF Parts
  <2>11. value = SiteReduce(values)
    BY <1>6 DEF ReduceOf
  <2> HIDE DEF value, T
  <2>4. value = [count |-> NaN, status |-> 0, pcs |-> NaN, pv |-> NaN,
                 chg |-> Hours(T("chg")), dhg |-> Hours(T("dhg")), energy |-> Hours(T("pv")),
                 passes |-> 1 + values[1].passes]
    BY <2>1, <2>2, <2>3, <2>11 DEF SiteReduce, Total, Passes
  <2>12. /\ \A m \in Metrics : Hours(T(m)) \in Number
         /\ 1 + values[1].passes \in Nat /\ NaN \in Number
    <3>1. \A m \in Metrics : Hours(T(m)) \in Number
      BY <1>4, HoursNumber
    <3> QED
      BY <1>3, <3>1 DEF Number
  <2>5. value \in Value
    BY <2>4, <2>12 DEF Value, Metrics
  <2>6. \A m \in Metrics : Got(m, value) = Hours(T(m))
    BY <1>6, <2>4 DEF Got, PvOf, Metrics
  <2>7. Part("chg", value) = 0 /\ Part("dhg", value) = 0 /\ Part("pv", value) = 0
    BY <1>6, <2>4 DEF Part, PcsIf
  <2> QED
    BY <1>6, <2>4, <2>5, <2>6, <2>7 DEF value, T
<1>7. CASE task # "site"
  <2>1. T("chg") = Summed([i \in DOMAIN values |-> IF InBit4(values[i]) THEN values[i].pcs ELSE 0])
    <3>1. [i \in DOMAIN values |-> IF InBit4(values[i]) THEN values[i].pcs ELSE 0]
            = [i \in DOMAIN values |-> Part("chg", values[i])]
      BY <1>7 DEF Part, PcsIf
    <3> QED
      BY <3>1 DEF Parts
  <2>2. T("dhg") = Summed([i \in DOMAIN values |-> IF InBits5(values[i]) THEN values[i].pcs ELSE 0])
    <3>1. [i \in DOMAIN values |-> IF InBits5(values[i]) THEN values[i].pcs ELSE 0]
            = [i \in DOMAIN values |-> Part("dhg", values[i])]
      BY <1>7 DEF Part, PcsIf
    <3> QED
      BY <3>1 DEF Parts
  <2>3. T("pv") = Summed([i \in DOMAIN values |-> values[i].pv])
    <3>1. [i \in DOMAIN values |-> values[i].pv] = [i \in DOMAIN values |-> Part("pv", values[i])]
      BY <1>7 DEF Part
    <3> QED
      BY <3>1 DEF Parts
  <2>4. T("count") = Summed([i \in DOMAIN values |-> values[i].count])
    <3>1. [i \in DOMAIN values |-> values[i].count] = [i \in DOMAIN values |-> Part("count", values[i])]
      BY DEF Part
    <3> QED
      BY <3>1 DEF Parts
  <2>5. value = WholeReduce(values)
    BY <1>1, <1>7 DEF ReduceOf, ExampleReduce
  <2>11. pcs = Summed([i \in DOMAIN values |-> values[i].pcs])
    BY DEF Total
  <2> HIDE DEF value, T, pcs
  <2>6. value = [count |-> T("count"), status |-> 0, pcs |-> Hours(pcs), pv |-> Hours(T("pv")),
                 chg |-> Hours(T("chg")), dhg |-> Hours(T("dhg")), energy |-> 0,
                 passes |-> 1 + values[1].passes]
    BY <2>1, <2>2, <2>3, <2>4, <2>5, <2>11 DEF WholeReduce, Total, Passes
  <2>12. /\ \A m \in Metrics : Hours(T(m)) \in Number
         /\ 1 + values[1].passes \in Nat /\ Hours(pcs) \in Number
         /\ T("count") \in Number /\ 0 \in Number
    <3>1. /\ \A m \in Metrics : Hours(T(m)) \in Number
          /\ Hours(pcs) \in Number /\ T("count") \in Number
      BY <1>4, <1>5, HoursNumber
    <3> QED
      BY <1>3, <3>1 DEF Number
  <2>7. value \in Value
    BY <2>6, <2>12 DEF Value, Metrics
  <2>8. \A m \in Metrics : Got(m, value) = Hours(T(m))
    BY <1>7, <2>6 DEF Got, PvOf, Metrics
  <2>9. Part("chg", value) = 0 /\ Part("dhg", value) = 0
    BY <1>7, <2>6 DEF Part, PcsIf, InBits5, InBit4
  <2>10. Part("pv", value) = Hours(T("pv")) /\ Part("count", value) = T("count")
    BY <1>7, <2>6 DEF Part
  <2> QED
    BY <1>7, <2>6, <2>7, <2>8, <2>9, <2>10 DEF value, T
<1> QED
  BY <1>6, <1>7

-----------------------------------------------------------------------------
(* What the measurements count, one after the other.                       *)

\* Every one of the first n measurements has its parts.
Readable(n) == n \in Nat /\ n <= Len(docs) /\ \A i \in 1..n : docs[i].reading # Bare

\* One measurement more adds what the reduce function will take from its value.
LEMMA DueGrows ==
    ASSUME task \in Tasks, docs \in Seq(Documents), NEW n \in Nat, n < Len(docs), Readable(n + 1),
           NEW m \in Metrics, NEW k
    PROVE  /\ Due(m, n, k) \in Number
           /\ Due(m, n + 1, k) = IF KeyOf(docs[n + 1]) = k
                                 THEN Plus(Due(m, n, k), Part(m, MapOf(docs[n + 1])))
                                 ELSE Due(m, n, k)
<1> DEFINE doc == docs[n + 1]
           S == Chosen(m, n, k)
           T == Chosen(m, n + 1, k)
           a == [i \in S |-> Amount(m, docs[i].reading)]
           b == [i \in T |-> Amount(m, docs[i].reading)]
<1>1. Len(docs) \in Nat /\ \A i \in 1..(n + 1) : docs[i] \in Documents /\ docs[i].reading # Bare
  BY LenProperties, ElementOfSeq DEF Readable
<1>2. doc \in Documents /\ doc.reading # Bare
  BY <1>1
<1>3. \A i \in 1..(n + 1) : Relevant(m, docs[i].reading) => Amount(m, docs[i].reading) \in Number
  BY <1>1, MapGives
<1>4. Part(m, MapOf(doc)) = IF Relevant(m, doc.reading) THEN Amount(m, doc.reading) ELSE 0
  BY <1>2, MapGives
<1>5. 1..(n + 1) = 1..n \cup {n + 1} /\ n + 1 \notin 1..n
  OBVIOUS
<1>6. /\ \A i \in S : i \in 1..n /\ Relevant(m, docs[i].reading)
      /\ \A i \in T : i \in 1..(n + 1) /\ Relevant(m, docs[i].reading)
  BY DEF Chosen, Seen
<1>7. a \in [S -> Number]
  BY <1>3, <1>5, <1>6
<1>8. b \in [T -> Number]
  BY <1>3, <1>6
<1>9. IsFiniteSet(S)
  <2>1. IsFiniteSet(1..n) /\ S \in SUBSET (1..n)
    BY <1>6, FS_Interval
  <2> QED
    BY <2>1, FS_Subset
<1>10. Due(m, n, k) = Summed(a) /\ Due(m, n + 1, k) = Summed(b)
  BY DEF Due
<1>11. Summed(a) \in Number
  <2> HIDE DEF a, S
  <2> QED
    BY <1>7, <1>9, SummedNumber
<1>12. CASE KeyOf(doc) = k /\ Relevant(m, doc.reading)
  <2>1. T = S \cup {n + 1} /\ n + 1 \notin S
    BY <1>5, <1>6, <1>12 DEF Chosen, Seen
  <2>2. b[n + 1] = Amount(m, doc.reading)
    BY <2>1
  <2>3. \A i \in S : b[i] = a[i]
    BY <2>1
  <2> HIDE DEF a, b, S, T
  <2>4. IsAdded(S, n + 1, a, b)
    BY <1>7, <1>8, <1>9, <2>1, <2>3 DEF IsAdded
  <2>5. Summed(b) = Plus(Summed(a), b[n + 1])
    BY <2>4, SummedAdds
  <2> QED
    BY <1>4, <1>10, <1>11, <1>12, <2>2, <2>5
<1>13. CASE ~(KeyOf(doc) = k /\ Relevant(m, doc.reading))
  <2>1. T = S
    BY <1>5, <1>13 DEF Chosen, Seen
  <2>2. Summed(b) = Summed(a)
    BY <2>1
  <2>3. KeyOf(doc) = k => Part(m, MapOf(doc)) = 0
    BY <1>4, <1>13
  <2> HIDE DEF a, b, doc
  <2> QED
    BY <1>10, <1>11, <2>2, <2>3, PlusNumber DEF doc
<1> QED
  BY <1>12, <1>13

\* Nothing is due of no measurement.
LEMMA DueNone ==
    ASSUME NEW m, NEW k
    PROVE  Due(m, 0, k) = 0 /\ Seen(0, k) = {}
<1>1. Seen(0, k) = {}
  BY DEF Seen
<1>2. Chosen(m, 0, k) = {}
  BY <1>1 DEF Chosen
<1> DEFINE a == [i \in Chosen(m, 0, k) |-> Amount(m, docs[i].reading)]
<1>3. a \in [{} -> Number]
  BY <1>2
<1>4. Due(m, 0, k) = Summed(a)
  BY DEF Due
<1> HIDE DEF a
<1> QED
  BY <1>1, <1>3, <1>4, SummedEmpty

\* What is due is a number of JavaScript.
LEMMA DueNumber ==
    ASSUME task \in Tasks, docs \in Seq(Documents), NEW n, Readable(n), NEW m \in Metrics, NEW k
    PROVE  Due(m, n, k) \in Number
<1>1. CASE n = 0
  BY <1>1, DueNone DEF Number
<1>2. CASE n # 0
  <2> DEFINE p == n - 1
  <2>1. p \in Nat /\ p + 1 = n /\ p < Len(docs) /\ Len(docs) \in Nat
    BY <1>2, LenProperties DEF Readable
  <2> HIDE DEF p
  <2>2. docs[n] \in Documents /\ docs[n].reading # Bare /\ Readable(p + 1)
    BY <1>2, <2>1, ElementOfSeq, LenProperties DEF Readable
  <2>3. Due(m, p, k) \in Number /\ Part(m, MapOf(docs[n])) \in Number
    BY <2>1, <2>2, DueGrows, MapGives, PartNumber
  <2> QED
    BY <2>1, <2>2, <2>3, DueGrows, PlusNumber
<1> QED
  BY <1>1, <1>2

\* One measurement more is counted for its key, and for no other.
LEMMA SeenGrows ==
    ASSUME NEW n \in Nat, NEW k
    PROVE  /\ IsFiniteSet(Seen(n, k)) /\ Cardinality(Seen(n, k)) \in Nat
           /\ Cardinality(Seen(n + 1, k)) =
                  Cardinality(Seen(n, k)) + (IF KeyOf(docs[n + 1]) = k THEN 1 ELSE 0)
<1>1. IsFiniteSet(Seen(n, k))
  <2>1. IsFiniteSet(1..n) /\ Seen(n, k) \in SUBSET (1..n)
    BY FS_Interval DEF Seen
  <2> QED
    BY <2>1, FS_Subset
<1>2. Cardinality(Seen(n, k)) \in Nat
  BY <1>1, FS_CardinalityType
<1>3. 1..(n + 1) = 1..n \cup {n + 1} /\ n + 1 \notin 1..n
  OBVIOUS
<1>4. CASE KeyOf(docs[n + 1]) = k
  <2>1. Seen(n + 1, k) = Seen(n, k) \cup {n + 1} /\ n + 1 \notin Seen(n, k)
    BY <1>3, <1>4 DEF Seen
  <2>2. Cardinality(Seen(n, k) \cup {n + 1}) = Cardinality(Seen(n, k)) + 1
    BY <1>1, <2>1, FS_AddElement
  <2> QED
    BY <1>1, <1>2, <1>4, <2>1, <2>2
<1>5. CASE KeyOf(docs[n + 1]) # k
  <2>1. Seen(n + 1, k) = Seen(n, k)
    BY <1>3, <1>5 DEF Seen
  <2> QED
    BY <1>1, <1>2, <1>5, <2>1
<1> QED
  BY <1>4, <1>5

-----------------------------------------------------------------------------
(* What a run holds for a key, and what it leaves in the result.           *)

\* No measurement has a power below zero.
NonNegative ==
    \A doc \in Documents : doc.reading # Bare =>
        \A amount \in {doc.reading.power, doc.reading.total, doc.reading.energy} :
            amount \in Nat \cup {NaN}

\* As long as nothing is reduced, what the reduce function will take is what the
\* measurements count; the count stays right for good; the rest only shrinks.
Raw(values, n, k) ==
    values = <<>> \/ values[1].passes = 0 => \A m \in Metrics : Parts(m, values) = Due(m, n, k)
Counted(values, n, k) == task # "site" => Parts("count", values) = Cardinality(Seen(n, k))
Within(values, n, k) ==
    NonNegative => \A m \in Metrics : Due(m, n, k) # NaN =>
        Due(m, n, k) \in Nat /\ Parts(m, values) \in Nat /\ Parts(m, values) <= Due(m, n, k)

\* What is reduced once is exact, and what is reduced at all is not too much.
Exact(value, n, k) == value.passes = 1 => \A m \in Metrics : Got(m, value) = Hours(Due(m, n, k))
AtMost(value, n, k) ==
    NonNegative /\ value.passes > 0 => \A m \in Metrics : Due(m, n, k) # NaN =>
        Got(m, value) \in Nat /\ Got(m, value) <= Hours(Due(m, n, k))

Sound(values, n, k) ==
    /\ Raw(values, n, k) /\ Counted(values, n, k) /\ Within(values, n, k)
    /\ values # <<>> => AtMost(values[1], n, k)
    /\ Len(values) = 1 => Exact(values[1], n, k)

Faithful(value, n, k) ==
    /\ Exact(value, n, k) /\ AtMost(value, n, k)
    /\ task # "site" => value.count = Cardinality(Seen(n, k))

\* A run that has read nothing holds what it should.
LEMMA NoneSound ==
    ASSUME NEW k
    PROVE  Sound(<<>>, 0, k)
<1>1. \A m \in Metrics : Due(m, 0, k) = 0
  BY DueNone
<1>2. Cardinality(Seen(0, k)) = 0
  BY DueNone, FS_EmptySet
<1>3. \A m \in Metrics \cup {"count"} : Parts(m, <<>>) = 0
  BY PartsOfNone
<1>4. Len(<<>>) = 0
  OBVIOUS
<1> QED
  BY <1>1, <1>2, <1>3, <1>4 DEF Sound, Raw, Counted, Within

\* What a value adds is no less than zero, when no power is.
LEMMA PartNat ==
    ASSUME NonNegative, task \in Tasks, NEW doc \in Documents, doc.reading # Bare, NEW m \in Metrics,
           Part(m, MapOf(doc)) # NaN
    PROVE  Part(m, MapOf(doc)) \in Nat
<1>1. Part(m, MapOf(doc)) = IF Relevant(m, doc.reading) THEN Amount(m, doc.reading) ELSE 0
  BY MapGives
<1>2. Amount(m, doc.reading) \in {doc.reading.power, doc.reading.total, doc.reading.energy}
  BY DEF Amount, PvPower
<1>3. Amount(m, doc.reading) \in Nat \cup {NaN}
  BY <1>2 DEF NonNegative
<1> QED
  BY <1>1, <1>3

\* The value of the next measurement keeps what a run holds for a key sound.
LEMMA AppendSound ==
    ASSUME task \in Tasks, docs \in Seq(Documents), NEW n \in Nat, n < Len(docs), Readable(n + 1),
           NEW k, NEW values \in Seq(Value), Sound(values, n, k)
    PROVE  Sound(IF KeyOf(docs[n + 1]) = k THEN Append(values, MapOf(docs[n + 1])) ELSE values, n + 1, k)
<1> DEFINE doc == docs[n + 1]
           new == MapOf(doc)
           all == Append(values, new)
<1>1. doc \in Documents /\ doc.reading # Bare
  <2>1. n + 1 \in 1..Len(docs) /\ n + 1 \in 1..(n + 1)
    BY LenProperties
  <2> QED
    BY <2>1, ElementOfSeq DEF Readable
<1>2. CASE KeyOf(doc) # k
  <2>1. \A m \in Metrics : Due(m, n + 1, k) = Due(m, n, k)
    BY <1>2, DueGrows
  <2>2. Cardinality(Seen(n + 1, k)) = Cardinality(Seen(n, k))
    BY <1>2, SeenGrows
  <2> QED
    BY <1>2, <2>1, <2>2 DEF Sound, Raw, Counted, Within, AtMost, Exact
<1>3. CASE KeyOf(doc) = k
  <2>1. /\ new \in Value /\ new.passes = 0
        /\ task # "site" => Part("count", new) = 1
    BY <1>1, MapGives
  <2>2. \A m \in Metrics : /\ Due(m, n, k) \in Number
                           /\ Due(m, n + 1, k) = Plus(Due(m, n, k), Part(m, new))
    BY <1>3, DueGrows
  <2>3. Cardinality(Seen(n, k)) \in Nat /\ Cardinality(Seen(n + 1, k)) = Cardinality(Seen(n, k)) + 1
    BY <1>3, SeenGrows
  <2> HIDE DEF doc, new
  <2>4. \A m \in Metrics \cup {"count"} :
            /\ Parts(m, values) \in Number /\ Part(m, new) \in Number
            /\ Parts(m, all) = Plus(Parts(m, values), Part(m, new))
    BY <2>1, PartsAppend, PartNumber
  <2>5. /\ Len(all) = Len(values) + 1 /\ Len(values) \in Nat /\ all # <<>>
        /\ (values = <<>>) <=> (Len(values) = 0)
        /\ all[1] = IF values = <<>> THEN new ELSE values[1]
        /\ Len(all) = 1 => all[1] = new
    <3>1. /\ Len(all) = Len(values) + 1 /\ Len(values) \in Nat
          /\ \A i \in 1..Len(values) : all[i] = values[i]
          /\ all[Len(values) + 1] = new
      BY <2>1, AppendProperties, LenProperties
    <3>2. values = <<>> <=> Len(values) = 0
      BY EmptySeq
    <3>3. all # <<>>
      BY <2>1, AppendProperties
    <3>4. Len(all) = 1 => Len(values) = 0
      BY <3>1
    <3> HIDE DEF all
    <3> QED
      BY <3>1, <3>2, <3>3, <3>4
  <2> HIDE DEF all
  <2>6. Raw(all, n + 1, k)
    <3>1. SUFFICES ASSUME all[1].passes = 0, NEW m \in Metrics
                   PROVE  Parts(m, all) = Due(m, n + 1, k)
      BY <2>5 DEF Raw
    <3>2. Parts(m, values) = Due(m, n, k)
      BY <2>5, <3>1 DEF Sound, Raw
    <3> QED
      BY <2>2, <2>4, <3>2
  <2>7. Counted(all, n + 1, k)
    <3>1. SUFFICES ASSUME task # "site"
                   PROVE  Parts("count", all) = Cardinality(Seen(n + 1, k))
      BY DEF Counted
    <3>2. Parts("count", all) = Plus(Cardinality(Seen(n, k)), 1)
      BY <2>1, <2>4, <3>1 DEF Sound, Counted
    <3> QED
      BY <2>3, <3>2, StatisticsAssumption DEF Plus
  <2>8. ASSUME NonNegative, NEW m \in Metrics, Due(m, n + 1, k) # NaN
        PROVE  /\ Due(m, n, k) # NaN /\ Due(m, n, k) \in Nat /\ Part(m, new) \in Nat
               /\ Due(m, n + 1, k) = Due(m, n, k) + Part(m, new)
               /\ Parts(m, values) \in Nat /\ Parts(m, values) <= Due(m, n, k)
               /\ Parts(m, all) = Parts(m, values) + Part(m, new)
    <3>1. Due(m, n, k) # NaN /\ Part(m, new) # NaN
      BY <2>2, <2>8 DEF Plus
    <3>2. Part(m, new) \in Nat
      BY <1>1, <2>8, <3>1, PartNat DEF new
    <3>3. Due(m, n, k) \in Nat /\ Parts(m, values) \in Nat /\ Parts(m, values) <= Due(m, n, k)
      BY <2>8, <3>1 DEF Sound, Within
    <3> QED
      BY <2>2, <2>4, <3>1, <3>2, <3>3, StatisticsAssumption DEF Plus
  <2>9. Within(all, n + 1, k)
    <3>1. SUFFICES ASSUME NonNegative, NEW m \in Metrics, Due(m, n + 1, k) # NaN
                   PROVE  /\ Due(m, n + 1, k) \in Nat /\ Parts(m, all) \in Nat
                          /\ Parts(m, all) <= Due(m, n + 1, k)
      BY DEF Within
    <3> QED
      BY <2>8, <3>1
  <2>10. AtMost(all[1], n + 1, k)
    <3>1. SUFFICES ASSUME NonNegative, all[1].passes > 0, NEW m \in Metrics, Due(m, n + 1, k) # NaN
                   PROVE  Got(m, all[1]) \in Nat /\ Got(m, all[1]) <= Hours(Due(m, n + 1, k))
      BY DEF AtMost
    <3>2. values # <<>> /\ all[1] = values[1]
      BY <2>1, <2>5, <3>1
    <3>3. Due(m, n, k) \in Nat /\ Due(m, n + 1, k) \in Nat /\ Due(m, n, k) <= Due(m, n + 1, k)
      BY <2>8, <3>1
    <3>4. Got(m, values[1]) \in Nat /\ Got(m, values[1]) <= Hours(Due(m, n, k))
      BY <2>8, <3>1, <3>2 DEF Sound, AtMost
    <3>5. /\ Hours(Due(m, n, k)) \in Nat /\ Hours(Due(m, n + 1, k)) \in Nat
          /\ Hours(Due(m, n, k)) <= Hours(Due(m, n + 1, k))
      BY <3>3, HoursNumber
    <3> QED
      BY <3>2, <3>4, <3>5
  <2>11. Len(all) = 1 => Exact(all[1], n + 1, k)
    <3>1. Exact(new, n + 1, k)
      BY <2>1 DEF Exact
    <3> QED
      BY <2>5, <3>1
  <2>12. Sound(all, n + 1, k)
    BY <2>6, <2>7, <2>9, <2>10, <2>11 DEF Sound
  <2> QED
    BY <1>3, <2>12 DEF all, new, doc
<1> QED
  BY <1>2, <1>3

\* Reducing, in one go or again, keeps what a run holds for a key sound.
LEMMA ReduceSound ==
    ASSUME task \in Tasks, docs \in Seq(Documents), NEW n, Readable(n), NEW k,
           NEW values \in Seq(Value), Len(values) > 0, Sound(values, n, k)
    PROVE  Sound(<<ReduceOf(values)>>, n, k)
<1> DEFINE value == ReduceOf(values)
           one == <<value>>
<1>1. /\ value \in Value /\ value.passes = 1 + values[1].passes
      /\ \A m \in Metrics : Got(m, value) = Hours(Parts(m, values))
      /\ Part("chg", value) = 0 /\ Part("dhg", value) = 0
      /\ Part("pv", value) = IF task = "site" THEN 0 ELSE Hours(Parts("pv", values))
      /\ task # "site" => Part("count", value) = Parts("count", values)
  BY ReduceGives
<1>2. values # <<>> /\ values[1].passes \in Nat
  <2>1. values[1] \in Value
    BY LenProperties, ElementOfSeq
  <2> QED
    BY <2>1 DEF Value
<1> HIDE DEF value
<1>3. \A m \in Metrics \cup {"count"} : Parts(m, one) = Part(m, value)
  BY <1>1, PartsOfOne
<1>4. one # <<>> /\ one[1] = value
  OBVIOUS
<1> HIDE DEF one
<1>5. ASSUME NonNegative, NEW m \in Metrics, Due(m, n, k) # NaN
      PROVE  /\ Due(m, n, k) \in Nat /\ Parts(m, values) \in Nat /\ Parts(m, values) <= Due(m, n, k)
             /\ Hours(Parts(m, values)) \in Nat /\ Hours(Parts(m, values)) <= Parts(m, values)
             /\ Hours(Due(m, n, k)) \in Nat
             /\ Hours(Parts(m, values)) <= Hours(Due(m, n, k))
  <2>1. Due(m, n, k) \in Nat /\ Parts(m, values) \in Nat /\ Parts(m, values) <= Due(m, n, k)
    BY <1>5 DEF Sound, Within
  <2> QED
    BY <2>1, HoursNumber
<1>6. Raw(one, n, k)
  BY <1>1, <1>2, <1>4 DEF Raw
<1>7. Counted(one, n, k)
  BY <1>1, <1>3 DEF Counted, Sound
<1>8. Within(one, n, k)
  <2>1. SUFFICES ASSUME NonNegative, NEW m \in Metrics, Due(m, n, k) # NaN
                 PROVE  Due(m, n, k) \in Nat /\ Parts(m, one) \in Nat /\ Parts(m, one) <= Due(m, n, k)
    BY DEF Within
  <2>2. Part(m, value) = 0 \/ Part(m, value) = Hours(Parts(m, values))
    BY <1>1 DEF Metrics
  <2>3. Parts(m, one) = Part(m, value)
    BY <1>3
  <2> QED
    BY <1>5, <2>1, <2>2, <2>3
<1>9. AtMost(one[1], n, k)
  BY <1>1, <1>4, <1>5 DEF AtMost
<1>10. Exact(one[1], n, k)
  <2>1. SUFFICES ASSUME value.passes = 1, NEW m \in Metrics
                 PROVE  Got(m, value) = Hours(Due(m, n, k))
    BY <1>4 DEF Exact
  <2>2. values[1].passes = 0
    BY <1>1, <1>2, <2>1
  <2>3. Parts(m, values) = Due(m, n, k)
    BY <2>2 DEF Sound, Raw
  <2> QED
    BY <1>1, <2>3
<1>11. Sound(one, n, k)
  BY <1>6, <1>7, <1>8, <1>9, <1>10 DEF Sound
<1> QED
  BY <1>11 DEF one, value

\* What is merged is what the run held for the key, when that is one value.
LEMMA MergeFaithful ==
    ASSUME NEW values \in Seq(Value), Len(values) = 1, NEW n, NEW k, Sound(values, n, k)
    PROVE  values[1] \in Value /\ Faithful(values[1], n, k)
<1> DEFINE value == values[1]
<1>1. value \in Value /\ values # <<>>
  BY LenProperties, ElementOfSeq
<1>2. values = <<value>>
  <2>1. <<value>> \in Seq(Value) /\ Len(<<value>>) = 1 /\ <<value>>[1] = value
    BY <1>1
  <2> QED
    BY <2>1, SeqEqual
<1>3. task # "site" => value.count = Parts("count", values)
  <2>1. Parts("count", <<value>>) = Part("count", value)
    BY <1>1, PartsOfOne
  <2> QED
    BY <1>2, <2>1 DEF Part
<1> QED
  BY <1>1, <1>3 DEF Sound, Faithful, Counted

-----------------------------------------------------------------------------
(* Types.                                                                  *)

\* After MongoDB has reduced there is one value of a key at most.
LEMMA ReducedTyped ==
    ASSUME task \in Tasks, NEW values \in [Keys -> Seq(Value)]
    PROVE  /\ Reduced(values) \in [Keys -> Seq(Value)]
           /\ \A k \in Keys : /\ Reduced(values)[k] = IF Len(values[k]) > 1 THEN <<ReduceOf(values[k])>>
                                                                           ELSE values[k]
                              /\ Len(Reduced(values)[k]) <= 1
<1>1. ASSUME NEW k \in Keys
      PROVE  /\ Reduced(values)[k] = IF Len(values[k]) > 1 THEN <<ReduceOf(values[k])>> ELSE values[k]
             /\ Reduced(values)[k] \in Seq(Value) /\ Len(Reduced(values)[k]) <= 1
  <2>1. Reduced(values)[k] = IF Len(values[k]) > 1 THEN <<ReduceOf(values[k])>> ELSE values[k]
    BY DEF Reduced
  <2>2. values[k] \in Seq(Value) /\ Len(values[k]) \in Nat
    BY LenProperties
  <2>3. Len(values[k]) > 1 => ReduceOf(values[k]) \in Value
    BY <2>2, ReduceGives
  <2> QED
    BY <2>1, <2>2, <2>3
<1> QED
  BY <1>1 DEF Reduced

\* A measurement adds one value, to its own key.
LEMMA WithTyped ==
    ASSUME task \in Tasks, NEW values \in [Keys -> Seq(Value)], NEW doc \in Documents, doc.reading # Bare
    PROVE  /\ With(values, doc) \in [Keys -> Seq(Value)]
           /\ \A k \in Keys : With(values, doc)[k] =
                                  IF KeyOf(doc) = k THEN Append(values[k], MapOf(doc)) ELSE values[k]
<1>1. KeyOf(doc) \in Keys
  BY StatisticsAssumption DEF KeyOf, Keys
<1>2. MapOf(doc) \in Value
  BY MapGives
<1>3. Append(values[KeyOf(doc)], MapOf(doc)) \in Seq(Value)
  BY <1>1, <1>2, AppendProperties
<1> QED
  BY <1>1, <1>3 DEF With

\* The types hold at the start.
LEMMA InitType ==
    ASSUME Init
    PROVE  TypeOK
<1>1. docs \in Seq(Documents) /\ Len(docs) = 0 /\ 0 <= MaxDocs
  BY EmptySeq, StatisticsAssumption DEF Init
<1>2. Idle \in Run
  BY <1>1, EmptySeq DEF Idle, At, Empty, Run
<1>3. run \in [Runs -> Run]
  BY <1>2 DEF Init
<1>4. result \in [Keys -> Value \cup {None}] /\ covers \in [Keys -> 0..Len(docs)]
  BY <1>1 DEF Init
<1>5. 0 \in 0..MaxFaults
  BY StatisticsAssumption
<1> QED
  BY <1>1, <1>3, <1>4, <1>5 DEF Init, TypeOK

\* Every step keeps the types.
LEMMA NextType ==
    ASSUME TypeOK, [Next]_vars
    PROVE  TypeOK'
<1> USE StatisticsAssumption
<1>1. /\ task \in Tasks /\ docs \in Seq(Documents) /\ run \in [Runs -> Run]
      /\ result \in [Keys -> Value \cup {None}] /\ covers \in [Keys -> 0..Len(docs)]
      /\ overlapped \in BOOLEAN /\ stopped \in BOOLEAN /\ faults \in 0..MaxFaults
      /\ Len(docs) \in Nat /\ Len(docs) <= MaxDocs
  BY LenProperties DEF TypeOK
<1>2. \A r \in Runs : /\ run[r].phase \in {"idle", "map", "out"} /\ run[r].next \in 0..Len(docs)
                      /\ run[r].values \in [Keys -> Seq(Value)]
  BY <1>1 DEF Run
<1>3. Idle \in Run /\ At("map", 0, Empty) \in Run
  BY <1>1, EmptySeq DEF Idle, At, Empty, Run
<1>4. ASSUME UNCHANGED <<task, docs, result, covers>>, run' \in [Runs -> Run],
             overlapped' \in BOOLEAN, stopped' \in BOOLEAN, faults' \in 0..MaxFaults
      PROVE  TypeOK'
  BY <1>1, <1>4 DEF TypeOK, Run
<1>5. CASE Insert
  <2>1. PICK doc \in Documents : docs' = Append(docs, doc)
    BY <1>5 DEF Insert
  <2>2. docs' \in Seq(Documents) /\ Len(docs') = Len(docs) + 1 /\ Len(docs') <= MaxDocs
    BY <1>1, <1>5, <2>1, AppendProperties DEF Insert
  <2>3. run' \in [Runs -> Run']
    BY <1>1, <1>2, <1>5, <2>2 DEF Insert, Run
  <2>4. covers' \in [Keys -> 0..Len(docs')]
    BY <1>1, <1>5, <2>2 DEF Insert
  <2> QED
    BY <1>1, <1>5, <2>2, <2>3, <2>4 DEF Insert, TypeOK
<1>6. ASSUME NEW r \in Runs, DoMapreduce(r)
      PROVE  TypeOK'
  BY <1>1, <1>3, <1>4, <1>6 DEF DoMapreduce
<1>7. ASSUME NEW r \in Runs, Map(r)
      PROVE  TypeOK'
  <2> DEFINE doc == docs[run[r].next + 1]
  <2>1. doc \in Documents /\ run[r].next + 1 \in 0..Len(docs)
    BY <1>1, <1>2, <1>7, ElementOfSeq DEF Map
  <2>2. doc.reading # Bare => At("map", run[r].next + 1, With(run[r].values, doc)) \in Run
    BY <1>1, <1>2, <2>1, WithTyped DEF At, Run
  <2>3. run' = [run EXCEPT ![r] = IF doc.reading = Bare THEN Idle
                                  ELSE At("map", run[r].next + 1, With(run[r].values, doc))]
    BY <1>7 DEF Map
  <2> HIDE DEF doc
  <2> QED
    BY <1>1, <1>3, <1>4, <1>7, <2>2, <2>3 DEF Map
<1>8. ASSUME NEW r \in Runs, NEW phase \in {"map", "out"},
             run' = [run EXCEPT ![r] = At(phase, run[r].next, Reduced(run[r].values))]
      PROVE  run' \in [Runs -> Run]
  <2>1. At(phase, run[r].next, Reduced(run[r].values)) \in Run
    BY <1>1, <1>2, ReducedTyped DEF At, Run
  <2> QED
    BY <1>1, <1>8, <2>1
<1>9. ASSUME NEW r \in Runs, Spill(r)
      PROVE  TypeOK'
  BY <1>1, <1>4, <1>8, <1>9 DEF Spill
<1>10. ASSUME NEW r \in Runs, Finish(r)
       PROVE  TypeOK'
  BY <1>1, <1>4, <1>8, <1>10 DEF Finish
<1>11. ASSUME NEW r \in Runs, Merge(r)
       PROVE  TypeOK'
  <2>1. \A k \in Keys : run[r].values[k] # <<>> => run[r].values[k][1] \in Value
    <3>1. SUFFICES ASSUME NEW k \in Keys, run[r].values[k] # <<>>
                   PROVE  run[r].values[k][1] \in Value
      OBVIOUS
    <3>2. run[r].values[k] \in Seq(Value)
      BY <1>2
    <3> QED
      BY <3>1, <3>2, EmptySeq, LenProperties, ElementOfSeq
  <2>2. result' \in [Keys -> Value \cup {None}]
    <3>1. result' = [k \in Keys |-> IF run[r].values[k] = <<>> THEN result[k] ELSE run[r].values[k][1]]
      BY <1>11 DEF Merge
    <3> QED
      BY <1>1, <2>1, <3>1
  <2>3. covers' \in [Keys -> 0..Len(docs)]
    <3>1. covers' = [k \in Keys |-> IF run[r].values[k] = <<>> THEN covers[k] ELSE run[r].next]
      BY <1>11 DEF Merge
    <3> QED
      BY <1>1, <1>2, <3>1
  <2>4. run' \in [Runs -> Run]
    BY <1>1, <1>3, <1>11 DEF Merge
  <2> QED
    BY <1>1, <1>11, <2>2, <2>3, <2>4 DEF Merge, TypeOK, Run
<1>12. ASSUME NEW r \in Runs, Fail(r)
       PROVE  TypeOK'
  BY <1>1, <1>3, <1>4, <1>12 DEF Fail
<1>13. CASE StopAsync
  BY <1>1, <1>4, <1>13 DEF StopAsync
<1>14. CASE UNCHANGED vars
  BY <1>1, <1>4, <1>14 DEF vars
<1> QED
  BY <1>5, <1>6, <1>7, <1>9, <1>10, <1>11, <1>12, <1>13, <1>14 DEF Next

-----------------------------------------------------------------------------
(* Every run and every statistic is sound.                                 *)

\* What a run holds is sound, and reduced where it is about to merge it.
HeldSound(f) ==
    /\ \A k \in Keys : Sound(f.values[k], f.next, k)
    /\ f.phase = "out" => \A k \in Keys : Len(f.values[k]) <= 1

\* Every run and every statistic: the invariant the theorems follow from.
SoundInv ==
    /\ \A r \in Runs : HeldSound(run[r])
    /\ \A k \in Keys : result[k] # None => Faithful(result[k], covers[k], k)

\* Measurements that come later change nothing for the first n.
LEMMA Stable ==
    ASSUME task' = task, NEW n \in Nat, \A i \in 1..n : docs'[i] = docs[i]
    PROVE  /\ \A k : Seen(n, k)' = Seen(n, k)
           /\ \A m, k : Due(m, n, k)' = Due(m, n, k)
<1>1. ASSUME NEW k
      PROVE  Seen(n, k)' = Seen(n, k) /\ Seen(n, k) \subseteq 1..n
  BY DEF Seen, KeyOf
<1>2. ASSUME NEW m, NEW k
      PROVE  Due(m, n, k)' = Due(m, n, k)
  <2>1. ASSUME NEW i \in 1..n
        PROVE  /\ Relevant(m, docs[i].reading)' = Relevant(m, docs[i].reading)
               /\ Amount(m, docs[i].reading)' = Amount(m, docs[i].reading)
    BY DEF Relevant, Amount, Counts, PvPower
  <2>2. Chosen(m, n, k)' = Chosen(m, n, k) /\ Chosen(m, n, k) \subseteq 1..n
    BY <1>1, <2>1 DEF Chosen
  <2>3. [i \in Chosen(m, n, k) |-> Amount(m, docs[i].reading)]'
            = [i \in Chosen(m, n, k) |-> Amount(m, docs[i].reading)]
    BY <2>1, <2>2
  <2> QED
    BY <2>3 DEF Due
<1> QED
  BY <1>1, <1>2

\* What is taken from a value depends on the task alone.
LEMMA PartsStable ==
    ASSUME task' = task
    PROVE  /\ \A m, values : Parts(m, values)' = Parts(m, values)
           /\ \A m, value : Got(m, value)' = Got(m, value)
<1>1. ASSUME NEW m, NEW value
      PROVE  Part(m, value)' = Part(m, value) /\ Got(m, value)' = Got(m, value)
  BY DEF Part, PcsIf, Got, PvOf
<1>2. ASSUME NEW m, NEW values
      PROVE  Parts(m, values)' = Parts(m, values)
  <2>1. [i \in DOMAIN values |-> Part(m, values[i])]' = [i \in DOMAIN values |-> Part(m, values[i])]
    BY <1>1
  <2> QED
    BY <2>1 DEF Parts
<1> QED
  BY <1>1, <1>2

\* What a run holds, and what is merged, is not spoilt by later measurements.
LEMMA SoundStable ==
    ASSUME task' = task, NEW n \in Nat, \A i \in 1..n : docs'[i] = docs[i], NEW k
    PROVE  /\ \A values : Sound(values, n, k) => Sound(values, n, k)'
           /\ \A value : Faithful(value, n, k) => Faithful(value, n, k)'
<1>1. Seen(n, k)' = Seen(n, k) /\ \A m : Due(m, n, k)' = Due(m, n, k)
  BY Stable
<1>2. ASSUME NEW value
      PROVE  /\ Exact(value, n, k) => Exact(value, n, k)'
             /\ AtMost(value, n, k) => AtMost(value, n, k)'
  BY <1>1, PartsStable DEF Exact, AtMost
<1>3. ASSUME NEW values
      PROVE  /\ Raw(values, n, k) => Raw(values, n, k)'
             /\ Counted(values, n, k) => Counted(values, n, k)'
             /\ Within(values, n, k) => Within(values, n, k)'
  BY <1>1, PartsStable DEF Raw, Counted, Within
<1> QED
  BY <1>1, <1>2, <1>3 DEF Sound, Faithful

\* At the start every run and every statistic is sound.
LEMMA InitSound ==
    ASSUME Init
    PROVE  SoundInv
<1>1. HeldSound(Idle)
  BY NoneSound DEF HeldSound, Idle, At, Empty
<1>2. \A r \in Runs : run[r] = Idle
  BY DEF Init
<1>3. \A k \in Keys : result[k] = None
  BY DEF Init
<1> QED
  BY <1>1, <1>2, <1>3 DEF SoundInv

\* What MongoDB reduces stays sound, and of every key one value at most is left.
LEMMA ReducedSound ==
    ASSUME task \in Tasks, docs \in Seq(Documents), NEW values \in [Keys -> Seq(Value)], NEW n, Readable(n),
           \A k \in Keys : Sound(values[k], n, k)
    PROVE  \A k \in Keys : Sound(Reduced(values)[k], n, k) /\ Len(Reduced(values)[k]) <= 1
<1> SUFFICES ASSUME NEW k \in Keys
             PROVE  Sound(Reduced(values)[k], n, k) /\ Len(Reduced(values)[k]) <= 1
  OBVIOUS
<1>1. values[k] \in Seq(Value) /\ Len(values[k]) \in Nat
  BY LenProperties
<1>2. Len(values[k]) > 1 => Sound(<<ReduceOf(values[k])>>, n, k)
  BY <1>1, ReduceSound
<1> QED
  BY <1>2, ReducedTyped

\* What is not empty and one at most is one.
LEMMA OneValue ==
    ASSUME NEW values \in Seq(Value), values # <<>>, Len(values) <= 1
    PROVE  Len(values) = 1
<1>1. Len(values) \in Nat \ {0}
  BY EmptySeq
<1>2. \A x \in Nat \ {0} : x <= 1 => x = 1
  OBVIOUS
<1> QED
  BY <1>1, <1>2

\* Every step keeps every run and every statistic sound.
LEMMA NextSound ==
    ASSUME TypeOK, CoverInv, SoundInv, [Next]_vars
    PROVE  SoundInv'
<1>1. /\ task \in Tasks /\ docs \in Seq(Documents) /\ run \in [Runs -> Run]
      /\ covers \in [Keys -> 0..Len(docs)]
      /\ Len(docs) \in Nat
  BY LenProperties DEF TypeOK
<1>2. \A r \in Runs : /\ run[r].next \in 0..Len(docs) /\ Readable(run[r].next)
                      /\ run[r].values \in [Keys -> Seq(Value)] /\ HeldSound(run[r])
  BY <1>1 DEF Run, CoverInv, SoundInv, Readable
<1>3. task' = task /\ \A i \in 1..Len(docs) : docs'[i] = docs[i]
  <2>1. task' = task
    BY DEF Next, vars, Insert, DoMapreduce, Map, Spill, Finish, Merge, Fail, StopAsync
  <2>2. \A i \in 1..Len(docs) : docs'[i] = docs[i]
    BY Steps
  <2> QED
    BY <2>1, <2>2
<1>4. ASSUME NEW n \in 0..Len(docs), NEW k
      PROVE  /\ \A values : Sound(values, n, k) => Sound(values, n, k)'
             /\ \A value : Faithful(value, n, k) => Faithful(value, n, k)'
  <2>1. n \in Nat /\ \A i \in 1..n : docs'[i] = docs[i]
    BY <1>1, <1>3
  <2> QED
    BY <1>3, <2>1, SoundStable
<1>5. ASSUME NEW f, f.next \in 0..Len(docs), HeldSound(f)
      PROVE  HeldSound(f)'
  BY <1>4, <1>5 DEF HeldSound, Keys
<1>6. ASSUME UNCHANGED <<result, covers>>
      PROVE  \A k \in Keys : result'[k] # None => Faithful(result[k], covers[k], k)'
  <2>1. \A k \in Keys : result[k] # None => Faithful(result[k], covers[k], k) /\ covers[k] \in 0..Len(docs)
    BY <1>1 DEF SoundInv
  <2> QED
    BY <1>4, <1>6, <2>1
<1>7. HeldSound(Idle) /\ HeldSound(At("map", 0, Empty)) /\ Idle.next = 0 /\ At("map", 0, Empty).next = 0
  BY NoneSound DEF HeldSound, Idle, At, Empty
<1>8. ASSUME NEW r \in Runs, NEW f, f.next \in 0..Len(docs), HeldSound(f), run' = [run EXCEPT ![r] = f]
      PROVE  \A o \in Runs : HeldSound(run[o])'
  <2>1. \A o \in Runs : run'[o] = IF o = r THEN f ELSE run[o]
    BY <1>1, <1>8
  <2>2. \A o \in Runs : run'[o].next \in 0..Len(docs) /\ (IF o = r THEN HeldSound(f) ELSE HeldSound(run[o]))
    BY <1>2, <1>8, <2>1
  <2> QED
    BY <1>5, <2>1, <2>2
<1>9. ASSUME NEW r \in Runs, Map(r)
      PROVE  SoundInv'
  <2> DEFINE n == run[r].next
             doc == docs[n + 1]
             values == run[r].values
  <2>1. /\ n \in Nat /\ n < Len(docs) /\ values \in [Keys -> Seq(Value)] /\ doc \in Documents
        /\ \A k \in Keys : Sound(values[k], n, k)
        /\ \A i \in 1..n : docs[i].reading # Bare
    BY <1>1, <1>2, <1>9, ElementOfSeq DEF Map, HeldSound, Readable
  <2>2. /\ run' = [run EXCEPT ![r] = IF doc.reading = Bare THEN Idle ELSE At("map", n + 1, With(values, doc))]
        /\ UNCHANGED <<result, covers>>
    BY <1>9 DEF Map
  <2>3. ASSUME doc.reading # Bare
        PROVE  HeldSound(At("map", n + 1, With(values, doc)))
    <3> HIDE DEF n, values
    <3>1. Readable(n + 1)
      BY <1>1, <2>1, <2>3 DEF Readable
    <3>2. ASSUME NEW k \in Keys
          PROVE  Sound(With(values, doc)[k], n + 1, k)
      <4>1. values[k] \in Seq(Value) /\ Sound(values[k], n, k)
        BY <2>1
      <4>2. Sound(IF KeyOf(doc) = k THEN Append(values[k], MapOf(doc)) ELSE values[k], n + 1, k)
        BY <1>1, <2>1, <3>1, <4>1, AppendSound
      <4> HIDE DEF doc
      <4> QED
        BY <1>1, <2>1, <2>3, <4>2, WithTyped
    <3> QED
      BY <3>2 DEF HeldSound, At
  <2>4. At("map", n + 1, With(values, doc)).next \in 0..Len(docs)
    BY <1>1, <2>1 DEF At
  <2>5. 0 \in 0..Len(docs)
    BY <1>1
  <2> HIDE DEF doc, n, values
  <2>6. \A o \in Runs : HeldSound(run[o])'
    BY <1>7, <1>8, <2>2, <2>3, <2>4, <2>5
  <2> QED
    BY <1>6, <2>2, <2>6 DEF SoundInv
<1>10. ASSUME NEW r \in Runs, NEW phase \in {"map", "out"}, UNCHANGED <<result, covers>>,
              run' = [run EXCEPT ![r] = At(phase, run[r].next, Reduced(run[r].values))]
       PROVE  SoundInv'
  <2> DEFINE n == run[r].next
             values == run[r].values
             f == At(phase, n, Reduced(values))
  <2>1. /\ n \in 0..Len(docs) /\ Readable(n) /\ values \in [Keys -> Seq(Value)]
        /\ \A k \in Keys : Sound(values[k], n, k)
    BY <1>2 DEF HeldSound
  <2>2. f.next = n /\ f.values = Reduced(values)
    BY DEF At
  <2>3. run' = [run EXCEPT ![r] = f]
    BY <1>10
  <2> HIDE DEF n, values, f
  <2>4. \A k \in Keys : Sound(Reduced(values)[k], n, k) /\ Len(Reduced(values)[k]) <= 1
    BY <1>1, <2>1, ReducedSound
  <2>5. HeldSound(f)
    BY <2>2, <2>4 DEF HeldSound
  <2>6. \A o \in Runs : HeldSound(run[o])'
    BY <1>8, <2>1, <2>2, <2>3, <2>5
  <2> QED
    BY <1>6, <1>10, <2>6 DEF SoundInv
<1>11. ASSUME NEW r \in Runs, Merge(r)
       PROVE  SoundInv'
  <2> DEFINE n == run[r].next
             values == run[r].values
  <2>1. /\ n \in 0..Len(docs) /\ values \in [Keys -> Seq(Value)]
        /\ \A k \in Keys : Sound(values[k], n, k) /\ Len(values[k]) <= 1
    BY <1>2, <1>11 DEF HeldSound, Merge
  <2>2. /\ result' = [k \in Keys |-> IF values[k] = <<>> THEN result[k] ELSE values[k][1]]
        /\ covers' = [k \in Keys |-> IF values[k] = <<>> THEN covers[k] ELSE n]
        /\ run' = [run EXCEPT ![r] = Idle]
    BY <1>11 DEF Merge
  <2> HIDE DEF n, values
  <2>3. 0 \in 0..Len(docs)
    BY <1>1
  <2>4. \A o \in Runs : HeldSound(run[o])'
    BY <1>7, <1>8, <2>2, <2>3
  <2>5. ASSUME NEW k \in Keys, result'[k] # None
        PROVE  covers'[k] \in 0..Len(docs) /\ Faithful(result'[k], covers'[k], k)
    <3>1. CASE values[k] = <<>>
      <4>1. result'[k] = result[k] /\ covers'[k] = covers[k]
        BY <2>2, <3>1
      <4> QED
        BY <1>1, <2>5, <4>1 DEF SoundInv
    <3>2. CASE values[k] # <<>>
      <4>1. result'[k] = values[k][1] /\ covers'[k] = n
        BY <2>2, <3>2
      <4>2. values[k] \in Seq(Value) /\ Len(values[k]) = 1
        <5>1. values[k] \in Seq(Value) /\ Len(values[k]) <= 1
          BY <2>1
        <5> QED
          BY <3>2, <5>1, OneValue
      <4>3. Faithful(values[k][1], n, k)
        BY <2>1, <4>2, MergeFaithful
      <4> QED
        BY <2>1, <4>1, <4>3
    <3> QED
      BY <3>1, <3>2
  <2>6. \A k \in Keys : result'[k] # None => Faithful(result[k], covers[k], k)'
    BY <1>4, <2>5
  <2> QED
    BY <2>4, <2>6 DEF SoundInv
<1>12. ASSUME NEW r \in Runs, DoMapreduce(r) \/ Fail(r)
       PROVE  SoundInv'
  <2>1. 0 \in 0..Len(docs)
    BY <1>1
  <2>2. \E f \in {Idle, At("map", 0, Empty)} : run' = [run EXCEPT ![r] = f]
    BY <1>12 DEF DoMapreduce, Fail
  <2>3. \A o \in Runs : HeldSound(run[o])'
    BY <1>7, <1>8, <2>1, <2>2
  <2>4. UNCHANGED <<result, covers>>
    BY <1>12 DEF DoMapreduce, Fail
  <2> QED
    BY <1>6, <2>3, <2>4 DEF SoundInv
<1>13. CASE Insert \/ StopAsync \/ UNCHANGED vars
  <2>1. UNCHANGED <<run, result, covers>>
    BY <1>13 DEF Insert, StopAsync, vars
  <2>2. \A o \in Runs : HeldSound(run[o])'
    BY <1>2, <1>5, <2>1
  <2> QED
    BY <1>6, <2>1, <2>2 DEF SoundInv
<1>14. ASSUME NEW r \in Runs, Spill(r) \/ Finish(r)
       PROVE  SoundInv'
  BY <1>10, <1>14 DEF Spill, Finish
<1> QED
  BY <1>9, <1>11, <1>12, <1>13, <1>14 DEF Next

-----------------------------------------------------------------------------
(* The theorems.                                                           *)

\* The variables keep their types and no run reads past the collection's end:
\* what a reduce function returns is a value again, however often it is reduced.
THEOREM TypeCorrect == Spec => []TypeOK
<1>1. TypeOK /\ [Next]_vars => TypeOK'
  BY NextType
<1> QED
  BY <1>1, InitType, PTL DEF Spec

\* The three invariants together, in every state.
LEMMA AllSound == Spec => [](TypeOK /\ CoverInv /\ SoundInv)
<1>1. Init => TypeOK /\ CoverInv /\ SoundInv
  BY InitType, InitCover, InitSound
<1>2. TypeOK /\ CoverInv /\ SoundInv /\ [Next]_vars => (TypeOK /\ CoverInv /\ SoundInv)'
  BY NextType, NextCover, NextSound
<1> QED
  BY <1>1, <1>2, PTL DEF Spec

\* The metrics of a statistic are those the properties speak of.
LEMMA GotIs ==
    \A value : /\ Got("chg", value) = value.chg /\ Got("dhg", value) = value.dhg
               /\ Got("pv", value) = PvOf(value)
BY DEF Got

\* A statistic that was reduced in one go is the sum of what its run had read:
\* no value is lost, taken twice or given to another key, by either function.
THEOREM ExactOnce == Spec => []ExactInOnePass
<1>1. TypeOK /\ SoundInv => ExactInOnePass
  <2>1. SUFFICES ASSUME SoundInv, NEW k \in Keys, result[k] # None, result[k].passes = 1
                 PROVE  /\ result[k].chg = Charged(covers[k], k)
                        /\ result[k].dhg = Discharged(covers[k], k)
                        /\ PvOf(result[k]) = Generated(covers[k], k)
    BY DEF ExactInOnePass
  <2>2. \A m \in {"chg", "dhg", "pv"} : Got(m, result[k]) = Hours(Due(m, covers[k], k))
    BY <2>1 DEF SoundInv, Faithful, Exact, Metrics
  <2> QED
    BY <2>2, DueIs, GotIs
<1> QED
  BY <1>1, AllSound, PTL

\* A count is the number of the measurements read, however MongoDB splits the
\* values of a key and reduces what was reduced.
THEOREM CountsExact == Spec => []CountExact
<1>1. SoundInv => CountExact
  BY DEF SoundInv, Faithful, CountExact
<1> QED
  BY <1>1, AllSound, PTL

\* Where no measurement has a power below zero, no reduced statistic is more than
\* what was metered, although the charges that were summed up are lost and the
\* hours divided again when values are reduced more than once.
THEOREM NeverTooMuch == NonNegative => (Spec => []NeverOverstated)
<1> SUFFICES ASSUME NonNegative
             PROVE  Spec => []NeverOverstated
  OBVIOUS
<1>1. SoundInv => NeverOverstated
  <2>1. SUFFICES ASSUME SoundInv, NEW k \in Keys, result[k] # None, result[k].passes > 0,
                        NEW m \in Metrics, Hours(Due(m, covers[k], k)) # NaN
                 PROVE  Got(m, result[k]) <= Hours(Due(m, covers[k], k))
    BY DueIs, GotIs DEF NeverOverstated, Metrics
  <2>2. Due(m, covers[k], k) # NaN
    BY <2>1 DEF Hours
  <2> QED
    BY <2>1, <2>2 DEF SoundInv, Faithful, AtMost
<1> QED
  BY <1>1, AllSound, PTL

=============================================================================
