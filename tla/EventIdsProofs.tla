--------------------------- MODULE EventIdsProofs ---------------------------
(***************************************************************************)
(* When the key scheme finds a flag's newest row again.  The order of the  *)
(* texts is the order of the occurrences as long as the suffix has one     *)
(* digit, and no longer; and the prefix search stays within a flag when no *)
(* number begins with another.  The first lemmas are about any digits D    *)
(* and any underscore U; the theorems are about the flags.                 *)
(***************************************************************************)
EXTENDS EventIds, SequenceTheorems, TLAPS

\* The text of a re-occurrence, letter by letter.
LEMMA Letters ==
    ASSUME NEW D \in Seq(Int), NEW U \in Int, NEW K \in Seq(Int)
    PROVE  LET t == D \o <<U>> \o K
           IN  /\ t \in Seq(Int)
               /\ Len(D) \in Nat /\ Len(K) \in Nat
               /\ Len(t) = Len(D) + 1 + Len(K)
               /\ \A i \in 1..Len(D) : t[i] = D[i]
               /\ t[Len(D) + 1] = U
               /\ \A i \in 1..Len(K) : t[Len(D) + 1 + i] = K[i]
<1> DEFINE A == D \o <<U>>
<1>1. Len(D) \in Nat /\ Len(K) \in Nat
  BY LenProperties
<1>2. <<U>> \in Seq(Int) /\ Len(<<U>>) = 1 /\ <<U>>[1] = U
  OBVIOUS
<1>3. /\ A \in Seq(Int) /\ Len(A) = Len(D) + 1
      /\ \A i \in 1..Len(D) : A[i] = D[i]
      /\ A[Len(D) + 1] = U
  BY <1>1, <1>2, ConcatProperties
<1> HIDE DEF A
<1>4. /\ A \o K \in Seq(Int) /\ Len(A \o K) = Len(A) + Len(K)
      /\ \A i \in 1..(Len(A) + Len(K)) :
            (A \o K)[i] = IF i <= Len(A) THEN A[i] ELSE K[i - Len(A)]
  BY <1>3, ConcatProperties
<1>5. \A i \in 1..Len(D) : (A \o K)[i] = D[i]
  BY <1>1, <1>3, <1>4
<1>6. (A \o K)[Len(D) + 1] = U
  BY <1>1, <1>3, <1>4
<1>7. ASSUME NEW i \in 1..Len(K) PROVE (A \o K)[Len(D) + 1 + i] = K[i]
  <2>1. Len(D) + 1 + i \in 1..(Len(A) + Len(K)) /\ ~(Len(D) + 1 + i <= Len(A))
    BY <1>1, <1>3
  <2>2. Len(D) + 1 + i - Len(A) = i
    BY <1>1, <1>3
  <2> QED
    BY <1>4, <2>1, <2>2
<1> QED
  BY <1>1, <1>3, <1>4, <1>5, <1>6, <1>7 DEF A

\* Two suffixes of one digit are in the order of the digits ...
LEMMA SuffixOrder ==
    ASSUME NEW D \in Seq(Int), NEW U \in Int, NEW a \in Int, NEW b \in Int
    PROVE  Precedes(D \o <<U>> \o <<a>>, D \o <<U>> \o <<b>>) <=> a < b
<1> DEFINE s == D \o <<U>> \o <<a>>
           t == D \o <<U>> \o <<b>>
           L == Len(D) + 1
<1>1. /\ L \in Nat \ {0}
      /\ s \in Seq(Int) /\ Len(s) = L + 1 /\ s[L + 1] = a
      /\ t \in Seq(Int) /\ Len(t) = L + 1 /\ t[L + 1] = b
  <2>1. <<a>> \in Seq(Int) /\ Len(<<a>>) = 1 /\ <<a>>[1] = a
    OBVIOUS
  <2>2. <<b>> \in Seq(Int) /\ Len(<<b>>) = 1 /\ <<b>>[1] = b
    OBVIOUS
  <2> QED
    BY <2>1, <2>2, Letters
<1>2. \A i \in 1..L : s[i] = t[i] /\ s[i] \in Int
  <2>1. <<a>> \in Seq(Int) /\ <<b>> \in Seq(Int)
    OBVIOUS
  <2>2. \A i \in 1..Len(D) : s[i] = D[i] /\ t[i] = D[i] /\ D[i] \in Int
    BY <2>1, Letters
  <2>3. s[L] = U /\ t[L] = U
    BY <2>1, Letters
  <2> QED
    BY <1>1, <2>2, <2>3
<1> HIDE DEF s, t, L
<1>3. ASSUME a < b PROVE Precedes(s, t)
  <2>1. L + 1 \in 1..Len(s) /\ L + 1 <= Len(t) /\ s[L + 1] < t[L + 1]
    BY <1>1, <1>3
  <2>2. \A j \in 1..(L + 1 - 1) : s[j] = t[j]
    BY <1>1, <1>2
  <2>3. \E i \in 1..Len(s) : i <= Len(t) /\ s[i] < t[i] /\ \A j \in 1..(i - 1) : s[j] = t[j]
    <3>1. L + 1 \in 1..Len(s)
      BY <2>1
    <3> WITNESS L + 1 \in 1..Len(s)
    <3> QED
      BY <1>1, <2>1, <2>2
  <2> QED
    BY <2>3 DEF Precedes
<1>4. ASSUME Precedes(s, t) PROVE a < b
  <2>1. PICK i \in 1..Len(s) : s[i] < t[i]
    BY <1>1, <1>4 DEF Precedes
  <2>2. i \notin 1..L
    <3>1. i \in 1..L => s[i] = t[i] /\ s[i] \in Int
      BY <1>2
    <3> QED
      BY <2>1, <3>1
  <2>3. i = L + 1
    BY <1>1, <2>1, <2>2
  <2> QED
    BY <1>1, <2>1, <2>3
<1> QED
  BY <1>3, <1>4 DEF s, t

\* ... and after the bare key.
LEMMA BareFirst ==
    ASSUME NEW D \in Seq(Int), NEW U \in Int, NEW a \in Int
    PROVE  /\ Precedes(D, D \o <<U>> \o <<a>>)
           /\ ~Precedes(D \o <<U>> \o <<a>>, D)
           /\ ~Precedes(D, D)
<1> DEFINE t == D \o <<U>> \o <<a>>
<1>1. <<a>> \in Seq(Int) /\ Len(<<a>>) = 1
  OBVIOUS
<1>2. /\ Len(D) \in Nat
      /\ Len(t) = Len(D) + 2
      /\ \A i \in 1..Len(D) : t[i] = D[i] /\ D[i] \in Int
  BY <1>1, Letters
<1> HIDE DEF t
<1>3. Precedes(D, t) /\ ~Precedes(t, D) /\ ~Precedes(D, D)
  BY <1>2 DEF Precedes, StartsWith
<1> QED
  BY <1>3 DEF t

\* The suffix 10 does not come after the suffix 9.
LEMMA TenNotAfterNine ==
    ASSUME NEW D \in Seq(Int), NEW U \in Int
    PROVE  ~Precedes(D \o <<U>> \o <<9>>, D \o <<U>> \o <<1, 0>>)
<1> DEFINE s == D \o <<U>> \o <<9>>
           t == D \o <<U>> \o <<1, 0>>
           L == Len(D) + 1
<1>0. <<9>> \in Seq(Int) /\ <<1, 0>> \in Seq(Int)
  OBVIOUS
<1>1. L \in Nat \ {0} /\ Len(s) = L + 1 /\ Len(t) = L + 2
  BY <1>0, Letters
<1>2. s[L + 1] = 9 /\ t[L + 1] = 1
  <2>1. 1 \in 1..Len(<<9>>) /\ <<9>>[1] = 9 /\ 1 \in 1..Len(<<1, 0>>) /\ <<1, 0>>[1] = 1
    OBVIOUS
  <2> QED
    BY <1>0, <2>1, Letters
<1>3. \A i \in 1..L : s[i] = t[i] /\ s[i] \in Int
  <2>1. \A i \in 1..Len(D) : s[i] = D[i] /\ t[i] = D[i] /\ D[i] \in Int
    BY <1>0, Letters
  <2>2. s[L] = U /\ t[L] = U
    BY <1>0, Letters
  <2> QED
    BY <1>1, <2>1, <2>2
<1> HIDE DEF s, t, L
<1>4. ~Precedes(s, t)
  BY <1>1, <1>2, <1>3 DEF Precedes, StartsWith
<1> QED
  BY <1>4 DEF s, t

\* A text that ends in a suffix begins with digits E only if its own digits do.
LEMMA PrefixIsDigits ==
    ASSUME NEW D \in Seq(0..9), NEW E \in Seq(0..9), NEW U \in Int \ (0..9), NEW K \in Seq(Int)
    PROVE  StartsWith(D \o <<U>> \o K, E) <=> StartsWith(D, E)
<1> DEFINE t == D \o <<U>> \o K
<1>1. D \in Seq(Int) /\ Len(E) \in Nat /\ \A i \in 1..Len(E) : E[i] \in 0..9
  BY SeqMonotonic, LenProperties
<1>2. /\ Len(D) \in Nat
      /\ Len(t) >= Len(D) + 1
      /\ \A i \in 1..Len(D) : t[i] = D[i]
      /\ t[Len(D) + 1] \notin 0..9
  BY <1>1, Letters
<1> HIDE DEF t
<1>3. ASSUME StartsWith(t, E) PROVE StartsWith(D, E)
  <2>1. Len(E) <= Len(D)
    <3> SUFFICES ASSUME Len(D) + 1 <= Len(E) PROVE FALSE
      BY <1>1, <1>2
    <3>1. Len(D) + 1 \in 1..Len(E)
      BY <1>1, <1>2
    <3>2. t[Len(D) + 1] = E[Len(D) + 1]
      BY <1>3, <3>1 DEF StartsWith
    <3> QED
      BY <1>1, <1>2, <3>1, <3>2
  <2> QED
    BY <1>1, <1>2, <1>3, <2>1 DEF StartsWith
<1>4. ASSUME StartsWith(D, E) PROVE StartsWith(t, E)
  BY <1>1, <1>2, <1>4 DEF StartsWith
<1> QED
  BY <1>3, <1>4 DEF t

-----------------------------------------------------------------------------
LEMMA TextOf ==
    ASSUME NEW f \in Flags, NEW n \in Inst
    PROVE  /\ Digits[f] \in Seq(0..9) /\ Digits[f] \in Seq(Int)
           /\ n = 0 => Text(<<f, n>>) = Digits[f]
           /\ n # 0 => Text(<<f, n>>) = Digits[f] \o <<Underscore>> \o Decimal(n - 1)
<1>1. Digits[f] \in Seq(0..9)
  BY IdAssumption
<1>2. 0..9 \subseteq Int
  OBVIOUS
<1>3. Digits[f] \in Seq(Int)
  BY <1>1, <1>2, SeqMonotonic
<1>4. <<f, n>>[1] = f /\ <<f, n>>[2] = n
  OBVIOUS
<1> QED
  BY <1>1, <1>3, <1>4, Zenon DEF Text

LEMMA BeforeIs ==
    ASSUME NEW f \in Flags, NEW m \in Inst, NEW n \in Inst
    PROVE  <<f, m>> \in Before[<<f, n>>] <=> Precedes(Text(<<f, m>>), Text(<<f, n>>))
  BY DEF Before, Ids

\* As long as the suffix has one digit (an alarm and ten re-occurrences), the
\* order of the texts is the order of the occurrences, wherever the collation
\* puts the underscore: GetLatestActiveEventAsync finds the newest row.
THEOREM OneDigitInOrder == MaxInst <= 10 => OrderAgrees
<1> SUFFICES ASSUME MaxInst <= 10, NEW f \in Flags, NEW m \in Inst, NEW n \in Inst
             PROVE  m < n <=> Precedes(Text(<<f, m>>), Text(<<f, n>>))
  BY BeforeIs DEF OrderAgrees
<1>1. m \in 0..10 /\ n \in 0..10 /\ Underscore \in Int
  BY IdAssumption DEF Inst
<1>2. ASSUME NEW k \in Inst, k # 0
      PROVE  Text(<<f, k>>) = Digits[f] \o <<Underscore>> \o <<k - 1>>
  <2>1. k - 1 < 10
    BY <1>2, IdAssumption DEF Inst
  <2>2. Decimal(k - 1) = <<k - 1>>
    BY <2>1 DEF Decimal
  <2> QED
    BY <1>2, <2>2, TextOf
<1>3. Digits[f] \in Seq(Int)
  BY TextOf
<1>4. CASE m = 0 /\ n = 0
  <2>1. ~Precedes(Digits[f], Digits[f])
    BY <1>1, <1>3, BareFirst
  <2>2. Text(<<f, m>>) = Digits[f] /\ Text(<<f, n>>) = Digits[f]
    BY <1>4, TextOf, Zenon
  <2> QED
    BY <1>4, <2>1, <2>2
<1>5. CASE m = 0 /\ n # 0
  <2>1. Precedes(Digits[f], Digits[f] \o <<Underscore>> \o <<n - 1>>)
    BY <1>1, <1>3, BareFirst
  <2>2. Text(<<f, m>>) = Digits[f] /\ Text(<<f, n>>) = Digits[f] \o <<Underscore>> \o <<n - 1>>
    BY <1>2, <1>5, TextOf
  <2>3. m < n
    BY <1>1, <1>5
  <2> QED
    BY <2>1, <2>2, <2>3
<1>6. CASE m # 0 /\ n = 0
  <2>1. ~Precedes(Digits[f] \o <<Underscore>> \o <<m - 1>>, Digits[f])
    BY <1>1, <1>3, BareFirst
  <2>2. Text(<<f, n>>) = Digits[f] /\ Text(<<f, m>>) = Digits[f] \o <<Underscore>> \o <<m - 1>>
    BY <1>2, <1>6, TextOf
  <2>3. ~(m < n)
    BY <1>1, <1>6
  <2> QED
    BY <2>1, <2>2, <2>3
<1>7. CASE m # 0 /\ n # 0
  <2>1. m - 1 < n - 1 <=> Precedes(Digits[f] \o <<Underscore>> \o <<m - 1>>,
                                   Digits[f] \o <<Underscore>> \o <<n - 1>>)
    BY <1>1, <1>3, SuffixOrder
  <2>2. m - 1 < n - 1 <=> m < n
    BY <1>1
  <2> QED
    BY <1>2, <1>7, <2>1, <2>2
<1> QED
  BY <1>4, <1>5, <1>6, <1>7

\* From the eleventh re-occurrence on it is not: "_10" does not come after "_9",
\* and the row with suffix 9 is taken for the newest for ever.
THEOREM TwoDigitsOutOfOrder == MaxInst >= 11 /\ Flags # {} => ~OrderAgrees
<1> SUFFICES ASSUME MaxInst >= 11, NEW f \in Flags PROVE ~OrderAgrees
  OBVIOUS
<1>1. 10 \in Inst /\ 11 \in Inst /\ Underscore \in Int
  BY IdAssumption DEF Inst
<1>2. Decimal(10 - 1) = <<9>> /\ Decimal(11 - 1) = <<1, 0>>
  BY DEF Decimal
<1>3. Text(<<f, 10>>) = Digits[f] \o <<Underscore>> \o <<9>>
  <2>1. Text(<<f, 10>>) = Digits[f] \o <<Underscore>> \o Decimal(10 - 1)
    <3>1. 10 # 0
      OBVIOUS
    <3> QED
      BY <1>1, <3>1, TextOf, Zenon
  <2> QED
    BY <1>2, <2>1
<1>4. Text(<<f, 11>>) = Digits[f] \o <<Underscore>> \o <<1, 0>>
  <2>1. Text(<<f, 11>>) = Digits[f] \o <<Underscore>> \o Decimal(11 - 1)
    <3>1. 11 # 0
      OBVIOUS
    <3> QED
      BY <1>1, <3>1, TextOf, Zenon
  <2> QED
    BY <1>2, <2>1
<1>5. Digits[f] \in Seq(Int)
  BY <1>1, TextOf
<1>6. ~Precedes(Text(<<f, 10>>), Text(<<f, 11>>))
  BY <1>1, <1>3, <1>4, <1>5, TenNotAfterNine
<1> QED
  BY <1>1, <1>6, BeforeIs DEF OrderAgrees

\* The search for a flag's rows stays within the flag exactly as long as no
\* number begins with another number of the register.
THEOREM PrefixFreeNumbers ==
    PrefixFree <=> \A f, g \in Flags : StartsWith(Digits[g], Digits[f]) => f = g
<1>1. ASSUME NEW f \in Flags, NEW g \in Flags, NEW n \in Inst
      PROVE  StartsWith(Text(<<g, n>>), Digits[f]) <=> StartsWith(Digits[g], Digits[f])
  <2>1. Digits[f] \in Seq(0..9) /\ Digits[g] \in Seq(0..9) /\ Underscore \in Int \ (0..9)
    BY IdAssumption
  <2>2. CASE n = 0
    BY <2>2, TextOf
  <2>3. CASE n # 0
    <3>1. n - 1 \in 0..99
      BY <2>3, IdAssumption DEF Inst
    <3>2. Decimal(n - 1) \in Seq(Int)
      BY <3>1 DEF Decimal
    <3>3. StartsWith(Digits[g] \o <<Underscore>> \o Decimal(n - 1), Digits[f])
              <=> StartsWith(Digits[g], Digits[f])
      BY <2>1, <3>2, PrefixIsDigits
    <3>4. Text(<<g, n>>) = Digits[g] \o <<Underscore>> \o Decimal(n - 1)
      BY <2>3, TextOf, Zenon
    <3> QED
      BY <3>3, <3>4
  <2> QED
    BY <2>2, <2>3
<1>2. \A f \in Flags, g \in Flags, n \in Inst :
          <<g, n>> \in Matching[f] <=> StartsWith(Digits[g], Digits[f])
  BY <1>1 DEF Matching, Ids
<1>3. \A f \in Flags : Matching[f] \subseteq Flags \X Inst
  BY DEF Matching, Ids
<1>4. ASSUME NEW f \in Flags PROVE StartsWith(Digits[f], Digits[f])
  <2>1. Len(Digits[f]) \in Nat
    BY IdAssumption, LenProperties
  <2> QED
    BY <2>1 DEF StartsWith
<1>5. 0 \in Inst
  BY IdAssumption DEF Inst
<1>6. ASSUME \A f, g \in Flags : StartsWith(Digits[g], Digits[f]) => f = g
      PROVE  PrefixFree
  <2> SUFFICES ASSUME NEW f \in Flags PROVE Matching[f] = {f} \X Inst
    BY DEF PrefixFree
  <2>1. \A id \in Matching[f] : id \in {f} \X Inst
    BY <1>2, <1>3, <1>6
  <2>2. \A id \in {f} \X Inst : id \in Matching[f]
    BY <1>2, <1>4
  <2> QED
    BY <2>1, <2>2
<1>7. ASSUME PrefixFree, NEW f \in Flags, NEW g \in Flags, StartsWith(Digits[g], Digits[f])
      PROVE  f = g
  BY <1>2, <1>5, <1>7 DEF PrefixFree
<1> QED
  BY <1>6, <1>7

=============================================================================
