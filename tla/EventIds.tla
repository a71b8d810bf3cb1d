------------------------------ MODULE EventIds ------------------------------
(***************************************************************************)
(* The keys of the hub's "activeevent" table.  A row of flag f is keyed    *)
(*                                                                         *)
(*     {device}{register}{No}       the first occurrence                   *)
(*     {device}{register}{No}_{k}   the k-th re-occurrence, k = 0, 1, ...  *)
(*                                                                         *)
(* and the rows of a flag are found again by text: EventId LIKE            *)
(* '{device}{register}{No}%' ORDER BY EventId DESC LIMIT 1.  The model is   *)
(* of one device, so a key is the digits of the register and of No, the    *)
(* underscore and the digits of k.                                         *)
(***************************************************************************)
EXTENDS Integers, Sequences

CONSTANTS
    Flags,        \* the DI_FLAG rows of the registers modelled
    Digits,       \* Digits[f]: the decimal digits of f's register and of f.No
    Underscore,   \* where the table's collation puts "_": -1 below the digits, 10 above
    MaxInst       \* bound: occurrences of one flag, its first one included, less one

ASSUME IdAssumption ==
    /\ Digits \in [Flags -> Seq(0..9)]
    /\ Underscore \in Int \ (0..9)
    /\ MaxInst \in 0..100

Inst == 0..MaxInst
Ids == Flags \X Inst      \* <<f, 0>> the bare key, <<f, n>> the key ending in "_{n-1}"

\* MaxInst keeps k below 100: at most two digits.
Decimal(k) == IF k < 10 THEN <<k>> ELSE <<k \div 10, k % 10>>

Text(id) ==
    IF id[2] = 0 THEN Digits[id[1]]
                 ELSE Digits[id[1]] \o <<Underscore>> \o Decimal(id[2] - 1)

\* LIKE 's%'
StartsWith(t, s) == Len(s) <= Len(t) /\ \A i \in 1..Len(s) : t[i] = s[i]

\* The order of ORDER BY: character by character, a proper prefix first.
Precedes(s, t) ==
    \/ StartsWith(t, s) /\ Len(s) < Len(t)
    \/ \E i \in 1..Len(s) :
          /\ i <= Len(t)
          /\ s[i] < t[i]
          /\ \A j \in 1..(i - 1) : s[j] = t[j]

\* The keys the query for flag f returns, when every row exists.
Matching == [f \in Flags |-> {id \in Ids : StartsWith(Text(id), Digits[f])}]

\* The keys ordered before a key.
Before == [id \in Ids |-> {other \in Ids : Precedes(Text(other), Text(id))}]

\* What the scheme needs to find a flag's newest row again: no flag of the
\* register has a number that begins with another's, and the text order of a
\* flag's keys is the order in which they are made.
PrefixFree == \A f \in Flags : Matching[f] = {f} \X Inst

OrderAgrees ==
    \A f \in Flags, m, n \in Inst :
        m < n <=> <<f, m>> \in Before[<<f, n>>]

=============================================================================
