--------------------------- MODULE AccountsProofs ---------------------------
(***************************************************************************)
(* The safety properties of the accounts for every set of addresses,       *)
(* groups and requests, and every number of password resets.               *)
(***************************************************************************)
EXTENDS Accounts, TLAPS

\* A group by key that there is.
Known(g) == g \in GroupIds /\ groups[g] # None

Tied == {"role", "row"}                   \* the account is made, its row is not
Seeking == {"create", "insert", "group"}  \* no group is saved yet
Idling == {"idle", "group"}               \* no account is at stake

\* What a request that signs on holds, phase by phase.
SignsOn(q) ==
    /\ q.at \notin Idling => q.email \in Emails
    /\ q.at = "group" => q.name \in Names /\ q.group = None
    /\ q.at \in {"create", "insert"} /\ q.type = "aggregator" => q.name \in Names
    /\ q.at \in {"create", "insert"} /\ q.type # "aggregator" => q.name = None
    /\ q.at \in {"create", "insert", "role"} /\ q.type = "contractor" => Known(q.group)
    /\ q.at \in Tied =>
           /\ users[q.email] # None /\ users[q.email].type = q.type
           /\ q.type = "aggregator" => q.group \in GroupIds
           /\ aggregators[q.email] = None
           /\ q.at = "role" => contractors[q.email] = None

\* What a request that approves, logs in or resets a password holds.
Acts(q) ==
    /\ q.at \in {"user", "save"} =>
           /\ contractors[q.email] # None
           /\ q.status \in Statuses /\ q.seen \in Statuses
           /\ q.seen = "Activating" \/ q.confirm => q.email \in activated
    /\ q.at \in {"token", "reset"} => users[q.email] # None
    /\ q.at = "token" \/ (q.at = "reset" /\ q.confirm) =>
           (users[q.email].type = "contractor" => q.email \in activated)
    /\ q.at = "reset" =>
           /\ q.stamp <= users[q.email].stamp
           /\ ~q.confirm /\ q.stamp = users[q.email].stamp /\ q.email \in activated => q.email \in overlapped

RequestsHold == \A r \in Requests : SignsOn(request[r]) /\ Acts(request[r])

\* An account is signed on by one request.
OneSignOn ==
    \A r, s \in Requests : request[r].at \in Tied /\ request[s].at \in Tied /\ request[r].email = request[s].email
        => r = s

\* As long as no two requests have raced for a name, the one that is going to
\* save a group of it is alone, and there is none.
OneMaker ==
    \A n \in Names \ raced : \A r \in Requests : Making(r, n) =>
        /\ \A g \in GroupIds : groups[g] # None => groups[g].name # n
        /\ \A s \in Requests : Making(s, n) => s = r

\* The row of a contractor is that of an account, in a group; what is activated
\* has a row, and what has signed in is an account.
RowsHold ==
    /\ \A e \in Emails : contractors[e] # None =>
           /\ users[e] # None /\ users[e].type = "contractor" /\ Known(contractors[e].group)
           /\ contractors[e].status = "Activating" => e \in activated
    /\ \A e \in Emails : aggregators[e] # None => users[e] # None
    /\ \A e \in activated : contractors[e] # None
    /\ \A e \in signedIn : users[e] # None

Inv ==
    /\ TypeOK /\ RequestsHold /\ OneSignOn /\ OneMaker /\ RowsHold
    /\ RoleHasRow /\ NoOrphanGroup /\ TwinsWereRaced /\ ConfirmedIffActivated

LEMMA InitInv ==
    ASSUME Init
    PROVE  Inv
<1> USE AccountsAssumption DEF Init
<1>1. TypeOK
  BY DEF TypeOK, Idle, Request, Phases, Types
<1>2. RequestsHold /\ OneSignOn /\ OneMaker
  BY DEF RequestsHold, SignsOn, Acts, Idle, Tied, Idling, OneSignOn, OneMaker, Making
<1>3. RowsHold /\ RoleHasRow /\ NoOrphanGroup /\ TwinsWereRaced /\ ConfirmedIffActivated
  BY DEF RowsHold, RoleHasRow, NoOrphanGroup, TwinsWereRaced, ConfirmedIffActivated
<1> QED
  BY <1>1, <1>2, <1>3 DEF Inv

-----------------------------------------------------------------------------
(* Steps that leave the tables as they are.                                *)

\* A step that changes one request only, and the histories, keeps the invariant
\* if the request afterwards holds what it has to, does not become one that
\* signs on an account or makes a group by itself, and does not cease to sign on
\* unnoticed.
LEMMA RequestStep ==
    ASSUME Inv, UNCHANGED <<tables, activated, overlapped>>, resets' \in 0..MaxResets,
           signedIn' \subseteq Emails, cutShort \subseteq cutShort', cutShort' \subseteq Emails,
           raced \subseteq raced', raced' \subseteq Names,
           \A e \in signedIn' : users[e] # None /\ (users[e].type = "contractor" => e \in activated),
           NEW r \in Requests, NEW q \in Request, SignsOn(q), Acts(q),
           request' = [request EXCEPT ![r] = q],
           q.at \in Tied => request[r].at \in Tied /\ q.email = request[r].email /\ q.group = request[r].group,
           request[r].at \in Tied /\ request[r].type = "aggregator" =>
               q.at \in Tied \/ request[r].email \in cutShort',
           q.at \in Seeking /\ q.group = None /\ q.name \in Names \ raced' =>
               /\ \A g \in GroupIds : groups[g] # None => groups[g].name # q.name
               /\ \A s \in Requests \ {r} : ~Making(s, q.name)
    PROVE  Inv'
<1>1. TypeOK'
  BY DEF Inv, TypeOK, tables
<1>t. /\ request'[r] = q
      /\ \A s \in Requests : s # r => request'[s] = request[s]
  BY DEF Inv, TypeOK
<1>2. RequestsHold'
  BY <1>t DEF Inv, RequestsHold, SignsOn, Acts, Known, tables
<1>3. OneSignOn'
  <2> SUFFICES ASSUME NEW s \in Requests, NEW t \in Requests, s # t,
                      request'[s].at \in Tied, request'[t].at \in Tied
               PROVE  request'[s].email # request'[t].email
    BY DEF OneSignOn
  <2>1. /\ request[s].at \in Tied /\ request[s].email = request'[s].email
        /\ request[t].at \in Tied /\ request[t].email = request'[t].email
    BY <1>t
  <2> QED
    BY <2>1 DEF Inv, OneSignOn
<1>4. OneMaker'
  <2> SUFFICES ASSUME NEW n \in Names \ raced', NEW s \in Requests, Making(s, n)'
               PROVE  /\ \A g \in GroupIds : groups[g] # None => groups[g].name # n
                      /\ \A t \in Requests : Making(t, n)' => t = s
    BY DEF OneMaker, tables
  <2>1. \A t \in Requests : t # r => (Making(t, n)' <=> Making(t, n))
    BY <1>t DEF Making
  <2>2. Making(r, n)' => q.at \in Seeking /\ q.group = None /\ q.name = n
    BY <1>t DEF Making, Seeking
  <2>3. n \in Names \ raced
    OBVIOUS
  <2> QED
    BY <2>1, <2>2, <2>3 DEF Inv, OneMaker
<1>5. RowsHold' /\ RoleHasRow' /\ TwinsWereRaced'
  BY DEF Inv, RowsHold, Known, RoleHasRow, TwinsWereRaced, tables
<1>6. ConfirmedIffActivated'
  BY DEF Inv, ConfirmedIffActivated, tables
<1>7. NoOrphanGroup'
  <2> SUFFICES ASSUME NEW g \in GroupIds, groups[g] # None, groups[g].by # None
               PROVE  \/ groups[g].by \in cutShort'
                      \/ aggregators[groups[g].by] = g
                      \/ \E s \in Requests : request'[s].at \in {"role", "row"}
                            /\ request'[s].email = groups[g].by /\ request'[s].group = g
    BY DEF Inv, NoOrphanGroup, tables
  <2> DEFINE e == groups[g].by
  <2>1. CASE aggregators[e] = g \/ e \in cutShort
    BY <2>1
  <2>2. CASE \E s \in Requests : request[s].at \in {"role", "row"} /\ request[s].email = e /\ request[s].group = g
    <3>1. PICK s \in Requests : request[s].at \in {"role", "row"} /\ request[s].email = e /\ request[s].group = g
      BY <2>2
    <3>2. CASE s # r
      BY <1>t, <3>1, <3>2
    <3>3. CASE s = r
      <4>1. request[r].at \in Tied /\ request[r].type = users[e].type /\ users[e].type = "aggregator"
        BY <3>1, <3>3 DEF Inv, NoOrphanGroup, RequestsHold, SignsOn, Tied
      <4>2. CASE q.at \in Tied
        BY <1>t, <3>1, <3>3, <4>2 DEF Tied
      <4>3. CASE e \in cutShort'
        BY <4>3
      <4> QED
        BY <3>1, <3>3, <4>1, <4>2, <4>3
    <3> QED
      BY <3>2, <3>3
  <2> QED
    BY <2>1, <2>2 DEF Inv, NoOrphanGroup
<1> QED
  BY <1>1, <1>2, <1>3, <1>4, <1>5, <1>6, <1>7 DEF Inv

LEMMA IdleHolds ==
    /\ Idle \in Request /\ Idle.at = "idle"
    /\ SignsOn(Idle) /\ Acts(Idle)
    /\ \A r \in Requests : request'[r] = Idle => SignsOn(request[r])' /\ Acts(request[r])'
BY AccountsAssumption DEF Idle, Request, Phases, Types, SignsOn, Acts, Tied, Idling

\* A request that has not come to sign on an account may end.
LEMMA EndStep ==
    ASSUME Inv, UNCHANGED <<tables, resets, history>>, NEW r \in Requests, request[r].at \notin Tied, End(r)
    PROVE  Inv'
<1>1. /\ resets' \in 0..MaxResets /\ signedIn' \subseteq Emails /\ cutShort' \subseteq Emails /\ raced' \subseteq Names
      /\ \A e \in signedIn' : users[e] # None /\ (users[e].type = "contractor" => e \in activated)
  BY DEF history, Inv, TypeOK, RowsHold, ConfirmedIffActivated
<1> QED
  BY <1>1, IdleHolds, RequestStep DEF End, history, Tied, Seeking

\* A request may start that does not seek a group.
LEMMA StartStep ==
    ASSUME Inv, UNCHANGED <<tables, history>>, resets' \in 0..MaxResets, NEW r \in Requests,
           NEW q \in Request, SignsOn(q), Acts(q), q.at \notin Tied, Start(r, q),
           q.at \in Seeking => q.group # None \/ q.name = None
    PROVE  Inv'
<1>1. /\ signedIn' \subseteq Emails /\ cutShort' \subseteq Emails /\ raced' \subseteq Names
      /\ \A e \in signedIn' : users[e] # None /\ (users[e].type = "contractor" => e \in activated)
  BY DEF history, Inv, TypeOK, RowsHold, ConfirmedIffActivated
<1>2. request[r].at \notin Tied /\ None \notin Names
  BY IdleHolds, AccountsAssumption DEF Start, Tied
<1> QED
  BY <1>1, <1>2, RequestStep DEF Start, history

\* A request may start that looks for a group by its name.
LEMMA SeekStep ==
    ASSUME Inv, UNCHANGED <<tables, resets>>, NEW r \in Requests, NEW n \in Names, Race(n),
           NEW q \in Request, SignsOn(q), Acts(q), q.at \notin Tied, Start(r, q), q.name = n,
           q.group = None => Same(n) = {}
    PROVE  Inv'
<1>1. /\ resets' \in 0..MaxResets /\ signedIn' \subseteq Emails /\ cutShort' \subseteq Emails
      /\ raced \subseteq raced' /\ raced' \subseteq Names
      /\ UNCHANGED <<activated, overlapped, cutShort, signedIn>>
      /\ \A e \in signedIn' : users[e] # None /\ (users[e].type = "contractor" => e \in activated)
  BY DEF Race, Inv, TypeOK, RowsHold, ConfirmedIffActivated
<1>2. request[r].at \notin Tied
  BY IdleHolds DEF Start, Tied
<1>3. q.group = None /\ n \notin raced' => /\ \A g \in GroupIds : groups[g] # None => groups[g].name # n
                                           /\ \A s \in Requests \ {r} : ~Making(s, n)
  BY DEF Race, Same
<1> QED
  BY <1>1, <1>2, <1>3, RequestStep DEF Start

-----------------------------------------------------------------------------
(* Steps that write the tables.                                            *)

\* Nothing is taken out of the tables, types stay and stamps only grow.
Grows ==
    /\ \A g \in GroupIds : groups[g] # None => groups'[g] # None
    /\ \A e \in Emails : users[e] # None =>
           /\ users'[e] \in User /\ users'[e] # None
           /\ users'[e].type = users[e].type /\ users[e].stamp <= users'[e].stamp
    /\ \A e \in Emails : contractors[e] # None => contractors'[e] # None
    /\ activated \subseteq activated'

\* The other requests hold what they held as long as the tables only grow, the
\* accounts they sign on get no rows, and what is confirmed under a reset that
\* holds the account as it was is noted.
LEMMA OthersHold ==
    ASSUME Inv, Grows, NEW r \in Requests,
           \A s \in Requests \ {r} : request'[s] = request[s],
           \A s \in Requests \ {r} : request[s].at \in Tied =>
               /\ aggregators'[request[s].email] = aggregators[request[s].email]
               /\ request[s].at = "role" => contractors'[request[s].email] = contractors[request[s].email],
           \A s \in Requests \ {r} : LET q == request[s] IN
               /\ q.at = "reset" /\ ~q.confirm /\ q.stamp = users[q.email].stamp
               /\ users'[q.email].stamp = users[q.email].stamp /\ q.email \in activated'
               => q.email \in overlapped',
           SignsOn(request[r])', Acts(request[r])'
    PROVE  RequestsHold'
<1> SUFFICES ASSUME NEW s \in Requests, s # r
             PROVE  SignsOn(request[s])' /\ Acts(request[s])'
  BY DEF RequestsHold
<1> DEFINE q == request[s]
<1>1. SignsOn(q) /\ Acts(q) /\ request'[s] = q /\ q \in Request
  BY DEF Inv, RequestsHold, TypeOK
<1>2. SignsOn(request[s])'
  <2>1. q.at \in {"create", "insert", "role"} /\ q.type = "contractor" => q.group \in GroupIds /\ groups'[q.group] # None
    BY <1>1 DEF Grows, SignsOn, Known
  <2>2. q.at \in Tied => q.email \in Emails
    BY <1>1 DEF SignsOn, Tied, Idling
  <2>3. q.at \in Tied =>
           /\ users'[q.email] # None /\ users'[q.email].type = q.type
           /\ q.type = "aggregator" => q.group \in GroupIds
           /\ aggregators'[q.email] = None
           /\ q.at = "role" => contractors'[q.email] = None
    BY <1>1, <2>2 DEF Grows, SignsOn
  <2> QED
    BY <1>1, <2>1, <2>3 DEF SignsOn, Known
<1>3. Acts(request[s])'
  <2>1. q.at \in {"user", "save", "token", "reset"} => q.email \in Emails /\ users[q.email] \in User
    BY <1>1 DEF SignsOn, Idling, Acts, Inv, RowsHold, TypeOK
  <2>2. q.at \in {"user", "save"} =>
           /\ contractors'[q.email] # None
           /\ q.status \in Statuses /\ q.seen \in Statuses
           /\ q.seen = "Activating" \/ q.confirm => q.email \in activated'
    BY <1>1, <2>1 DEF Grows, Acts
  <2>3. q.at \in {"token", "reset"} => users'[q.email] # None /\ users'[q.email].type = users[q.email].type
    BY <1>1, <2>1 DEF Grows, Acts
  <2>4. q.at = "token" \/ (q.at = "reset" /\ q.confirm) =>
           (users'[q.email].type = "contractor" => q.email \in activated')
    BY <1>1, <2>1, <2>3 DEF Grows, Acts
  <2>5. q.at = "reset" =>
           /\ q.stamp <= users'[q.email].stamp
           /\ ~q.confirm /\ q.stamp = users'[q.email].stamp /\ q.email \in activated' => q.email \in overlapped'
    <3> SUFFICES ASSUME q.at = "reset"
                 PROVE  /\ q.stamp <= users'[q.email].stamp
                        /\ ~q.confirm /\ q.stamp = users'[q.email].stamp /\ q.email \in activated'
                             => q.email \in overlapped'
      OBVIOUS
    <3>1. users[q.email] # None /\ q.stamp <= users[q.email].stamp /\ q.email \in Emails
      BY <1>1, <2>1 DEF Acts
    <3>2. users[q.email].stamp <= users'[q.email].stamp /\ users'[q.email] \in User
      BY <3>1 DEF Grows
    <3>3. q.stamp \in Nat /\ users[q.email].stamp \in Nat /\ users'[q.email].stamp \in Nat
      BY <1>1, <2>1, <3>2 DEF User, Request
    <3>4. q.stamp <= users'[q.email].stamp
      BY <3>1, <3>2, <3>3
    <3>5. q.stamp = users'[q.email].stamp => q.stamp = users[q.email].stamp
      BY <3>1, <3>2, <3>3
    <3> QED
      BY <3>4, <3>5
  <2> QED
    BY <1>1, <2>2, <2>3, <2>4, <2>5 DEF Acts
<1> QED
  BY <1>2, <1>3

LEMMA InsertInv ==
    ASSUME Inv, NEW r \in Requests, Insert(r)
    PROVE  Inv'
<1> USE AccountsAssumption, NoneAssumption
<1> DEFINE q == request[r]
           e == q.email
<1>1. q.at = "insert" /\ q \in Request /\ SignsOn(q) /\ e \in Emails /\ TypeOK
  BY DEF Insert, Inv, RequestsHold, TypeOK, SignsOn, Idling
<1>2. CASE users[e] # None
  BY <1>1, <1>2, EndStep DEF Insert, tables, Tied
<1>3. CASE users[e] = None
  <2> DEFINE u == [type |-> q.type, confirm |-> FALSE, stamp |-> 0]
             makes == q.type = "aggregator" /\ q.group = None
             row == [name |-> q.name, by |-> e]
  <2>1. users' = [users EXCEPT ![e] = u]
    BY <1>3 DEF Insert
  <2>2. UNCHANGED <<roles, contractors, aggregators, supervisors, resets, history>>
    BY DEF Insert
  <2>3. PICK g \in GroupIds \cup {None} :
           /\ request' = [request EXCEPT ![r] = [q EXCEPT !.at = "role", !.group = g]]
           /\ makes => g \in GroupIds /\ groups[g] = None /\ groups' = [groups EXCEPT ![g] = row]
           /\ ~makes => g = q.group /\ groups' = groups
    <3>1. CASE makes
      BY <1>3, <3>1 DEF Insert
    <3>2. CASE ~makes
      <4>1. groups' = groups /\ Goto(r, "role")
        BY <1>3, <3>2 DEF Insert
      <4>2. q.group \in GroupIds \cup {None}
        BY <1>1 DEF Request
      <4>3. [q EXCEPT !.at = "role", !.group = q.group] = [q EXCEPT !.at = "role"]
        BY <1>1 DEF Request
      <4> QED
        BY <3>2, <4>1, <4>2, <4>3 DEF Goto
    <3> QED
      BY <3>1, <3>2
  <2> DEFINE new == [q EXCEPT !.at = "role", !.group = g]
  <2>4. u \in User /\ (makes => row \in Group /\ q.name \in Names) /\ (q.type = "aggregator" => g \in GroupIds)
    BY <1>1, <2>3 DEF User, Request, Group, SignsOn
  <2>5. new \in Request /\ new.at = "role" /\ new.email = e /\ new.group = g /\ new.type = q.type
    BY <1>1, <2>3 DEF Request, Phases
  <2>6. /\ groups' \in [GroupIds -> Group \cup {None}]
        /\ \A x \in GroupIds : groups[x] # None => groups'[x] = groups[x]
        /\ \A x \in GroupIds : groups[x] = None /\ groups'[x] # None => makes /\ x = g /\ groups'[x] = row
        /\ makes => groups'[g] = row
    BY <1>1, <2>3, <2>4 DEF TypeOK
  <2>7. /\ users'[e] = u /\ u # None
        /\ \A x \in Emails : x # e => users'[x] = users[x]
    BY <1>1, <2>1, <2>4 DEF TypeOK
  <2>8. contractors[e] = None /\ aggregators[e] = None /\ e \notin activated /\ e \notin signedIn /\ e \notin roles
    BY <1>1, <1>3 DEF Inv, RowsHold, RoleHasRow
  <2>9. /\ request'[r] = new
        /\ \A s \in Requests \ {r} : request'[s] = request[s]
    BY <1>1, <2>3 DEF TypeOK
  <2>10. TypeOK'
    BY <1>1, <2>1, <2>2, <2>3, <2>4, <2>5, <2>6 DEF TypeOK, history
  <2>11. Grows
    <3>1. \A x \in Emails : users[x] # None => users[x] \in User /\ users[x].stamp <= users[x].stamp
      BY <1>1 DEF TypeOK, User
    <3> QED
      BY <1>3, <2>2, <2>6, <2>7, <3>1 DEF Grows, history
  <2> HIDE DEF u, new, row
  <2>12. RequestsHold'
    <3>1. q.type = "contractor" => g \in GroupIds /\ groups'[g] # None
      BY <1>1, <2>3, <2>6 DEF SignsOn, Known
    <3>2. u.type = q.type
      BY DEF u
    <3>3. SignsOn(request[r])'
      BY <1>1, <2>2, <2>4, <2>5, <2>7, <2>8, <2>9, <3>1, <3>2 DEF SignsOn, Known, Tied, Idling
    <3>4. Acts(request[r])'
      BY <2>5, <2>9 DEF Acts
    <3>5. \A s \in Requests \ {r} : LET p == request[s] IN
             /\ p.at = "reset" /\ ~p.confirm /\ p.stamp = users[p.email].stamp
             /\ users'[p.email].stamp = users[p.email].stamp /\ p.email \in activated'
             => p.email \in overlapped'
      BY <2>2 DEF Inv, RequestsHold, Acts, history
    <3> QED
      BY <2>2, <2>9, <2>11, <3>3, <3>4, <3>5, OthersHold
  <2>13. OneSignOn'
    <3>1. \A s \in Requests : request[s].at \in Tied => request[s].email # e
      BY <1>3 DEF Inv, RequestsHold, SignsOn
    <3> QED
      BY <2>5, <2>9, <3>1 DEF Inv, OneSignOn
  <2>14. OneMaker'
    <3> SUFFICES ASSUME NEW n \in Names \ raced, NEW s \in Requests, Making(s, n)'
                 PROVE  /\ \A x \in GroupIds : groups'[x] # None => groups'[x].name # n
                        /\ \A t \in Requests : Making(t, n)' => t = s
      BY <2>2 DEF OneMaker, history
    <3>1. s # r /\ Making(s, n) /\ \A t \in Requests : Making(t, n)' => Making(t, n)
      BY <2>5, <2>9 DEF Making
    <3>2. makes => q.name # n
      BY <1>1, <3>1 DEF Inv, OneMaker, Making
    <3> QED
      BY <2>6, <3>1, <3>2 DEF Inv, OneMaker, row
  <2>15. RowsHold' /\ RoleHasRow'
    BY <1>1, <2>2, <2>6, <2>7, <2>8 DEF Inv, RowsHold, RoleHasRow, Known, TypeOK, history
  <2>16. NoOrphanGroup'
    <3> SUFFICES ASSUME NEW x \in GroupIds, groups'[x] # None, groups'[x].by # None
                 PROVE  LET m == groups'[x].by IN
                        /\ users'[m] # None /\ users'[m].type = "aggregator"
                        /\ \/ aggregators'[m] = x
                           \/ m \in cutShort'
                           \/ \E s \in Requests : request'[s].at \in {"role", "row"}
                                                  /\ request'[s].email = m /\ request'[s].group = x
      BY DEF NoOrphanGroup
    <3>1. CASE groups[x] # None
      <4>1. groups'[x] = groups[x] /\ groups[x].by \in Emails /\ groups[x].by # e
        BY <1>1, <1>3, <2>6, <3>1 DEF TypeOK, Group, Inv, NoOrphanGroup
      <4>2. \A s \in Requests : request[s].at \in {"role", "row"} => request'[s] = request[s]
        BY <1>1, <2>9
      <4> QED
        BY <2>2, <2>7, <3>1, <4>1, <4>2 DEF Inv, NoOrphanGroup, history
    <3>2. CASE groups[x] = None
      <4>1. x = g /\ q.type = "aggregator" /\ groups'[x].by = e
        BY <2>6, <3>2 DEF row
      <4> QED
        BY <2>5, <2>7, <2>9, <4>1 DEF u
    <3> QED
      BY <3>1, <3>2
  <2>17. TwinsWereRaced'
    <3> SUFFICES ASSUME NEW x \in GroupIds, NEW y \in GroupIds, x # y, groups'[x] # None, groups'[y] # None,
                        groups'[x].name = groups'[y].name, groups'[x].name \notin raced
                 PROVE  FALSE
      BY <2>2 DEF TwinsWereRaced, history
    <3>1. makes /\ q.name \notin raced => \A z \in GroupIds : groups[z] # None => groups[z].name # q.name
      BY <1>1, <2>4 DEF Inv, OneMaker, Making
    <3>2. CASE groups[x] # None /\ groups[y] # None
      BY <2>6, <3>2 DEF Inv, TwinsWereRaced
    <3>3. CASE groups[x] = None
      BY <2>6, <3>1, <3>3 DEF row
    <3>4. CASE groups[y] = None
      BY <2>6, <3>1, <3>4 DEF row
    <3> QED
      BY <3>2, <3>3, <3>4
  <2>18. ConfirmedIffActivated'
    <3>1. u.confirm = FALSE
      BY DEF u
    <3> QED
      BY <1>1, <2>2, <2>7, <2>8, <3>1 DEF Inv, ConfirmedIffActivated, history
  <2> QED
    BY <2>10, <2>12, <2>13, <2>14, <2>15, <2>16, <2>17, <2>18 DEF Inv
<1> QED
  BY <1>2, <1>3

LEMMA InsertGroupInv ==
    ASSUME Inv, NEW r \in Requests, InsertGroup(r)
    PROVE  Inv'
<1> USE AccountsAssumption, NoneAssumption
<1> DEFINE n == request[r].name
           row == [name |-> n, by |-> None]
<1>1. request[r] \in Request /\ request[r].at = "group" /\ n \in Names /\ TypeOK
  BY DEF InsertGroup, Inv, RequestsHold, TypeOK, SignsOn
<1>2. PICK g \in GroupIds : groups[g] = None /\ groups' = [groups EXCEPT ![g] = row]
  BY DEF InsertGroup
<1>3. /\ request' = [request EXCEPT ![r] = Idle]
      /\ UNCHANGED <<users, roles, contractors, aggregators, supervisors, resets, history>>
  BY DEF InsertGroup, End
<1>4. /\ \A x \in GroupIds : x # g => groups'[x] = groups[x]
      /\ groups'[g] = row /\ row \in Group /\ row.by = None /\ row.name = n
  BY <1>1, <1>2 DEF TypeOK, Group
<1>5. /\ request'[r] = Idle
      /\ \A s \in Requests \ {r} : request'[s] = request[s]
  BY <1>1, <1>3 DEF TypeOK
<1> HIDE DEF row
<1>6. TypeOK'
  BY <1>1, <1>2, <1>3, <1>4, IdleHolds DEF TypeOK, history
<1>7. RequestsHold'
  <2>1. \A s \in Requests : SignsOn(request[s]) /\ Acts(request[s])
    BY DEF Inv, RequestsHold
  <2>2. \A x \in GroupIds : groups[x] # None => groups'[x] # None
    BY <1>2, <1>4
  <2>3. \A s \in Requests \ {r} : SignsOn(request[s])' /\ Acts(request[s])'
    BY <1>3, <1>5, <2>1, <2>2 DEF SignsOn, Acts, Known, history
  <2> QED
    BY <1>5, <2>3, IdleHolds DEF RequestsHold
<1>8. OneSignOn'
  BY <1>5, IdleHolds DEF Inv, OneSignOn, Tied
<1>9. n \notin raced =>
        /\ \A x \in GroupIds : groups[x] # None => groups[x].name # n
        /\ \A s \in Requests \ {r} : ~Making(s, n)
  <2>1. Making(r, n) \/ request[r].group # None
    BY <1>1 DEF Making
  <2>2. request[r].group = None
    BY <1>1 DEF Inv, RequestsHold, SignsOn
  <2> QED
    BY <1>1, <2>1, <2>2 DEF Inv, OneMaker
<1>10. OneMaker'
  <2> SUFFICES ASSUME NEW m \in Names \ raced, NEW s \in Requests, Making(s, m)'
               PROVE  /\ \A x \in GroupIds : groups'[x] # None => groups'[x].name # m
                      /\ \A t \in Requests : Making(t, m)' => t = s
    BY <1>3 DEF OneMaker, history
  <2>1. s # r /\ Making(s, m) /\ \A t \in Requests : Making(t, m)' => Making(t, m)
    BY <1>5, IdleHolds DEF Making
  <2> QED
    BY <1>4, <1>9, <2>1 DEF Inv, OneMaker
<1>11. RowsHold' /\ RoleHasRow'
  BY <1>1, <1>2, <1>3, <1>4 DEF Inv, RowsHold, RoleHasRow, Known, TypeOK, history
<1>12. NoOrphanGroup'
  <2>1. \A s \in Requests : request[s].at \in {"role", "row"} => request'[s] = request[s]
    BY <1>1, <1>5
  <2> QED
    BY <1>3, <1>4, <2>1 DEF Inv, NoOrphanGroup, history
<1>13. TwinsWereRaced'
  BY <1>2, <1>3, <1>4, <1>9 DEF Inv, TwinsWereRaced, history
<1>14. ConfirmedIffActivated'
  BY <1>3 DEF Inv, ConfirmedIffActivated, history
<1> QED
  BY <1>6, <1>7, <1>8, <1>10, <1>11, <1>12, <1>13, <1>14 DEF Inv

LEMMA AddToRoleInv ==
    ASSUME Inv, NEW r \in Requests, AddToRole(r)
    PROVE  Inv'
<1> USE AccountsAssumption, NoneAssumption
<1> DEFINE q == request[r]
           e == q.email
<1>1. q.at = "role" /\ q \in Request /\ SignsOn(q) /\ e \in Emails /\ TypeOK
  BY DEF AddToRole, Inv, RequestsHold, TypeOK, SignsOn, Idling
<1>2. CASE users[e].stamp # q.stamp
  <2> DEFINE next == [q EXCEPT !.at = "row", !.dirty = TRUE]
  <2>1. next \in Request /\ SignsOn(next) /\ Acts(next) /\ next.at = "row" /\ next.email = e /\ next.group = q.group
    BY <1>1 DEF Request, Phases, SignsOn, Acts, Tied, Idling
  <2>2. request' = [request EXCEPT ![r] = next] /\ UNCHANGED <<tables, resets, history>>
    BY <1>2 DEF AddToRole, tables
  <2>3. /\ resets' \in 0..MaxResets /\ signedIn' \subseteq Emails /\ cutShort' \subseteq Emails /\ raced' \subseteq Names
        /\ \A x \in signedIn' : users[x] # None /\ (users[x].type = "contractor" => x \in activated)
    BY <2>2 DEF history, Inv, TypeOK, RowsHold, ConfirmedIffActivated
  <2> HIDE DEF next
  <2> QED
    BY <1>1, <2>1, <2>2, <2>3, RequestStep DEF Tied, Seeking, history
<1>3. CASE users[e].stamp = q.stamp
  <2> DEFINE u == [users[e] EXCEPT !.confirm = FALSE, !.stamp = q.stamp + 1]
             row == [group |-> q.group, status |-> "Signing"]
             next == [q EXCEPT !.at = "row"]
  <2>1. /\ roles' = roles \cup {e}
        /\ users' = [users EXCEPT ![e] = u]
        /\ contractors' = IF q.type = "contractor" THEN [contractors EXCEPT ![e] = row] ELSE contractors
        /\ request' = [request EXCEPT ![r] = next]
        /\ UNCHANGED <<groups, aggregators, supervisors, resets, history>>
    BY <1>3 DEF AddToRole, Goto
  <2>2. users[e] \in User /\ users[e] # None /\ users[e].type = q.type
    BY <1>1 DEF SignsOn, Tied, TypeOK
  <2>3. u \in User /\ u.type = q.type /\ u.confirm = FALSE /\ u.stamp = users[e].stamp + 1 /\ users[e].stamp \in Nat
    <3>1. users[e].stamp \in Nat /\ q.stamp + 1 \in Nat
      BY <1>1, <2>2 DEF User, Request
    <3>2. u \in User
      BY <2>2, <3>1 DEF User
    <3>3. u.type = q.type /\ u.confirm = FALSE /\ u.stamp = q.stamp + 1
      BY <2>2 DEF User
    <3> QED
      BY <1>3, <2>2, <3>1, <3>2, <3>3
  <2>4. u # None /\ users[e].stamp <= u.stamp /\ users[e].stamp # u.stamp
    BY <2>3
  <2>5. q.type = "contractor" => row \in Contractor /\ Known(q.group) /\ row.group = q.group /\ row.status = "Signing"
    BY <1>1 DEF Contractor, SignsOn, Known
  <2>6. next \in Request /\ next.at = "row" /\ next.email = e /\ next.group = q.group /\ next.type = q.type
    BY <1>1 DEF Request, Phases
  <2> HIDE DEF u, row, next
  <2>7. /\ \A x \in Emails : x # e => users'[x] = users[x] /\ contractors'[x] = contractors[x]
        /\ users'[e] = u
        /\ contractors'[e] = IF q.type = "contractor" THEN row ELSE contractors[e]
        /\ contractors' \in [Emails -> Contractor \cup {None}]
    BY <1>1, <2>1, <2>5 DEF TypeOK
  <2>8. /\ request'[r] = next
        /\ \A s \in Requests \ {r} : request'[s] = request[s]
    BY <1>1, <2>1 DEF TypeOK
  <2>9. contractors[e] = None /\ aggregators[e] = None /\ e \notin activated
    BY <1>1 DEF SignsOn, Tied, Inv, RowsHold
  <2>10. TypeOK'
    BY <1>1, <2>1, <2>3, <2>6, <2>7 DEF TypeOK, history
  <2>11. Grows
    <3>1. \A x \in Emails : users[x] # None => users[x] \in User /\ users[x].stamp <= users[x].stamp
      BY <1>1 DEF TypeOK, User
    <3> QED
      BY <2>1, <2>2, <2>3, <2>4, <2>7, <2>9, <3>1 DEF Grows, history
  <2>12. \A s \in Requests \ {r} : request[s].at \in Tied => request[s].email \in Emails /\ request[s].email # e
    BY <1>1 DEF Inv, OneSignOn, Tied, RequestsHold, SignsOn, Idling
  <2>13. RequestsHold'
    <3>1. SignsOn(request[r])' /\ Acts(request[r])'
      BY <1>1, <2>1, <2>3, <2>4, <2>6, <2>7, <2>8, <2>9 DEF SignsOn, Acts, Tied, Idling
    <3>2. \A s \in Requests \ {r} : request[s].at \in Tied =>
             /\ aggregators'[request[s].email] = aggregators[request[s].email]
             /\ request[s].at = "role" => contractors'[request[s].email] = contractors[request[s].email]
      BY <2>1, <2>7, <2>12
    <3>3. \A s \in Requests \ {r} : LET p == request[s] IN
             /\ p.at = "reset" /\ ~p.confirm /\ p.stamp = users[p.email].stamp
             /\ users'[p.email].stamp = users[p.email].stamp /\ p.email \in activated'
             => p.email \in overlapped'
      BY <2>1 DEF Inv, RequestsHold, Acts, history
    <3> QED
      BY <2>8, <2>11, <3>1, <3>2, <3>3, OthersHold
  <2>14. OneSignOn'
    BY <2>6, <2>8, <2>12 DEF Inv, OneSignOn
  <2>15. OneMaker'
    <3>1. \A n \in Names, s \in Requests : Making(s, n)' => s # r /\ Making(s, n)
      BY <2>6, <2>8 DEF Making
    <3> QED
      BY <2>1, <3>1 DEF Inv, OneMaker, history
  <2>16. RowsHold'
    BY <1>1, <2>1, <2>2, <2>3, <2>4, <2>5, <2>7 DEF Inv, RowsHold, Known, history
  <2>17. RoleHasRow'
    BY <1>1, <2>1, <2>2, <2>3, <2>4, <2>5, <2>7 DEF Inv, RoleHasRow, TypeOK, Known
  <2>18. NoOrphanGroup'
    <3> SUFFICES ASSUME NEW x \in GroupIds, groups[x] # None, groups[x].by # None
                 PROVE  LET m == groups[x].by IN
                        /\ users'[m] # None /\ users'[m].type = "aggregator"
                        /\ \/ aggregators[m] = x
                           \/ m \in cutShort
                           \/ \E s \in Requests : request'[s].at \in {"role", "row"}
                                                  /\ request'[s].email = m /\ request'[s].group = x
      BY <2>1 DEF NoOrphanGroup, history
    <3>1. groups[x].by \in Emails
      BY <1>1 DEF TypeOK, Group
    <3>2. \A s \in Requests : request[s].at \in {"role", "row"} =>
             /\ request'[s].at \in {"role", "row"}
             /\ request'[s].email = request[s].email /\ request'[s].group = request[s].group
      BY <2>6, <2>8
    <3> QED
      BY <2>2, <2>3, <2>4, <2>7, <3>1, <3>2 DEF Inv, NoOrphanGroup
  <2>19. TwinsWereRaced'
    BY <2>1 DEF Inv, TwinsWereRaced, history
  <2>20. ConfirmedIffActivated'
    BY <1>1, <2>1, <2>2, <2>3, <2>7, <2>9 DEF Inv, ConfirmedIffActivated, history
  <2> QED
    BY <2>10, <2>13, <2>14, <2>15, <2>16, <2>17, <2>18, <2>19, <2>20 DEF Inv
<1> QED
  BY <1>2, <1>3

LEMMA SaveRowInv ==
    ASSUME Inv, NEW r \in Requests, SaveRow(r)
    PROVE  Inv'
<1> USE AccountsAssumption, NoneAssumption
<1> DEFINE q == request[r]
           e == q.email
<1>1. /\ q.at = "row" /\ e \in Emails /\ users[e] # None /\ users[e].type = q.type
      /\ (q.type = "aggregator" => q.group \in GroupIds) /\ TypeOK
  BY DEF SaveRow, Inv, RequestsHold, TypeOK, SignsOn, Tied, Idling
<1>2. /\ request' = [request EXCEPT ![r] = Idle]
      /\ UNCHANGED <<groups, users, roles, contractors, resets, activated, overlapped, signedIn, raced>>
  BY DEF SaveRow, End
<1>3. /\ aggregators' \in [Emails -> GroupIds \cup {None}] /\ supervisors' \subseteq Emails
      /\ cutShort \subseteq cutShort' /\ cutShort' \subseteq Emails
      /\ \A x \in Emails : x # e => aggregators'[x] = aggregators[x]
      /\ q.type = "aggregator" => aggregators'[e] = q.group \/ e \in cutShort'
  BY <1>1 DEF SaveRow, TypeOK
<1>4. TypeOK'
  BY <1>1, <1>2, <1>3, IdleHolds DEF TypeOK
<1>5. /\ request'[r] = Idle
      /\ \A s \in Requests \ {r} : request'[s] = request[s]
  BY <1>1, <1>2 DEF TypeOK
<1>6. \A s \in Requests \ {r} : request[s].at \in Tied => request[s].email \in Emails /\ request[s].email # e
  BY <1>1 DEF Inv, OneSignOn, Tied, RequestsHold, SignsOn, Idling
<1>7. RequestsHold'
  <2>1. \A s \in Requests : SignsOn(request[s]) /\ Acts(request[s])
    BY DEF Inv, RequestsHold
  <2>2. \A s \in Requests \ {r} : SignsOn(request[s])' /\ Acts(request[s])'
    BY <1>2, <1>3, <1>5, <1>6, <2>1 DEF SignsOn, Acts, Known
  <2> QED
    BY <1>5, <2>2, IdleHolds DEF RequestsHold
<1>8. OneSignOn' /\ OneMaker'
  BY <1>2, <1>5, IdleHolds DEF Inv, OneSignOn, OneMaker, Making, Tied
<1>9. RowsHold' /\ RoleHasRow' /\ TwinsWereRaced' /\ ConfirmedIffActivated'
  BY <1>1, <1>2, <1>3 DEF Inv, RowsHold, RoleHasRow, TwinsWereRaced, ConfirmedIffActivated, Known
<1>10. NoOrphanGroup'
  <2> SUFFICES ASSUME NEW x \in GroupIds, groups[x] # None, groups[x].by # None
               PROVE  LET m == groups[x].by IN
                      \/ aggregators'[m] = x
                      \/ m \in cutShort'
                      \/ \E s \in Requests : request'[s].at \in {"role", "row"}
                                             /\ request'[s].email = m /\ request'[s].group = x
    BY <1>2 DEF Inv, NoOrphanGroup
  <2> DEFINE m == groups[x].by
  <2>1. m \in Emails /\ users[m].type = "aggregator"
    BY <1>1 DEF TypeOK, Group, Inv, NoOrphanGroup
  <2>2. CASE aggregators[m] = x
    <3>1. aggregators[e] = None
      BY <1>1 DEF Inv, RequestsHold, SignsOn, Tied
    <3>2. m # e
      BY <2>2, <3>1
    <3> QED
      BY <1>3, <2>1, <2>2, <3>2
  <2>3. CASE m \in cutShort
    BY <1>3, <2>3
  <2>4. CASE \E s \in Requests : request[s].at \in {"role", "row"} /\ request[s].email = m /\ request[s].group = x
    <3>1. PICK s \in Requests : request[s].at \in {"role", "row"} /\ request[s].email = m /\ request[s].group = x
      BY <2>4
    <3>2. CASE s # r
      BY <1>5, <3>1, <3>2
    <3>3. CASE s = r
      BY <1>1, <1>3, <2>1, <3>1, <3>3
    <3> QED
      BY <3>2, <3>3
  <2> QED
    BY <2>2, <2>3, <2>4 DEF Inv, NoOrphanGroup
<1> QED
  BY <1>4, <1>7, <1>8, <1>9, <1>10 DEF Inv

LEMMA SaveStatusInv ==
    ASSUME Inv, NEW r \in Requests, SaveStatus(r)
    PROVE  Inv'
<1> USE AccountsAssumption, NoneAssumption
<1> DEFINE q == request[r]
           e == q.email
           confirms == Confirms(q.status) /\ ~q.confirm
           written == q.status # q.seen
<1>1. q.at = "save" /\ q \in Request /\ SignsOn(q) /\ Acts(q) /\ e \in Emails /\ TypeOK
  BY DEF SaveStatus, Inv, RequestsHold, TypeOK, SignsOn, Idling
<1>2. CASE confirms /\ users[e].stamp # q.stamp
  BY <1>1, <1>2, EndStep DEF SaveStatus, tables, history, Tied
<1>3. CASE ~(confirms /\ users[e].stamp # q.stamp)
  <2> DEFINE u == IF confirms THEN [users[e] EXCEPT !.confirm = TRUE] ELSE users[e]
             row == IF written THEN [contractors[e] EXCEPT !.status = q.status] ELSE contractors[e]
  <2>1. /\ users' = [users EXCEPT ![e] = u]
        /\ contractors' = [contractors EXCEPT ![e] = row]
        /\ activated' = IF written /\ q.status = "Activating" THEN activated \cup {e} ELSE activated
        /\ overlapped' = IF ~confirms THEN overlapped
                         ELSE IF Held(e) THEN overlapped \cup {e} ELSE overlapped \ {e}
        /\ request' = [request EXCEPT ![r] = Idle]
        /\ UNCHANGED <<groups, roles, aggregators, supervisors, resets, signedIn, cutShort, raced>>
    BY <1>1, <1>3 DEF SaveStatus, End, TypeOK
  <2>2. /\ contractors[e] \in Contractor /\ users[e] \in User /\ users[e].type = "contractor"
        /\ q.status \in Statuses
    BY <1>1 DEF Acts, TypeOK, Inv, RowsHold
  <2>3. /\ u \in User /\ u.type = "contractor" /\ u.stamp = users[e].stamp /\ users[e].stamp \in Nat
        /\ u.confirm <=> users[e].confirm \/ confirms
    BY <2>2 DEF User
  <2>4. /\ row \in Contractor /\ row.group = contractors[e].group
        /\ row.status = IF written THEN q.status ELSE contractors[e].status
    BY <2>2 DEF Contractor
  <2>a. /\ u # None /\ row # None /\ users[e] # None /\ contractors[e] # None
        /\ groups[contractors[e].group] # None /\ contractors[e].group \in GroupIds
    BY <1>1, <2>2, <2>3, <2>4 DEF Inv, RowsHold, Known
  <2> HIDE DEF u, row
  <2>5. /\ \A x \in Emails : x # e => users'[x] = users[x] /\ contractors'[x] = contractors[x]
        /\ users'[e] = u /\ contractors'[e] = row
    BY <1>1, <2>1 DEF TypeOK
  <2>6. /\ request'[r] = Idle
        /\ \A s \in Requests \ {r} : request'[s] = request[s]
    BY <1>1, <2>1 DEF TypeOK
  <2>7. TypeOK'
    BY <1>1, <2>1, <2>3, <2>4, IdleHolds DEF TypeOK
  <2>8. /\ q.confirm => e \in activated
        /\ e \in activated' => e \in activated \/ u.confirm
        /\ u.confirm => e \in activated'
    <3>1. (q.seen = "Activating" => e \in activated) /\ (q.confirm => e \in activated)
      BY <1>1 DEF Acts
    <3>2. users[e].confirm => e \in activated
      BY <1>1, <2>2, <2>a DEF Inv, ConfirmedIffActivated
    <3> QED
      BY <2>1, <2>3, <3>1, <3>2 DEF Confirms
  <2>9. e \in activated' => e \in activated \/ confirms
    BY <2>1, <2>8 DEF Confirms
  <2>10. Grows
    <3>1. \A x \in Emails : users[x] # None => users[x] \in User /\ users[x].stamp <= users[x].stamp
      BY <1>1 DEF TypeOK, User
    <3> QED
      BY <2>1, <2>2, <2>3, <2>a, <2>5, <3>1 DEF Grows
  <2>11. RequestsHold'
    <3>1. ASSUME NEW s \in Requests \ {r}, request[s].at \in Tied
          PROVE  /\ aggregators'[request[s].email] = aggregators[request[s].email]
                 /\ request[s].at = "role" => contractors'[request[s].email] = contractors[request[s].email]
      <4>1. request[s].email \in Emails /\ (request[s].at = "role" => contractors[request[s].email] = None)
        BY <3>1 DEF Inv, RequestsHold, SignsOn, Tied, Idling
      <4> QED
        BY <2>1, <2>5, <2>a, <4>1
    <3>2. ASSUME NEW s \in Requests \ {r}
          PROVE  LET p == request[s] IN
             /\ p.at = "reset" /\ ~p.confirm /\ p.stamp = users[p.email].stamp
             /\ users'[p.email].stamp = users[p.email].stamp /\ p.email \in activated'
             => p.email \in overlapped'
      <4> DEFINE p == request[s]
      <4> SUFFICES ASSUME p.at = "reset", ~p.confirm, p.stamp = users[p.email].stamp, p.email \in activated'
                   PROVE  p.email \in overlapped'
        OBVIOUS
      <4>1. p.email \in activated => p.email \in overlapped
        BY DEF Inv, RequestsHold, Acts
      <4>2. CASE p.email = e /\ confirms
        BY <2>1, <4>2 DEF Held
      <4>3. CASE p.email # e
        BY <2>1, <4>1, <4>3
      <4>4. CASE ~confirms
        BY <2>1, <2>9, <4>1, <4>3, <4>4
      <4> QED
        BY <4>2, <4>3, <4>4
    <3> QED
      BY <2>6, <2>10, <3>1, <3>2, IdleHolds, OthersHold
  <2>12. OneSignOn' /\ OneMaker'
    BY <2>1, <2>6, IdleHolds DEF Inv, OneSignOn, OneMaker, Making, Tied
  <2>13. RowsHold'
    <3>1. ASSUME NEW x \in Emails, contractors'[x] # None
          PROVE  /\ users'[x] # None /\ users'[x].type = "contractor" /\ Known(contractors[x].group)'
                 /\ contractors'[x].status = "Activating" => x \in activated'
      <4>1. CASE x = e
        <5>1. row.status = "Activating" => e \in activated'
          BY <1>1, <2>1, <2>2, <2>4 DEF Inv, RowsHold
        <5> QED
          BY <2>1, <2>3, <2>4, <2>5, <2>a, <4>1, <5>1 DEF Known
      <4>2. CASE x # e
        BY <2>1, <2>5, <3>1, <4>2 DEF Inv, RowsHold, Known
      <4> QED
        BY <4>1, <4>2
    <3>2. \A x \in activated' : contractors'[x] # None
      BY <1>1, <2>1, <2>5, <2>a DEF Inv, RowsHold, TypeOK
    <3>3. \A x \in signedIn' : users'[x] # None
      BY <1>1, <2>1, <2>5, <2>a DEF Inv, RowsHold, TypeOK
    <3>4. \A x \in Emails : aggregators'[x] # None => users'[x] # None
      BY <2>1, <2>5, <2>a DEF Inv, RowsHold
    <3> QED
      BY <3>1, <3>2, <3>3, <3>4 DEF RowsHold
  <2>14. RoleHasRow'
    <3> SUFFICES ASSUME NEW x \in roles
                 PROVE  /\ users'[x] # None
                        /\ users'[x].type = "contractor" =>
                             contractors'[x] # None /\ groups'[contractors'[x].group] # None
      BY <2>1 DEF RoleHasRow
    <3>1. CASE x = e
      BY <2>1, <2>4, <2>5, <2>a, <3>1
    <3>2. CASE x # e
      BY <1>1, <2>1, <2>5, <3>2 DEF Inv, RoleHasRow, TypeOK
    <3> QED
      BY <3>1, <3>2
  <2>15. NoOrphanGroup' /\ TwinsWereRaced'
    <3>1. \A s \in Requests : request[s].at \in {"role", "row"} => request'[s] = request[s]
      BY <1>1, <2>6
    <3>2. \A x \in GroupIds : groups[x] # None /\ groups[x].by # None => groups[x].by \in Emails /\ groups[x].by # e
      BY <1>1, <2>2 DEF Inv, NoOrphanGroup, TypeOK, Group
    <3>3. NoOrphanGroup'
      BY <2>1, <2>5, <3>1, <3>2 DEF Inv, NoOrphanGroup
    <3> QED
      BY <2>1, <3>3 DEF Inv, TwinsWereRaced
  <2>16. ConfirmedIffActivated'
    <3> SUFFICES ASSUME NEW x \in Emails, users'[x] # None, users'[x].type = "contractor"
                 PROVE  /\ users'[x].confirm \/ x \in signedIn => x \in activated'
                        /\ x \in activated' \ overlapped' => users'[x].confirm
      BY <2>1 DEF ConfirmedIffActivated
    <3>1. CASE x = e
      <4>1. /\ e \in signedIn => e \in activated
            /\ e \in activated \ overlapped => users[e].confirm
        BY <1>1, <2>2, <2>a DEF Inv, ConfirmedIffActivated
      <4>2. e \in signedIn => e \in activated'
        BY <2>1, <4>1
      <4>3. e \in activated' \ overlapped' => u.confirm
        BY <2>1, <2>3, <2>8, <4>1
      <4> QED
        BY <2>5, <2>8, <3>1, <4>2, <4>3
    <3>2. CASE x # e
      BY <2>1, <2>5, <3>2 DEF Inv, ConfirmedIffActivated
    <3> QED
      BY <3>1, <3>2
  <2> QED
    BY <2>7, <2>11, <2>12, <2>13, <2>14, <2>15, <2>16 DEF Inv
<1> QED
  BY <1>2, <1>3

\* A step that changes one account only, and no request but a reset that ends:
\* the type stays, the stamp does not shrink, a contractor's confirmation is what
\* its approvals say and, unless it is given here, is the reset's to take.
LEMMA AccountStep ==
    ASSUME Inv, NEW e \in Emails, users[e] # None, NEW u \in User,
           u.type = users[e].type, users[e].stamp <= u.stamp,
           u.type = "contractor" =>
               /\ u.confirm => e \in activated
               /\ e \in activated \ overlapped => u.confirm,
           users' = [users EXCEPT ![e] = u],
           request' \in [Requests -> Request],
           \A s \in Requests : request'[s] = request[s] \/ (request[s].at = "reset" /\ request'[s] = Idle),
           UNCHANGED <<groups, roles, contractors, aggregators, supervisors, resets, history>>
    PROVE  Inv'
<1> USE AccountsAssumption, NoneAssumption
<1>1. TypeOK
  BY DEF Inv
<1>2. users'[e] = u /\ u # None /\ \A x \in Emails : x # e => users'[x] = users[x]
  BY <1>1 DEF TypeOK
<1>3. TypeOK'
  BY <1>1 DEF TypeOK, history
<1>4. Grows
  <2>1. \A x \in Emails : users[x] # None => users[x] \in User /\ users[x].stamp <= users[x].stamp
    BY <1>1 DEF TypeOK, User
  <2> QED
    BY <1>2, <2>1 DEF Grows, history
<1>5. RequestsHold'
  <2> SUFFICES ASSUME NEW s \in Requests
               PROVE  SignsOn(request[s])' /\ Acts(request[s])'
    BY DEF RequestsHold
  <2>1. CASE request'[s] = Idle
    BY <2>1, IdleHolds
  <2>2. CASE request'[s] = request[s]
    <3> DEFINE q == request[s]
    <3>1. SignsOn(q) /\ Acts(q) /\ q \in Request
      BY DEF Inv, RequestsHold, TypeOK
    <3>2. SignsOn(request[s])'
      BY <1>4, <2>2, <3>1 DEF SignsOn, Known, Grows, Tied, Idling
    <3>3. q.at \in {"token", "reset"} => q.email \in Emails /\ users[q.email] # None
      BY <3>1 DEF SignsOn, Acts, Idling
    <3>4. q.at \in {"token", "reset"} => users'[q.email].type = users[q.email].type /\ users'[q.email] # None
      BY <1>4, <3>3 DEF Grows
    <3>5. q.at = "reset" =>
             /\ q.stamp <= users'[q.email].stamp
             /\ q.stamp = users'[q.email].stamp => q.stamp = users[q.email].stamp
      <4> SUFFICES ASSUME q.at = "reset"
                   PROVE  /\ q.stamp <= users'[q.email].stamp
                          /\ q.stamp = users'[q.email].stamp => q.stamp = users[q.email].stamp
        OBVIOUS
      <4>1. q.stamp <= users[q.email].stamp /\ users[q.email].stamp <= users'[q.email].stamp
        BY <1>4, <3>1, <3>3 DEF Acts, Grows
      <4>2. users[q.email] \in User /\ users'[q.email] \in User
        BY <1>1, <1>4, <3>3 DEF TypeOK, Grows
      <4>3. q.stamp \in Nat /\ users[q.email].stamp \in Nat /\ users'[q.email].stamp \in Nat
        BY <3>1, <4>2 DEF User, Request
      <4> QED
        BY <4>1, <4>3
    <3>6. Acts(request[s])'
      BY <2>2, <3>1, <3>4, <3>5 DEF Acts, history
    <3> QED
      BY <3>2, <3>6
  <2> QED
    BY <2>1, <2>2
<1>6. OneSignOn' /\ OneMaker'
  <2>1. \A s \in Requests : /\ request'[s].at \in Tied \cup Seeking => request'[s] = request[s]
                            /\ \A n \in Names : Making(s, n)' => Making(s, n)
    BY IdleHolds DEF Tied, Seeking, Making
  <2> QED
    BY <2>1 DEF Inv, OneSignOn, OneMaker, history
<1>7. RowsHold' /\ RoleHasRow'
  BY <1>1, <1>2 DEF Inv, RowsHold, RoleHasRow, Known, TypeOK, history
<1>8. NoOrphanGroup' /\ TwinsWereRaced'
  <2>1. \A s \in Requests : request[s].at \in {"role", "row"} => request'[s] = request[s]
    OBVIOUS
  <2>2. \A x \in GroupIds : groups[x] # None /\ groups[x].by # None => groups[x].by \in Emails
    BY <1>1 DEF TypeOK, Group
  <2>3. NoOrphanGroup'
    BY <1>2, <2>1, <2>2 DEF Inv, NoOrphanGroup, history
  <2> QED
    BY <2>3 DEF Inv, TwinsWereRaced, history
<1>9. ConfirmedIffActivated'
  BY <1>1, <1>2 DEF Inv, ConfirmedIffActivated, history
<1> QED
  BY <1>3, <1>5, <1>6, <1>7, <1>8, <1>9 DEF Inv

LEMMA SavePasswordInv ==
    ASSUME Inv, NEW r \in Requests, SavePassword(r)
    PROVE  Inv'
<1> USE AccountsAssumption, NoneAssumption
<1> DEFINE q == request[r]
           e == q.email
<1>1. q.at = "reset" /\ q \in Request /\ Acts(q) /\ e \in Emails /\ users[e] # None /\ TypeOK
  BY DEF SavePassword, Inv, RequestsHold, TypeOK, SignsOn, Acts, Idling
<1>2. CASE users[e].stamp # q.stamp
  BY <1>1, <1>2, EndStep DEF SavePassword, tables, Tied
<1>3. CASE users[e].stamp = q.stamp
  <2> DEFINE u == [users[e] EXCEPT !.confirm = q.confirm, !.stamp = q.stamp + 1]
  <2>1. users[e] \in User
    BY <1>1 DEF TypeOK
  <2>2. q.confirm \in BOOLEAN /\ q.stamp + 1 \in Nat /\ q.stamp <= q.stamp + 1
    BY <1>1 DEF Request
  <2>3. u \in User
    BY <2>1, <2>2 DEF User
  <2>4. u.type = users[e].type /\ u.confirm = q.confirm /\ u.stamp = q.stamp + 1
    BY <2>1 DEF User
  <2>5. /\ users' = [users EXCEPT ![e] = u]
        /\ request' = [request EXCEPT ![r] = Idle]
        /\ UNCHANGED <<groups, roles, contractors, aggregators, supervisors, resets, history>>
    BY <1>3 DEF SavePassword, End
  <2>6. /\ request' \in [Requests -> Request]
        /\ \A s \in Requests : request'[s] = request[s] \/ (request[s].at = "reset" /\ request'[s] = Idle)
    BY <1>1, <2>5, IdleHolds DEF TypeOK
  <2>7. u.type = "contractor" =>
            /\ u.confirm => e \in activated
            /\ e \in activated \ overlapped => u.confirm
    BY <1>1, <1>3, <2>4 DEF Acts
  <2> HIDE DEF u
  <2> QED
    BY <1>1, <1>3, <2>2, <2>3, <2>4, <2>5, <2>6, <2>7, AccountStep
<1> QED
  BY <1>2, <1>3

LEMMA ConfirmByHandInv ==
    ASSUME Inv, NEW e \in Emails, ConfirmByHand(e)
    PROVE  Inv'
<1> DEFINE u == [users[e] EXCEPT !.confirm = TRUE]
<1>1. users[e] \in User /\ users[e] # None /\ users[e].type # "contractor" /\ TypeOK
  BY DEF ConfirmByHand, Inv, TypeOK
<1>2. u \in User /\ u.type = users[e].type /\ users[e].stamp <= u.stamp
  <2>1. u \in User /\ u.type = users[e].type /\ u.stamp = users[e].stamp /\ users[e].stamp \in Nat
    BY <1>1 DEF User
  <2> QED
    BY <2>1
<1>3. request' \in [Requests -> Request]
  BY <1>1 DEF ConfirmByHand, TypeOK
<1> QED
  BY <1>1, <1>2, <1>3, AccountStep DEF ConfirmByHand

LEMMA SignInInv ==
    ASSUME Inv, NEW r \in Requests, SignIn(r)
    PROVE  Inv'
<1> DEFINE e == request[r].email
<1>1. /\ request[r].at = "token" /\ e \in Emails /\ users[e] # None
      /\ users[e].type = "contractor" => e \in activated
  <2>1. request[r].at = "token" /\ SignsOn(request[r]) /\ Acts(request[r])
    BY DEF SignIn, Inv, RequestsHold
  <2> QED
    BY <2>1 DEF SignsOn, Acts, Idling
<1>2. /\ UNCHANGED <<tables, resets, activated, overlapped, cutShort, raced>>
      /\ request' = [request EXCEPT ![r] = Idle]
      /\ signedIn' \subseteq signedIn \cup {e}
  BY DEF SignIn, End
<1>3. /\ resets' \in 0..MaxResets /\ signedIn' \subseteq Emails /\ cutShort' \subseteq Emails /\ raced' \subseteq Names
      /\ \A x \in signedIn' : users[x] # None /\ (users[x].type = "contractor" => x \in activated)
  BY <1>1, <1>2 DEF Inv, TypeOK, RowsHold, ConfirmedIffActivated
<1> QED
  BY <1>1, <1>2, <1>3, IdleHolds, RequestStep DEF Tied, Seeking

LEMMA AbortInv ==
    ASSUME Inv, NEW r \in Requests, Abort(r)
    PROVE  Inv'
<1>1. /\ UNCHANGED <<tables, resets, activated, overlapped, signedIn, raced>>
      /\ request' = [request EXCEPT ![r] = Idle]
      /\ cutShort \subseteq cutShort'
      /\ request[r].at \in Tied /\ request[r].type = "aggregator" => request[r].email \in cutShort'
  BY DEF Abort, End, Tied
<1>2. cutShort' \subseteq Emails
  BY DEF Abort, Inv, TypeOK, RequestsHold, SignsOn, Idling
<1>3. /\ resets' \in 0..MaxResets /\ signedIn' \subseteq Emails /\ raced' \subseteq Names
      /\ \A x \in signedIn' : users[x] # None /\ (users[x].type = "contractor" => x \in activated)
  BY <1>1 DEF Inv, TypeOK, RowsHold, ConfirmedIffActivated
<1> QED
  BY <1>1, <1>2, <1>3, IdleHolds, RequestStep DEF Tied, Seeking

LEMMA NextInv ==
    ASSUME Inv, [Next]_vars
    PROVE  Inv'
<1> USE AccountsAssumption, NoneAssumption
<1> DEFINE q(r) == request[r]
<1>t. /\ \A r \in Requests : q(r) \in Request /\ SignsOn(q(r)) /\ Acts(q(r))
      /\ TypeOK
  BY DEF Inv, RequestsHold, TypeOK
<1>k. resets \in 0..MaxResets
  BY <1>t DEF TypeOK
<1>1. ASSUME NEW r \in Requests, NEW e \in Emails, NEW n \in Names, SignonAggregator(r, e, n) PROVE Inv'
  <2>1. PICK g \in GroupIds \cup {None} :
           /\ Start(r, [Idle EXCEPT !.at = "create", !.type = "aggregator", !.email = e, !.name = n, !.group = g])
           /\ g = None => Same(n) = {}
    <3>1. PICK g \in IF Same(n) = {} THEN {None} ELSE Same(n) :
             Start(r, [Idle EXCEPT !.at = "create", !.type = "aggregator", !.email = e, !.name = n, !.group = g])
      BY <1>1 DEF SignonAggregator
    <3>2. CASE Same(n) = {}
      BY <3>1, <3>2
    <3>3. CASE Same(n) # {}
      <4>1. g \in Same(n)
        BY <3>1, <3>3
      <4>2. g \in GroupIds /\ g # None
        BY <4>1 DEF Same
      <4> QED
        BY <3>1, <4>2
    <3> QED
      BY <3>2, <3>3
  <2> DEFINE new == [Idle EXCEPT !.at = "create", !.type = "aggregator", !.email = e, !.name = n, !.group = g]
  <2>2. new \in Request /\ SignsOn(new) /\ Acts(new) /\ new.at \notin Tied /\ new.name = n /\ new.group = g
    BY DEF Idle, Request, Phases, Types, SignsOn, Acts, Tied, Idling
  <2> QED
    BY <1>1, <2>1, <2>2, SeekStep DEF SignonAggregator
<1>2. ASSUME NEW r \in Requests, NEW e \in Emails, SignonSupervisor(r, e) PROVE Inv'
  <2> DEFINE new == [Idle EXCEPT !.at = "create", !.type = "supervisor", !.email = e]
  <2>1. new \in Request /\ SignsOn(new) /\ Acts(new) /\ new.at \notin Tied /\ new.name = None
    BY DEF Idle, Request, Phases, Types, SignsOn, Acts, Tied, Idling
  <2> QED
    BY <1>2, <1>k, <2>1, StartStep DEF SignonSupervisor
<1>3. ASSUME NEW r \in Requests, NEW e \in Emails, NEW g \in GroupIds, SignonContractor(r, e, g) PROVE Inv'
  <2> DEFINE new == [Idle EXCEPT !.at = "create", !.type = "contractor", !.email = e, !.group = g]
  <2>1. new \in Request /\ SignsOn(new) /\ Acts(new) /\ new.at \notin Tied /\ new.name = None
    BY <1>3 DEF SignonContractor, Idle, Request, Phases, Types, SignsOn, Acts, Known, Tied, Idling
  <2> QED
    BY <1>3, <1>k, <2>1, StartStep DEF SignonContractor
<1>4. ASSUME NEW r \in Requests, NEW n \in Names, SignonAggregatorGroup(r, n) PROVE Inv'
  <2> DEFINE new == [Idle EXCEPT !.at = "group", !.name = n]
  <2>1. new \in Request /\ SignsOn(new) /\ Acts(new) /\ new.at \notin Tied /\ new.name = n
    BY DEF Idle, Request, Phases, Types, SignsOn, Acts, Tied, Idling
  <2> QED
    BY <1>4, <2>1, SeekStep DEF SignonAggregatorGroup
<1>5. ASSUME NEW r \in Requests, Validate(r) PROVE Inv'
  <2>1. CASE users[q(r).email] # None
    BY <1>5, <2>1, EndStep DEF Validate, Tied
  <2>2. CASE users[q(r).email] = None
    <3> DEFINE next == [q(r) EXCEPT !.at = "insert"]
    <3>1. /\ next \in Request /\ SignsOn(next) /\ Acts(next) /\ next.at = "insert"
          /\ next.group = q(r).group /\ next.name = q(r).name /\ q(r).at = "create"
      BY <1>5, <1>t DEF Validate, Request, Phases, SignsOn, Acts, Tied, Idling
    <3>2. request' = [request EXCEPT ![r] = next] /\ UNCHANGED <<tables, resets, history>>
      BY <1>5, <2>2 DEF Validate, Goto
    <3>3. /\ signedIn' \subseteq Emails /\ cutShort' \subseteq Emails /\ raced' \subseteq Names
          /\ \A e \in signedIn' : users[e] # None /\ (users[e].type = "contractor" => e \in activated)
      BY <3>2 DEF history, Inv, TypeOK, RowsHold, ConfirmedIffActivated
    <3>4. next.group = None /\ next.name \in Names \ raced =>
            /\ \A g \in GroupIds : groups[g] # None => groups[g].name # next.name
            /\ \A s \in Requests \ {r} : ~Making(s, next.name)
      <4>1. next.group = None => Making(r, next.name)
        BY <3>1 DEF Making
      <4> QED
        BY <4>1 DEF Inv, OneMaker
    <3> HIDE DEF next
    <3> QED
      BY <1>k, <3>1, <3>2, <3>3, <3>4, RequestStep DEF history, Tied
  <2> QED
    BY <2>1, <2>2
<1>6. ASSUME NEW r \in Requests, NEW e \in Emails, NEW s \in Statuses, SubmitUserStatus(r, e, s) PROVE Inv'
  <2> DEFINE new == [Idle EXCEPT !.at = IF Confirms(s) THEN "user" ELSE "save", !.email = e, !.status = s,
                                 !.seen = contractors[e].status]
  <2>1. contractors[e] # None /\ contractors[e].status \in Statuses
    BY <1>6, <1>t DEF SubmitUserStatus, TypeOK, Contractor
  <2>2. contractors[e].status = "Activating" => e \in activated
    BY <2>1 DEF Inv, RowsHold
  <2>3. new \in Request /\ SignsOn(new) /\ Acts(new) /\ new.at \notin Tied /\ new.at \notin Seeking
    BY <2>1, <2>2 DEF Idle, Request, Phases, Types, SignsOn, Acts, Tied, Idling, Seeking
  <2> QED
    BY <1>6, <1>k, <2>3, StartStep DEF SubmitUserStatus
<1>7. ASSUME NEW r \in Requests, ReadUser(r) PROVE Inv'
  <2> DEFINE e == q(r).email
             next == [q(r) EXCEPT !.at = "save", !.confirm = users[e].confirm, !.stamp = users[e].stamp]
  <2>1. q(r).at = "user" /\ e \in Emails /\ contractors[e] # None
    BY <1>7, <1>t DEF ReadUser, SignsOn, Acts, Idling
  <2>2. users[e] \in User /\ users[e] # None /\ users[e].type = "contractor"
    BY <2>1, <1>t DEF Inv, RowsHold, TypeOK
  <2>3. users[e].confirm \in BOOLEAN /\ users[e].stamp \in Nat /\ (users[e].confirm => e \in activated)
    BY <2>1, <2>2 DEF User, Inv, ConfirmedIffActivated
  <2>4. next \in Request
    BY <1>t, <2>3 DEF Request, Phases
  <2>5. /\ next.at = "save" /\ next.email = e /\ next.confirm = users[e].confirm
        /\ next.status = q(r).status /\ next.seen = q(r).seen
    BY <1>t DEF Request
  <2>6. SignsOn(next) /\ Acts(next)
    BY <1>t, <2>1, <2>3, <2>5 DEF SignsOn, Acts, Tied, Idling
  <2>7. request' = [request EXCEPT ![r] = next] /\ UNCHANGED <<tables, resets, history>>
    BY <1>7 DEF ReadUser
  <2>8. /\ signedIn' \subseteq Emails /\ cutShort' \subseteq Emails /\ raced' \subseteq Names
        /\ \A x \in signedIn' : users[x] # None /\ (users[x].type = "contractor" => x \in activated)
    BY <2>7 DEF history, Inv, TypeOK, RowsHold, ConfirmedIffActivated
  <2> HIDE DEF next
  <2> QED
    BY <1>k, <2>1, <2>4, <2>5, <2>6, <2>7, <2>8, RequestStep DEF history, Tied, Seeking
<1>8. ASSUME NEW r \in Requests, NEW e \in Emails, OldLogin(r, e) PROVE Inv'
  <2> DEFINE new == [Idle EXCEPT !.at = "token", !.email = e]
  <2>1. users[e] # None /\ (users[e].type = "contractor" => e \in activated)
    BY <1>8 DEF OldLogin, Inv, ConfirmedIffActivated
  <2>2. new \in Request /\ SignsOn(new) /\ Acts(new) /\ new.at \notin Tied /\ new.at \notin Seeking
    BY <2>1 DEF Idle, Request, Phases, Types, SignsOn, Acts, Tied, Idling, Seeking
  <2> QED
    BY <1>8, <1>k, <2>2, StartStep DEF OldLogin
<1>9. ASSUME NEW r \in Requests, NEW e \in Emails, ResetPassword(r, e) PROVE Inv'
  <2> DEFINE new == [Idle EXCEPT !.at = "reset", !.email = e, !.confirm = users[e].confirm, !.stamp = users[e].stamp]
  <2>1. users[e] # None /\ users[e] \in User
    BY <1>9, <1>t DEF ResetPassword, TypeOK
  <2>2. users[e].confirm \in BOOLEAN /\ users[e].stamp \in Nat /\ users[e].stamp <= users[e].stamp
    BY <2>1 DEF User
  <2>3. /\ users[e].type = "contractor" => /\ users[e].confirm => e \in activated
                                           /\ e \in activated \ overlapped => users[e].confirm
        /\ e \in activated => users[e].type = "contractor"
    BY <2>1 DEF Inv, ConfirmedIffActivated, RowsHold
  <2>4. /\ new \in Request /\ new.at = "reset" /\ new.email = e
        /\ new.confirm = users[e].confirm /\ new.stamp = users[e].stamp
    BY <2>2 DEF Idle, Request, Phases, Types
  <2>5. SignsOn(new) /\ Acts(new) /\ new.at \notin Tied /\ new.at \notin Seeking
    BY <2>1, <2>2, <2>3, <2>4 DEF SignsOn, Acts, Tied, Idling, Seeking
  <2>6. resets' \in 0..MaxResets
    BY <1>9, <1>k DEF ResetPassword
  <2> HIDE DEF new
  <2> QED
    BY <1>9, <2>4, <2>5, <2>6, StartStep DEF ResetPassword, new
<1>10. CASE UNCHANGED vars
  BY <1>10 DEF vars, tables, history, Inv, TypeOK, RequestsHold, SignsOn, Acts, OneSignOn, OneMaker, Making, RowsHold,
               Known, RoleHasRow, NoOrphanGroup, TwinsWereRaced, ConfirmedIffActivated
<1> QED
  BY <1>1, <1>2, <1>3, <1>4, <1>5, <1>6, <1>7, <1>8, <1>9, <1>10,
     InsertInv, AddToRoleInv, InsertGroupInv, SaveRowInv, SaveStatusInv, SavePasswordInv, ConfirmByHandInv,
     SignInInv, AbortInv DEF Next

-----------------------------------------------------------------------------

LEMMA AlwaysInv == Spec => []Inv
BY InitInv, NextInv, PTL DEF Spec

\* Tables and requests are as declared whatever the requests do; no row names
\* a group that the handlers did not find or make.
THEOREM TypeCorrect == Spec => []TypeOK
BY AlwaysInv, PTL DEF Inv

\* AddToRoleAsync saves the role and a contractor's row at once, so that a
\* sign-on that ends anywhere leaves no contractor with the role and no row.
THEOREM RoleRow == Spec => []RoleHasRow
BY AlwaysInv, PTL DEF Inv

\* CreateAsync saves the account and the new group at once, and the last save
\* ties them: a group that a sign-on made has its account, which belongs to it
\* unless the sign-on is at work on that or ended before.
THEOREM NoOrphan == Spec => []NoOrphanGroup
BY AlwaysInv, PTL DEF Inv

\* The lookups of the two handlers that make groups keep names apart unless two
\* requests look for one name before either has saved its group.
THEOREM TwinsRaced == Spec => []TwinsWereRaced
BY AlwaysInv, PTL DEF Inv

\* SubmitUserStatus, the login and the reset of a password: only a contractor
\* whose status was saved as Activating may sign in, and it may from then on,
\* unless a reset held its account as it was before.
THEOREM Confirmed == Spec => []ConfirmedIffActivated
BY AlwaysInv, PTL DEF Inv
=============================================================================
