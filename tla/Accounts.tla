------------------------------ MODULE Accounts ------------------------------
(***************************************************************************)
(* The accounts of the web API (WebApiService): signing on as an           *)
(* aggregator, a supervisor or a contractor, the approval of contractors   *)
(* and the login.  Each request has a database context of its own, which   *)
(* it shares with the UserManager of ASP.NET Identity: what one of them    *)
(* saves includes what the other has added by then, in one transaction.    *)
(* Several requests run at a time and interleave between their awaits; one *)
(* may end at any of them (a mail that cannot be sent, the process).       *)
(***************************************************************************)
EXTENDS Naturals

CONSTANTS
    Emails,     \* the addresses that sign on; an account's name and key
    Names,      \* names of aggregator groups
    GroupIds,   \* the keys (GUIDs) of groups; bounds the groups
    Statuses,   \* the contract statuses submitted, of ContractStatusCodes
    Requests,   \* bound: requests at work at a time
    MaxResets,  \* bound: password resets
    None

Types == {"aggregator", "supervisor", "contractor"}

ASSUME AccountsAssumption ==
    /\ None \notin Emails \cup Names \cup GroupIds \cup Statuses
    /\ {"Signing", "Activating"} \subseteq Statuses
    /\ MaxResets \in Nat

VARIABLES
    groups,       \* AggregatorGroups: the name and who signed on with it
    users,        \* UserAccounts: type, SignInConfirm and ConcurrencyStamp
    roles,        \* UserRoles: the accounts that have the role of their type
    contractors,  \* ContractorUsers: group and ContractStatus
    aggregators,  \* AggregatorUsers: group
    supervisors,  \* SupervisorUsers
    request,      \* request[r]: what a request is at and holds, or Idle
    resets,
    activated,    \* history: the contractors whose status was saved as Activating
    overlapped,   \* history: those confirmed while a reset held the account as it was before
    signedIn,     \* history: the accounts that were given a token
    cutShort,     \* history: the aggregators whose sign-on ended after the account was made
    raced         \* history: the names that two requests at a time found no group of

tables == <<groups, users, roles, contractors, aggregators, supervisors>>
history == <<activated, overlapped, signedIn, cutShort, raced>>
vars == <<tables, request, resets, history>>

Group == [name : Names, by : Emails \cup {None}]
User == [type : Types, confirm : BOOLEAN, stamp : Nat]
Contractor == [group : GroupIds, status : Statuses]

\* A missing row is none of the rows.
ASSUME NoneAssumption == None \notin Group \cup User \cup Contractor

Phases == {"idle", "create", "insert", "role", "row", "group", "user", "save", "token", "reset"}
Request == [at : Phases, type : Types, email : Emails \cup {None}, name : Names \cup {None},
            group : GroupIds \cup {None}, status : Statuses \cup {None}, seen : Statuses \cup {None},
            confirm : BOOLEAN, stamp : Nat, dirty : BOOLEAN]

Idle == [at |-> "idle", type |-> "contractor", email |-> None, name |-> None, group |-> None,
         status |-> None, seen |-> None, confirm |-> FALSE, stamp |-> 0, dirty |-> FALSE]

Init ==
    /\ groups = [g \in GroupIds |-> None]
    /\ users = [e \in Emails |-> None]
    /\ contractors = [e \in Emails |-> None]
    /\ aggregators = [e \in Emails |-> None]
    /\ roles = {} /\ supervisors = {}
    /\ request = [r \in Requests |-> Idle]
    /\ resets = 0
    /\ activated = {} /\ overlapped = {} /\ signedIn = {} /\ cutShort = {} /\ raced = {}

-----------------------------------------------------------------------------
(* Signing on.                                                             *)

Start(r, new) == request[r] = Idle /\ request' = [request EXCEPT ![r] = new]
Goto(r, phase) == request' = [request EXCEPT ![r].at = phase]
End(r) == request' = [request EXCEPT ![r] = Idle]

Same(name) == {g \in GroupIds : groups[g] # None /\ groups[g].name = name}

\* A request that found no group of that name and has not saved its own yet.
Making(r, name) ==
    /\ request[r].name = name /\ request[r].group = None
    /\ request[r].at \in {"create", "insert", "group"}

Race(name) ==
    /\ raced' = IF Same(name) = {} /\ \E r \in Requests : Making(r, name) THEN raced \cup {name} ELSE raced
    /\ UNCHANGED <<activated, overlapped, signedIn, cutShort>>

\* Mutant: the new group is made without looking for one of its name.
SignonAggregator_NotLooked(r, e, n) ==
    /\ Start(r, [Idle EXCEPT !.at = "create", !.type = "aggregator", !.email = e, !.name = n])
    /\ Race(n)
    /\ UNCHANGED <<tables, resets>>

\* A group of that name, or a new one that is added to the context.
SignonAggregator(r, e, n) ==
    /\ \E g \in IF Same(n) = {} THEN {None} ELSE Same(n) :
          Start(r, [Idle EXCEPT !.at = "create", !.type = "aggregator", !.email = e, !.name = n, !.group = g])
    /\ Race(n)
    /\ UNCHANGED <<tables, resets>>

SignonSupervisor(r, e) ==
    /\ Start(r, [Idle EXCEPT !.at = "create", !.type = "supervisor", !.email = e])
    /\ UNCHANGED <<tables, resets, history>>

\* Mutant: that the group was not found is not tested.
SignonContractor_NotTested(r, e, g) ==
    /\ Start(r, [Idle EXCEPT !.at = "create", !.type = "contractor", !.email = e,
                             !.group = IF groups[g] = None THEN None ELSE g])
    /\ UNCHANGED <<tables, resets, history>>

SignonContractor(r, e, g) ==
    /\ groups[g] # None
    /\ Start(r, [Idle EXCEPT !.at = "create", !.type = "contractor", !.email = e, !.group = g])
    /\ UNCHANGED <<tables, resets, history>>

\* CreateAsync looks for an account of that name first.
Validate(r) ==
    /\ request[r].at = "create"
    /\ IF users[request[r].email] = None THEN Goto(r, "insert") ELSE End(r)
    /\ UNCHANGED <<tables, resets, history>>

\* Mutant: the new group is saved before the account is created.
Insert_GroupFirst(r) ==
    LET q == request[r] IN
    /\ q.at = "insert"
    /\ \E g \in GroupIds :
          /\ IF q.type = "aggregator" /\ q.group = None
             THEN groups[g] = None /\ groups' = [groups EXCEPT ![g] = [name |-> q.name, by |-> q.email]]
             ELSE g = q.group /\ groups' = groups
          /\ IF users[q.email] # None THEN End(r) /\ users' = users
             ELSE /\ users' = [users EXCEPT ![q.email] = [type |-> q.type, confirm |-> FALSE, stamp |-> 0]]
                  /\ request' = [request EXCEPT ![r] = [q EXCEPT !.at = "role", !.group = g]]
    /\ UNCHANGED <<roles, contractors, aggregators, supervisors, resets, history>>

\* CreateAsync saves the context: the account, and a new group with it.  Another
\* request may have been first; the name is unique, and nothing is saved then.
Insert(r) ==
    LET q == request[r] IN
    /\ q.at = "insert"
    /\ IF users[q.email] # None THEN End(r) /\ UNCHANGED <<users, groups>>
       ELSE /\ users' = [users EXCEPT ![q.email] = [type |-> q.type, confirm |-> FALSE, stamp |-> 0]]
            /\ IF q.type = "aggregator" /\ q.group = None
               THEN \E g \in GroupIds :
                       /\ groups[g] = None
                       /\ groups' = [groups EXCEPT ![g] = [name |-> q.name, by |-> q.email]]
                       /\ request' = [request EXCEPT ![r] = [q EXCEPT !.at = "role", !.group = g]]
               ELSE groups' = groups /\ Goto(r, "role")
    /\ UNCHANGED <<roles, contractors, aggregators, supervisors, resets, history>>

\* Mutant: a contractor's row is added after the role, as an aggregator's is.
AddToRole_RowLater(r) ==
    LET q == request[r] IN
    /\ q.at = "role"
    /\ roles' = roles \cup {q.email}
    /\ users' = [users EXCEPT ![q.email] = [@ EXCEPT !.confirm = FALSE, !.stamp = q.stamp + 1]]
    /\ contractors' = contractors
    /\ Goto(r, "row")
    /\ UNCHANGED <<groups, aggregators, supervisors, resets, history>>

\* AddToRoleAsync saves the role, a contractor's row that was added before and
\* the whole account as it was made, if its stamp has not changed since; if it
\* has, nothing is saved, the result is not looked at and the context keeps what
\* it could not save.
AddToRole(r) ==
    LET q == request[r] IN
    /\ q.at = "role"
    /\ IF users[q.email].stamp # q.stamp
       THEN /\ request' = [request EXCEPT ![r] = [q EXCEPT !.at = "row", !.dirty = TRUE]]
            /\ UNCHANGED <<roles, users, contractors>>
       ELSE /\ roles' = roles \cup {q.email}
            /\ users' = [users EXCEPT ![q.email] = [@ EXCEPT !.confirm = FALSE, !.stamp = q.stamp + 1]]
            /\ contractors' = IF q.type = "contractor"
                              THEN [contractors EXCEPT ![q.email] = [group |-> q.group, status |-> "Signing"]]
                              ELSE contractors
            /\ Goto(r, "row")
    /\ UNCHANGED <<groups, aggregators, supervisors, resets, history>>

\* The last save: it fails over what the context could not save before.  The
\* notification and the mails that follow change nothing here.
SaveRow(r) ==
    LET q == request[r] IN
    /\ q.at = "row"
    /\ aggregators' = IF q.type = "aggregator" /\ ~q.dirty
                      THEN [aggregators EXCEPT ![q.email] = q.group] ELSE aggregators
    /\ supervisors' = IF q.type = "supervisor" /\ ~q.dirty THEN supervisors \cup {q.email} ELSE supervisors
    /\ cutShort' = IF q.type = "aggregator" /\ q.dirty THEN cutShort \cup {q.email} ELSE cutShort
    /\ End(r)
    /\ UNCHANGED <<groups, users, roles, contractors, resets, activated, overlapped, signedIn, raced>>

\* A group by itself: looked for, then inserted.
SignonAggregatorGroup(r, n) ==
    /\ Same(n) = {}
    /\ Start(r, [Idle EXCEPT !.at = "group", !.name = n])
    /\ Race(n)
    /\ UNCHANGED <<tables, resets>>

InsertGroup(r) ==
    /\ request[r].at = "group"
    /\ \E g \in GroupIds :
          /\ groups[g] = None
          /\ groups' = [groups EXCEPT ![g] = [name |-> request[r].name, by |-> None]]
    /\ End(r)
    /\ UNCHANGED <<users, roles, contractors, aggregators, supervisors, resets, history>>

-----------------------------------------------------------------------------
(* Approval, login and passwords.                                          *)

Confirms(status) == status = "Activating"

\* SubmitUserStatus reads the contractor, and the account if it is to be confirmed.
SubmitUserStatus(r, e, s) ==
    /\ contractors[e] # None
    /\ Start(r, [Idle EXCEPT !.at = IF Confirms(s) THEN "user" ELSE "save", !.email = e, !.status = s,
                             !.seen = contractors[e].status])
    /\ UNCHANGED <<tables, resets, history>>

\* The mail of welcome goes out here, before anything is saved.
ReadUser(r) ==
    LET q == request[r] IN
    /\ q.at = "user"
    /\ request' = [request EXCEPT ![r] = [q EXCEPT !.at = "save", !.confirm = users[q.email].confirm,
                                                 !.stamp = users[q.email].stamp]]
    /\ UNCHANGED <<tables, resets, history>>

\* A reset has read the account of e, unconfirmed, and nobody has changed its
\* stamp since.
Held(e) == \E r \in Requests : request[r].at = "reset" /\ request[r].email = e
                              /\ ~request[r].confirm /\ request[r].stamp = users[e].stamp

\* Only what differs from what was read is written, the account only if its
\* stamp has not changed since; otherwise nothing is.
SaveStatus(r) ==
    LET q == request[r]
        confirms == Confirms(q.status) /\ ~q.confirm
        written == q.status # q.seen
    IN  /\ q.at = "save"
        /\ IF confirms /\ users[q.email].stamp # q.stamp
           THEN UNCHANGED <<users, contractors, activated, overlapped>>
           ELSE /\ users' = IF confirms THEN [users EXCEPT ![q.email].confirm = TRUE] ELSE users
                /\ contractors' = IF written THEN [contractors EXCEPT ![q.email].status = q.status] ELSE contractors
                /\ activated' = IF written /\ q.status = "Activating" THEN activated \cup {q.email} ELSE activated
                /\ overlapped' = IF ~confirms THEN overlapped
                                 ELSE IF Held(q.email) THEN overlapped \cup {q.email} ELSE overlapped \ {q.email}
        /\ End(r)
        /\ UNCHANGED <<groups, roles, aggregators, supervisors, resets, signedIn, cutShort, raced>>

\* The account as the login reads it is confirmed, and the password is right.
OldLogin(r, e) ==
    /\ users[e] # None /\ users[e].confirm
    /\ Start(r, [Idle EXCEPT !.at = "token", !.email = e])
    /\ UNCHANGED <<tables, resets, history>>

\* An aggregator or a contractor also needs its row: without it the handler throws.
SignIn(r) ==
    LET e == request[r].email IN
    /\ request[r].at = "token"
    /\ signedIn' = IF \/ users[e].type = "aggregator" /\ aggregators[e] = None
                      \/ users[e].type = "contractor" /\ contractors[e] = None
                   THEN signedIn ELSE signedIn \cup {e}
    /\ End(r)
    /\ UNCHANGED <<tables, resets, activated, overlapped, cutShort, raced>>

\* A reset of the password reads the account,
ResetPassword(r, e) ==
    /\ users[e] # None /\ resets < MaxResets
    /\ resets' = resets + 1
    /\ Start(r, [Idle EXCEPT !.at = "reset", !.email = e, !.confirm = users[e].confirm, !.stamp = users[e].stamp])
    /\ UNCHANGED <<tables, history>>

\* Mutant: the account is saved whoever has changed it since.
SavePassword_AnyStamp(r) ==
    LET q == request[r] IN
    /\ q.at = "reset"
    /\ users' = [users EXCEPT ![q.email] = [@ EXCEPT !.confirm = q.confirm, !.stamp = users[q.email].stamp + 1]]
    /\ End(r)
    /\ UNCHANGED <<groups, roles, contractors, aggregators, supervisors, resets, history>>

\* and Identity writes all of it back as it was read, with the new password and
\* a new stamp, if the stamp has not changed since; otherwise nothing.
SavePassword(r) ==
    LET q == request[r] IN
    /\ q.at = "reset"
    /\ users' = IF users[q.email].stamp = q.stamp
                THEN [users EXCEPT ![q.email] = [@ EXCEPT !.confirm = q.confirm, !.stamp = q.stamp + 1]]
                ELSE users
    /\ End(r)
    /\ UNCHANGED <<groups, roles, contractors, aggregators, supervisors, resets, history>>

\* No operation confirms an aggregator or a supervisor: somebody does, in the database.
ConfirmByHand(e) ==
    /\ users[e] # None /\ users[e].type # "contractor" /\ ~users[e].confirm
    /\ users' = [users EXCEPT ![e].confirm = TRUE]
    /\ UNCHANGED <<groups, roles, contractors, aggregators, supervisors, request, resets, history>>

\* An exception, a mail that fails, the end of the process.
Abort(r) ==
    /\ request[r] # Idle
    /\ End(r)
    /\ cutShort' = IF request[r].at \in {"role", "row"} /\ request[r].type = "aggregator"
                   THEN cutShort \cup {request[r].email} ELSE cutShort
    /\ UNCHANGED <<tables, resets, activated, overlapped, signedIn, raced>>

Next ==
    \/ \E r \in Requests :
          \/ Validate(r) \/ Insert(r) \/ AddToRole(r) \/ SaveRow(r) \/ InsertGroup(r)
          \/ ReadUser(r) \/ SaveStatus(r) \/ SignIn(r) \/ SavePassword(r) \/ Abort(r)
          \/ \E n \in Names : SignonAggregatorGroup(r, n)
          \/ \E e \in Emails :
                \/ SignonSupervisor(r, e) \/ OldLogin(r, e) \/ ResetPassword(r, e)
                \/ \E n \in Names : SignonAggregator(r, e, n)
                \/ \E g \in GroupIds : SignonContractor(r, e, g)
                \/ \E s \in Statuses : SubmitUserStatus(r, e, s)
    \/ \E e \in Emails : ConfirmByHand(e)

Spec == Init /\ [][Next]_vars

-----------------------------------------------------------------------------
(* Properties.                                                             *)

\* Tables and requests are as declared; a contractor's row names a group.
TypeOK ==
    /\ groups \in [GroupIds -> Group \cup {None}]
    /\ users \in [Emails -> User \cup {None}]
    /\ contractors \in [Emails -> Contractor \cup {None}]
    /\ aggregators \in [Emails -> GroupIds \cup {None}]
    /\ roles \subseteq Emails /\ supervisors \subseteq Emails
    /\ request \in [Requests -> Request]
    /\ resets \in 0..MaxResets
    /\ activated \subseteq Emails /\ overlapped \subseteq Emails /\ signedIn \subseteq Emails
    /\ cutShort \subseteq Emails /\ raced \subseteq Names

\* An account with the role of a contractor has its row, in a group that there
\* is: the two are saved at once, wherever the sign-on ends.  (It is not so for
\* the other two types.)
RoleHasRow ==
    \A e \in roles : users[e] # None /\ (users[e].type = "contractor" =>
        contractors[e] # None /\ groups[contractors[e].group] # None)

\* A group that a sign-on made has the account that signed on with it, and that
\* account belongs to it as soon as the sign-on is over: CreateAsync saves the
\* two at once, so that a sign-on whose account is refused leaves no group.  One
\* that ends between that save and its last (cutShort) does leave a group, and an
\* account, without the row that ties them.
NoOrphanGroup ==
    \A g \in GroupIds : groups[g] # None /\ groups[g].by # None =>
        LET e == groups[g].by IN
        /\ users[e] # None /\ users[e].type = "aggregator"
        /\ \/ aggregators[e] = g
           \/ e \in cutShort
           \/ \E r \in Requests : request[r].at \in {"role", "row"}
                                  /\ request[r].email = e /\ request[r].group = g

\* There are two groups of one name only if two requests looked for it and found
\* none at a time when neither had saved its own: nothing but the lookup before
\* keeps names apart.
TwinsWereRaced ==
    \A g, h \in GroupIds : g # h /\ groups[g] # None /\ groups[h] # None /\ groups[g].name = groups[h].name =>
        groups[g].name \in raced

\* A contractor's account is confirmed, and the contractor has signed in, only if
\* its status was saved as Activating at some time; once it was, the account
\* stays confirmed through later submissions, resets and failures.  A reset that
\* read the account before the approval and saves it after is the exception
\* (overlapped): it takes the confirmation back, which the approval's save, with
\* no new stamp, does not keep it from doing.
ConfirmedIffActivated ==
    \A e \in Emails : users[e] # None /\ users[e].type = "contractor" =>
        /\ users[e].confirm \/ e \in signedIn => e \in activated
        /\ e \in activated \ overlapped => users[e].confirm
=============================================================================
