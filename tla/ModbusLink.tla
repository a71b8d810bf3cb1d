----------------------------- MODULE ModbusLink -----------------------------
(***************************************************************************)
(* The hub's one Modbus connection (ModbusConnectionFactory).  It keeps    *)
(* two fields, the TcpClient and the master made over it, and the alarm    *)
(* poller, the analog poller, the control subscriber and the REST requests *)
(* all call ReconnectWhenDisconnected and then read or write over          *)
(* whatever master they find.  No lock guards the fields: every read and   *)
(* every assignment of them is a step of its own.                          *)
(***************************************************************************)
EXTENDS Naturals, FiniteSets

CONSTANTS
    Callers,     \* the threads that use the connection
    Kind,        \* Kind[c]: "alarm", "analog" (the two pollers) or "request"
    Reconnects,  \* Reconnects[c]: calls of ReconnectWhenDisconnected before the use
    TryCount,    \* TryCount[c]: the parameter of that name
    Sockets,     \* bound: the TcpClients there may be at a time
    MaxLosses,   \* bound: connections the device's side loses
    None,        \* null
    Unbound      \* a master that NModbus makes over a null TcpClient

ASSUME LinkAssumption ==
    /\ Kind \in [Callers -> {"alarm", "analog", "request"}]
    /\ Reconnects \in [Callers -> Nat \ {0}]
    /\ TryCount \in [Callers -> Nat]
    /\ MaxLosses \in Nat
    /\ None \notin Sockets /\ Unbound \notin Sockets /\ None # Unbound

VARIABLES
    tcpClient,   \* the field: a socket or None
    master,      \* the field: the socket the master was made over, Unbound or None
    socket,      \* socket[s]: "closed", "up", "broken" (the peer is gone and nobody
                 \* has noticed: Connected is still TRUE) or "down" (Connected is FALSE)
    pc,          \* pc[c]: the access caller c does next
    tries,       \* tries[c]: _retryCount
    left,        \* left[c]: calls of ReconnectWhenDisconnected still to make
    held,        \* held[c]: the TcpClient whose master c is about to assign
    stopping,    \* where the host's StopAsync stands
    reachable,   \* the device accepts connections
    losses,
    overlapped   \* history: two callers were in TryConnectModbus at a time

fields == <<tcpClient, master>>
local == <<pc, tries, left, held>>
environment == <<reachable, losses>>
vars == <<fields, socket, local, stopping, environment, overlapped>>

Connecting == {"test", "dispose", "clear", "connect", "create", "assign"}
Places == {"idle", "null", "down", "recheck", "use", "store", "dead"} \cup Connecting

Others(c) == Callers \ {c}
Connected(s) == socket[s] \in {"up", "broken"}

\* A TcpClient nobody holds: the next one may take its place in the model.
Referenced == {tcpClient, master} \cup {held[c] : c \in Callers}
Free(s) == socket[s] = "closed" /\ s \notin Referenced

Init ==
    /\ tcpClient = None /\ master = None
    /\ socket = [s \in Sockets |-> "closed"]
    /\ pc = [c \in Callers |-> "idle"]
    /\ tries = [c \in Callers |-> 0]
    /\ left = [c \in Callers |-> 0]
    /\ held = [c \in Callers |-> None]
    /\ stopping = "no"
    /\ reachable \in BOOLEAN /\ losses = 0
    /\ overlapped = FALSE

-----------------------------------------------------------------------------
(* ReconnectWhenDisconnected.                                              *)

Goto(c, place) == pc' = [pc EXCEPT ![c] = place]

\* Caller c starts over: a poller's cycle, a control message or a request.
Call(c) ==
    /\ pc[c] = "idle"
    /\ Goto(c, "null")
    /\ tries' = [tries EXCEPT ![c] = 0]
    /\ left' = [left EXCEPT ![c] = Reconnects[c]]
    /\ UNCHANGED <<fields, socket, held, stopping, environment, overlapped>>

\* Mutant: one call too many is waited for.
ReturnsTrue_Late(c) ==
    /\ IF left[c] = 0 THEN Goto(c, "use") ELSE Goto(c, "null")
    /\ left' = [left EXCEPT ![c] = @ - 1]
    /\ tries' = [tries EXCEPT ![c] = 0]

\* return true: the call before the use is the last one.
ReturnsTrue(c) ==
    /\ IF left[c] = 1 THEN Goto(c, "use") ELSE Goto(c, "null")
    /\ left' = [left EXCEPT ![c] = @ - 1]
    /\ tries' = [tries EXCEPT ![c] = 0]

\* return false: the caller gives up until it calls again.
ReturnsFalse(c) == Goto(c, "idle") /\ UNCHANGED <<tries, left>>

\* The end of the loop: another attempt, ten seconds later, while there are any.
TriesAgain(c) ==
    IF tries[c] > TryCount[c]
    THEN ReturnsFalse(c)
    ELSE /\ tries' = [tries EXCEPT ![c] = @ + 1]
         /\ Goto(c, "null")
         /\ UNCHANGED left

\* Caller c has found the connection down and enters TryConnectModbus.
Enters(c) ==
    /\ Goto(c, "test")
    /\ overlapped' = (overlapped \/ \E d \in Others(c) : pc[d] \in Connecting)
    /\ UNCHANGED <<tries, left>>

Stays == UNCHANGED overlapped

\* tcpClient == null || ...
IsNull(c) ==
    /\ pc[c] = "null"
    /\ IF tcpClient = None THEN Enters(c)
       ELSE Goto(c, "down") /\ UNCHANGED <<tries, left>> /\ Stays
    /\ UNCHANGED <<fields, socket, held, stopping, environment>>

\* Mutant: a connection whose peer failed still counts as one.
IsDown_Any(c) ==
    /\ pc[c] = "down"
    /\ Goto(c, "recheck") /\ UNCHANGED <<tries, left>> /\ Stays
    /\ UNCHANGED <<fields, socket, held, stopping, environment>>

\* ... || tcpClient.Connected == false: the field is read again, and is null
\* when another caller has cleared it.
IsDown(c) ==
    /\ pc[c] = "down"
    /\ \/ tcpClient = None /\ ReturnsFalse(c) /\ Stays
       \/ tcpClient # None /\ Connected(tcpClient)
             /\ Goto(c, "recheck") /\ UNCHANGED <<tries, left>> /\ Stays
       \/ tcpClient # None /\ ~Connected(tcpClient) /\ Enters(c)
    /\ UNCHANGED <<fields, socket, held, stopping, environment>>

\* else if (tcpClient != null && tcpClient.Connected) return true; cleared
\* between the two, the second read throws and the call returns false.
Recheck(c) ==
    /\ pc[c] = "recheck"
    /\ \/ tcpClient # None /\ Connected(tcpClient) /\ ReturnsTrue(c)
       \/ tcpClient # None /\ ~Connected(tcpClient) /\ TriesAgain(c)
       \/ tcpClient = None /\ (TriesAgain(c) \/ ReturnsFalse(c))
    /\ UNCHANGED <<fields, socket, held, stopping, environment, overlapped>>

-----------------------------------------------------------------------------
(* TryConnectModbus.  An exception in it is caught: another attempt.       *)

\* if (tcpClient != null)
Test(c) ==
    /\ pc[c] = "test"
    /\ Goto(c, IF tcpClient = None THEN "connect" ELSE "dispose")
    /\ UNCHANGED <<fields, socket, tries, left, held, stopping, environment, overlapped>>

\* Mutant: the old connection is left open.
Dispose_Not(c) ==
    /\ pc[c] = "dispose"
    /\ Goto(c, "clear")
    /\ UNCHANGED <<fields, socket, tries, left, held, stopping, environment, overlapped>>

\* tcpClient.Dispose()
Dispose(c) ==
    /\ pc[c] = "dispose"
    /\ \/ /\ tcpClient = None /\ TriesAgain(c) /\ UNCHANGED socket
       \/ /\ tcpClient # None
          /\ socket' = [socket EXCEPT ![tcpClient] = "closed"]
          /\ Goto(c, "clear") /\ UNCHANGED <<tries, left>>
    /\ UNCHANGED <<fields, held, stopping, environment, overlapped>>

\* Mutant: the two lines after the disposal that are commented out, live.
Clear_Master(c) ==
    /\ pc[c] = "clear"
    /\ tcpClient' = None /\ master' = None
    /\ Goto(c, "connect")
    /\ UNCHANGED <<socket, tries, left, held, stopping, environment, overlapped>>

\* tcpClient = null; the master stays what it was.
Clear(c) ==
    /\ pc[c] = "clear"
    /\ tcpClient' = None /\ UNCHANGED master
    /\ Goto(c, "connect")
    /\ UNCHANGED <<socket, tries, left, held, stopping, environment, overlapped>>

\* tcpClient = new TcpClient(...): connected and assigned, or an exception.
Connect(c) ==
    /\ pc[c] = "connect"
    /\ \/ /\ reachable
          /\ \E s \in Sockets :
                /\ Free(s)
                /\ socket' = [socket EXCEPT ![s] = "up"]
                /\ tcpClient' = s
          /\ Goto(c, "create") /\ UNCHANGED <<tries, left>>
       \/ /\ ~reachable
          /\ TriesAgain(c) /\ UNCHANGED <<socket, tcpClient>>
    /\ UNCHANGED <<master, held, stopping, environment, overlapped>>

\* factory.CreateMaster(tcpClient): the field may be another caller's by now,
\* or null, which NModbus refuses or makes an unusable master of.
Create(c) ==
    /\ pc[c] = "create"
    /\ \/ /\ tcpClient # None
          /\ held' = [held EXCEPT ![c] = tcpClient]
          /\ Goto(c, "assign") /\ UNCHANGED <<tries, left>>
       \/ /\ tcpClient = None
          /\ held' = [held EXCEPT ![c] = Unbound]
          /\ Goto(c, "assign") /\ UNCHANGED <<tries, left>>
       \/ /\ tcpClient = None
          /\ TriesAgain(c) /\ UNCHANGED held
    /\ UNCHANGED <<fields, socket, stopping, environment, overlapped>>

\* Mutant: the master of the first connection is kept.
Assign_First(c) ==
    /\ pc[c] = "assign"
    /\ master' = IF master = None THEN held[c] ELSE master
    /\ held' = [held EXCEPT ![c] = None]
    /\ ReturnsTrue(c)
    /\ UNCHANGED <<tcpClient, socket, stopping, environment, overlapped>>

\* master = ...; return true
Assign(c) ==
    /\ pc[c] = "assign"
    /\ master' = held[c]
    /\ held' = [held EXCEPT ![c] = None]
    /\ ReturnsTrue(c)
    /\ UNCHANGED <<tcpClient, socket, stopping, environment, overlapped>>

-----------------------------------------------------------------------------
(* The use of the master.                                                  *)

\* Without a master: the alarm poller reads no register, a request throws and
\* is answered with an error, and ReadModbusToJson gives the analog poller an
\* object without the name it asks for: its loop is over.
UseNothing(c) ==
    /\ pc[c] = "use" /\ master = None
    /\ Goto(c, IF Kind[c] = "analog" THEN "dead" ELSE "idle")
    /\ UNCHANGED <<fields, socket, tries, left, held, stopping, environment, overlapped>>

\* An exchange that succeeds; the alarm poller has more groups to read, the
\* analog poller stores what it has read.
UseDone(c) ==
    /\ pc[c] = "use"
    /\ master \in Sockets /\ socket[master] = "up"
    /\ \/ Kind[c] = "alarm" /\ UNCHANGED pc
       \/ Goto(c, IF Kind[c] = "analog" THEN "store" ELSE "idle")
    /\ UNCHANGED <<fields, socket, tries, left, held, stopping, environment, overlapped>>

\* An exchange that fails: the caller gives up its cycle, and a TcpClient
\* whose peer is gone is no longer Connected.
UseFailed(c) ==
    /\ pc[c] = "use"
    /\ master # None
    /\ master \in Sockets => socket[master] # "up"
    /\ socket' = [s \in Sockets |->
                     IF s = master /\ socket[s] = "broken" THEN "down" ELSE socket[s]]
    /\ Goto(c, "idle")
    /\ UNCHANGED <<fields, tries, left, held, stopping, environment, overlapped>>

\* await redis.HashSetAsync(...): nothing catches an exception of it, and the
\* loop is over.  What follows catches its own.
Store(c) ==
    /\ pc[c] = "store"
    /\ \E place \in {"idle", "dead"} : Goto(c, place)
    /\ UNCHANGED <<fields, socket, tries, left, held, stopping, environment, overlapped>>

Step(c) ==
    \/ IsNull(c) \/ IsDown(c) \/ Recheck(c)
    \/ Test(c) \/ Dispose(c) \/ Clear(c) \/ Connect(c) \/ Create(c) \/ Assign(c)
    \/ UseNothing(c) \/ UseDone(c) \/ UseFailed(c) \/ Store(c)

-----------------------------------------------------------------------------
(* The host's StopAsync disposes the connection; the pollers, whose token  *)
(* it does not cancel, go on.                                              *)

\* if (GetTcpClient() != null) master.Dispose(): without a master it throws.
StopMaster ==
    /\ stopping = "no"
    /\ stopping' = IF tcpClient # None /\ master # None THEN "client" ELSE "yes"
    /\ socket' = [s \in Sockets |->
                     IF tcpClient # None /\ s = master THEN "closed" ELSE socket[s]]
    /\ UNCHANGED <<fields, local, environment, overlapped>>

\* GetTcpClient().Dispose()
StopClient ==
    /\ stopping = "client"
    /\ stopping' = "yes"
    /\ socket' = [s \in Sockets |-> IF s = tcpClient THEN "closed" ELSE socket[s]]
    /\ UNCHANGED <<fields, local, environment, overlapped>>

-----------------------------------------------------------------------------
(* The device's side, and the finalizer of a TcpClient nobody refers to.   *)

Lose ==
    /\ losses < MaxLosses
    /\ losses' = losses + 1
    /\ reachable' = FALSE
    /\ socket' = [s \in Sockets |-> IF socket[s] = "up" THEN "broken" ELSE socket[s]]
    /\ UNCHANGED <<fields, local, stopping, overlapped>>

Restore ==
    /\ ~reachable
    /\ reachable' = TRUE
    /\ UNCHANGED <<fields, socket, local, stopping, losses, overlapped>>

Collect(s) ==
    /\ socket[s] # "closed" /\ s \notin Referenced
    /\ socket' = [socket EXCEPT ![s] = "closed"]
    /\ UNCHANGED <<fields, local, stopping, environment, overlapped>>

Next ==
    \/ \E c \in Callers : Call(c) \/ Step(c)
    \/ StopMaster \/ StopClient
    \/ Lose \/ Restore
    \/ \E s \in Sockets : Collect(s)

Spec == Init /\ [][Next]_vars

\* A poller calls again and again and a call is carried through, by threads
\* of their own; the device comes back and the finalizer runs.  Nobody has to
\* send a request, and nobody has to stop the host.
Fairness ==
    /\ \A c \in Callers : WF_vars(Step(c))
    /\ \A c \in Callers : Kind[c] # "request" => WF_vars(Call(c))
    /\ WF_vars(Restore)
    /\ \A s \in Sockets : WF_vars(Collect(s))

FairSpec == Spec /\ Fairness

-----------------------------------------------------------------------------
(* Properties.                                                             *)

\* Every field has its type.
TypeOK ==
    /\ tcpClient \in Sockets \cup {None}
    /\ master \in Sockets \cup {None, Unbound}
    /\ socket \in [Sockets -> {"closed", "up", "broken", "down"}]
    /\ pc \in [Callers -> Places]
    /\ tries \in [Callers -> Nat]
    /\ left \in [Callers -> Nat]
    /\ held \in [Callers -> Sockets \cup {None, Unbound}]
    /\ stopping \in {"no", "client", "yes"}
    /\ reachable \in BOOLEAN /\ losses \in 0..MaxLosses
    /\ overlapped \in BOOLEAN

\* As long as no two callers have been in TryConnectModbus at a time, the two
\* fields agree: the master is made over the TcpClient at hand, or the caller
\* that made the connection is about to assign it.  The code keeps no lock for
\* this; it rests on the order of lines 407 to 418.
MasterFollowsClient ==
    ~overlapped /\ tcpClient # None =>
        master = tcpClient \/ \E c \in Callers : pc[c] \in {"create", "assign"}

\* Nor is there then a connection to the device beside the one in the field: a
\* reconnection never leaves the last one open.
OneOpenSocket ==
    ~overlapped => \A s \in Sockets : socket[s] # "closed" => s = tcpClient

\* Then, too, a caller that was told TRUE and finds no master has only come
\* before another that is about to assign the first one: the other way round,
\* the connected TcpClient it saw is never left without a master.
TrueMeansMaster ==
    ~overlapped =>
        \A c \in Callers : pc[c] = "use" /\ master = None =>
            \E d \in Others(c) : pc[d] \in {"create", "assign"}

\* However callers overlap, a reader that has once found a master keeps finding
\* one: a reconnection, even one that fails, leaves the old master in the field.
\* The analog poller does not survive a read without a master, nor an exception of
\* redis: once the first connection is complete, only the latter can end it.
AnalogOutlivesFirstMaster ==
    [][/\ master # None => master' # None
       /\ \A c \in Callers : pc'[c] = "dead" => pc[c] \in {"store", "dead"} \/ master = None]_vars

\* The connection is up and the master in the field is the one made over it.
Usable == tcpClient # None /\ socket[tcpClient] = "up" /\ master = tcpClient

\* What two overlapping callers may leave behind: a TcpClient that counts as
\* connected beside the master of another, so that nobody reconnects.
Crossed == tcpClient # None /\ Connected(tcpClient) /\ master # tcpClient

\* When the device has stopped dropping out, the link is in the end usable for
\* good, or it is crossed, or callers are for ever in each other's way (the ten
\* seconds between two attempts of a caller make that a coincidence).
Recovers ==
    \/ <>[](Usable \/ Crossed)
    \/ []<>(\E c \in Callers : \E d \in Others(c) : {pc[c], pc[d]} \subseteq Connecting)

=============================================================================
