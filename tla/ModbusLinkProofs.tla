-------------------------- MODULE ModbusLinkProofs --------------------------
(***************************************************************************)
(* The Modbus connection's safety properties, for every set of callers,    *)
(* every number of attempts and every number of lost connections.          *)
(***************************************************************************)
EXTENDS ModbusLink, TLAPS

\* A call of ReconnectWhenDisconnected is still to return, and a TcpClient is
\* only held between the master's creation and its assignment.
CallInv ==
    /\ \A c \in Callers : pc[c] \notin {"idle", "dead", "use", "store"} => left[c] >= 1
    /\ \A c \in Callers : pc[c] = "assign" <=> held[c] # None

TypeInv == TypeOK /\ CallInv

\* What the three ways out of an attempt do to a caller's own variables.
LEMMA Ways ==
    ASSUME TypeInv, NEW c \in Callers,
           pc[c] \notin {"idle", "dead", "use", "store"},
           ReturnsTrue(c) \/ ReturnsFalse(c) \/ TriesAgain(c)
    PROVE  /\ \E p \in {"idle", "null", "use"} : pc' = [pc EXCEPT ![c] = p]
           /\ tries' \in [Callers -> Nat] /\ left' \in [Callers -> Nat]
           /\ \A d \in Others(c) : left'[d] = left[d]
           /\ pc'[c] = "null" => left'[c] >= 1
           /\ ~ReturnsTrue(c) => pc'[c] # "use"
<1> USE LinkAssumption DEF TypeInv, TypeOK, CallInv, Goto, Others
<1>1. CASE ReturnsTrue(c)
  BY <1>1 DEF ReturnsTrue
<1>2. CASE ReturnsFalse(c)
  BY <1>2 DEF ReturnsFalse
<1>3. CASE TriesAgain(c)
  BY <1>3 DEF TriesAgain, ReturnsFalse
<1> QED
  BY <1>1, <1>2, <1>3

LEMMA InitTypeInv ==
    ASSUME Init
    PROVE  TypeInv
<1>1. losses \in 0..MaxLosses
  BY LinkAssumption DEF Init
<1>2. \A c \in Callers : pc[c] = "idle" /\ held[c] = None
  BY DEF Init
<1>3. TypeOK
  BY <1>1 DEF Init, TypeOK, Places
<1>4. CallInv
  BY <1>2 DEF CallInv
<1> QED
  BY <1>3, <1>4 DEF TypeInv

LEMMA NextTypeInv ==
    ASSUME TypeInv, [Next]_vars
    PROVE  TypeInv'
<1> USE LinkAssumption DEF TypeInv, TypeOK, CallInv, Places, Connecting
<1> USE DEF fields, environment, Stays
<1>1. ASSUME NEW c \in Callers, Call(c) PROVE TypeInv'
  BY <1>1 DEF Call, Goto
<1>2. ASSUME NEW c \in Callers, Step(c) PROVE TypeInv'
  <2>1. CASE IsNull(c)
    BY <2>1 DEF IsNull, Enters, Goto
  <2>2. CASE IsDown(c)
    BY <2>2 DEF IsDown, Enters, ReturnsFalse, Goto
  <2>3. CASE Recheck(c)
    BY <2>3, Ways DEF Recheck, Others
  <2>4. CASE Test(c)
    BY <2>4 DEF Test, Goto
  <2>5. CASE Dispose(c)
    BY <2>5, Ways DEF Dispose, Goto, Others
  <2>6. CASE Clear(c)
    BY <2>6 DEF Clear, Goto
  <2>7. CASE Connect(c)
    BY <2>7, Ways DEF Connect, Goto, Others
  <2>8. CASE Create(c)
    BY <2>8, Ways DEF Create, Goto, Others
  <2>9. CASE Assign(c)
    BY <2>9, Ways DEF Assign, Others
  <2>10. CASE UseNothing(c)
    BY <2>10 DEF UseNothing, Goto
  <2>11. CASE UseDone(c)
    BY <2>11 DEF UseDone, Goto
  <2>12. CASE UseFailed(c)
    BY <2>12 DEF UseFailed, Goto
  <2>13. CASE Store(c)
    BY <2>13 DEF Store, Goto
  <2> QED
    BY <1>2, <2>1, <2>2, <2>3, <2>4, <2>5, <2>6, <2>7, <2>8, <2>9, <2>10, <2>11, <2>12, <2>13
       DEF Step
<1>3. CASE StopMaster
  <2>1. stopping' \in {"no", "client", "yes"}
    BY <1>3 DEF StopMaster
  <2>2. socket' \in [Sockets -> {"closed", "up", "broken", "down"}]
    BY <1>3 DEF StopMaster
  <2> QED
    BY <1>3, <2>1, <2>2 DEF StopMaster, local
<1>4. CASE StopClient
  <2>1. stopping' \in {"no", "client", "yes"}
    BY <1>4 DEF StopClient
  <2>2. socket' \in [Sockets -> {"closed", "up", "broken", "down"}]
    BY <1>4 DEF StopClient
  <2> QED
    BY <1>4, <2>1, <2>2 DEF StopClient, local
<1>5. CASE Lose
  <2>1. losses' \in 0..MaxLosses
    BY <1>5 DEF Lose
  <2>2. socket' \in [Sockets -> {"closed", "up", "broken", "down"}]
    BY <1>5 DEF Lose
  <2> QED
    BY <1>5, <2>1, <2>2 DEF Lose, local
<1>6. CASE Restore
  BY <1>6 DEF Restore, local
<1>7. ASSUME NEW s \in Sockets, Collect(s) PROVE TypeInv'
  BY <1>7 DEF Collect, local
<1>8. CASE UNCHANGED vars
  BY <1>8 DEF vars, local
<1> QED
  BY <1>1, <1>2, <1>3, <1>4, <1>5, <1>6, <1>7, <1>8 DEF Next

\* The connection's fields keep their types, however the callers interleave.
THEOREM TypeCorrect == Spec => []TypeOK
<1>1. Init => TypeInv
  BY InitTypeInv
<1>2. TypeInv /\ [Next]_vars => TypeInv'
  BY NextTypeInv
<1>3. TypeInv => TypeOK
  BY DEF TypeInv
<1> QED
  BY <1>1, <1>2, <1>3, PTL DEF Spec

-----------------------------------------------------------------------------
(* Without overlapping callers.                                            *)

\* One caller is in TryConnectModbus at most, and knows what it has done.
Solo ==
    /\ \A c, d \in Callers : pc[c] \in Connecting /\ pc[d] \in Connecting => c = d
    /\ \A c \in Callers :
          /\ pc[c] = "dispose" => tcpClient # None
          /\ pc[c] = "clear" => tcpClient # None /\ socket[tcpClient] = "closed"
          /\ pc[c] = "connect" => tcpClient = None
          /\ pc[c] = "create" => tcpClient # None
          /\ pc[c] = "assign" => tcpClient # None /\ held[c] = tcpClient

LinkInv ==
    /\ ~overlapped => Solo
    /\ MasterFollowsClient /\ OneOpenSocket /\ TrueMeansMaster

LEMMA InitLinkInv ==
    ASSUME Init
    PROVE  LinkInv
<1>1. Solo
  BY DEF Init, Solo, Connecting
<1>2. MasterFollowsClient /\ OneOpenSocket /\ TrueMeansMaster
  BY DEF Init, MasterFollowsClient, OneOpenSocket, TrueMeansMaster
<1> QED
  BY <1>1, <1>2 DEF LinkInv

LEMMA NextLinkInv ==
    ASSUME TypeInv, TypeInv', LinkInv, [Next]_vars
    PROVE  LinkInv'
<1> SUFFICES ASSUME ~overlapped'
             PROVE  (Solo /\ MasterFollowsClient /\ OneOpenSocket /\ TrueMeansMaster)'
  BY DEF LinkInv, MasterFollowsClient, OneOpenSocket, TrueMeansMaster
<1> USE LinkAssumption DEF TypeInv, TypeOK, Connecting, Others
<1> USE DEF fields, environment, Stays, Solo, MasterFollowsClient, OneOpenSocket, TrueMeansMaster
<1>0. ~overlapped => Solo /\ MasterFollowsClient /\ OneOpenSocket /\ TrueMeansMaster
  BY DEF LinkInv
<1>1. ASSUME NEW c \in Callers, Call(c)
      PROVE  (Solo /\ MasterFollowsClient /\ OneOpenSocket /\ TrueMeansMaster)'
  BY <1>0, <1>1 DEF Call, Goto
<1>2. ASSUME NEW c \in Callers, Step(c)
      PROVE  (Solo /\ MasterFollowsClient /\ OneOpenSocket /\ TrueMeansMaster)'
  <2>1. CASE IsNull(c)
    BY <1>0, <2>1 DEF IsNull, Enters, Goto
  <2>2. CASE IsDown(c)
    BY <1>0, <2>2 DEF IsDown, Enters, ReturnsFalse, Goto
  <2>3. CASE Recheck(c)
    <3>1. UNCHANGED <<tcpClient, master, socket, held, overlapped>> /\ pc[c] = "recheck"
      BY <2>3 DEF Recheck
    <3>2. CASE ReturnsTrue(c) /\ tcpClient # None
      <4>1. PICK p \in {"null", "use"} : pc' = [pc EXCEPT ![c] = p]
        BY <3>2 DEF ReturnsTrue, Goto
      <4> QED
        BY <1>0, <3>1, <3>2, <4>1
    <3>3. CASE TriesAgain(c) \/ ReturnsFalse(c)
      <4>1. PICK p \in {"idle", "null"} : pc' = [pc EXCEPT ![c] = p]
        BY <3>3 DEF ReturnsFalse, TriesAgain, Goto
      <4> QED
        BY <1>0, <3>1, <4>1
    <3> QED
      BY <2>3, <3>2, <3>3 DEF Recheck
  <2>4. CASE Test(c)
    BY <1>0, <2>4 DEF Test, Goto
  <2>5. CASE Dispose(c)
    <3>1. tcpClient # None
      BY <1>0, <2>5 DEF Dispose
    <3>2. /\ pc' = [pc EXCEPT ![c] = "clear"]
          /\ socket' = [socket EXCEPT ![tcpClient] = "closed"]
          /\ UNCHANGED <<tcpClient, master, held, overlapped>>
      BY <2>5, <3>1 DEF Dispose, Goto
    <3> QED
      BY <1>0, <2>5, <3>1, <3>2 DEF Dispose
  <2>6. CASE Clear(c)
    BY <1>0, <2>6 DEF Clear, Goto
  <2>7. CASE Connect(c)
    <3>1. tcpClient = None /\ pc[c] = "connect"
      BY <1>0, <2>7 DEF Connect
    <3>2. \A s \in Sockets : socket[s] = "closed"
      BY <1>0, <2>7, <3>1 DEF Connect
    <3>3. CASE reachable
      <4>1. PICK s \in Sockets : socket' = [socket EXCEPT ![s] = "up"] /\ tcpClient' = s
        BY <2>7, <3>3 DEF Connect
      <4>2. /\ pc' = [pc EXCEPT ![c] = "create"]
            /\ UNCHANGED <<master, held, overlapped>>
        BY <2>7, <3>3 DEF Connect, Goto
      <4> QED
        BY <1>0, <3>1, <3>2, <4>1, <4>2
    <3>4. CASE ~reachable
      <4>1. PICK p \in {"idle", "null"} : pc' = [pc EXCEPT ![c] = p]
        BY <2>7, <3>4 DEF Connect, ReturnsFalse, TriesAgain, Goto
      <4>2. UNCHANGED <<tcpClient, master, socket, held, overlapped>>
        BY <2>7, <3>4 DEF Connect
      <4> QED
        BY <1>0, <3>1, <4>1, <4>2
    <3> QED
      BY <3>3, <3>4
  <2>8. CASE Create(c)
    BY <1>0, <2>8, Ways DEF Create, Goto
  <2>9. CASE Assign(c)
    BY <1>0, <2>9, Ways DEF Assign
  <2>10. CASE UseNothing(c)
    BY <1>0, <2>10 DEF UseNothing, Goto
  <2>11. CASE UseDone(c)
    BY <1>0, <2>11 DEF UseDone, Goto
  <2>12. CASE UseFailed(c)
    BY <1>0, <2>12 DEF UseFailed, Goto
  <2>13. CASE Store(c)
    BY <1>0, <2>13 DEF Store, Goto
  <2> QED
    BY <1>2, <2>1, <2>2, <2>3, <2>4, <2>5, <2>6, <2>7, <2>8, <2>9, <2>10, <2>11, <2>12, <2>13
       DEF Step
<1>3. CASE StopMaster
  BY <1>0, <1>3 DEF StopMaster, local
<1>4. CASE StopClient
  BY <1>0, <1>4 DEF StopClient, local
<1>5. CASE Lose
  BY <1>0, <1>5 DEF Lose, local
<1>6. CASE Restore
  BY <1>0, <1>6 DEF Restore, local
<1>7. ASSUME NEW s \in Sockets, Collect(s)
      PROVE  (Solo /\ MasterFollowsClient /\ OneOpenSocket /\ TrueMeansMaster)'
  BY <1>0, <1>7 DEF Collect, local, Referenced
<1>8. CASE UNCHANGED vars
  BY <1>0, <1>8 DEF vars, local
<1> QED
  BY <1>1, <1>2, <1>3, <1>4, <1>5, <1>6, <1>7, <1>8 DEF Next

\* What callers that do not overlap leave behind.
LEMMA LinkSafe == Spec => [](MasterFollowsClient /\ OneOpenSocket /\ TrueMeansMaster)
<1>1. Init => TypeInv /\ LinkInv
  BY InitTypeInv, InitLinkInv
<1>2. TypeInv /\ LinkInv /\ [Next]_vars => (TypeInv /\ LinkInv)'
  BY NextTypeInv, NextLinkInv
<1>3. LinkInv => MasterFollowsClient /\ OneOpenSocket /\ TrueMeansMaster
  BY DEF LinkInv
<1> QED
  BY <1>1, <1>2, <1>3, PTL DEF Spec

\* As long as no two callers reconnect at a time, the master in the field is made
\* over the TcpClient in the field (the order of the lines of TryConnectModbus).
THEOREM MasterFollows == Spec => []MasterFollowsClient
BY LinkSafe, PTL

\* Nor does a reconnection then leave the connection before it open.
THEOREM OneOpen == Spec => []OneOpenSocket
BY LinkSafe, PTL

\* And whoever ReconnectWhenDisconnected told TRUE has a master, or another
\* caller is about to assign the first one.
THEOREM TrueHasMaster == Spec => []TrueMeansMaster
BY LinkSafe, PTL

\* However callers overlap, a master in the field is only ever followed by
\* another, and once there is one only an exception of redis ends the analog poller.
THEOREM AnalogOutlives == Spec => AnalogOutlivesFirstMaster
<1>1. TypeInv /\ [Next]_vars =>
         [/\ master # None => master' # None
          /\ \A c \in Callers : pc'[c] = "dead" => pc[c] \in {"store", "dead"} \/ master = None]_vars
  <2> SUFFICES ASSUME TypeInv, Next
               PROVE  /\ master # None => master' # None
                      /\ \A c \in Callers : pc'[c] = "dead" => pc[c] \in {"store", "dead"} \/ master = None
    OBVIOUS
  <2> USE DEF TypeInv, TypeOK, fields, local, Goto
  <2>1. ASSUME NEW c \in Callers, Assign(c)
        PROVE  master' # None /\ \A d \in Callers : pc'[d] = "dead" => pc[d] = "dead"
    BY <2>1 DEF Assign, CallInv, ReturnsTrue
  <2>2. ASSUME NEW c \in Callers, Call(c) \/ Step(c), ~Assign(c)
        PROVE  /\ master' = master
               /\ \A d \in Callers : pc'[d] = "dead" => pc[d] \in {"store", "dead"} \/ master = None
    <3>1. CASE Call(c)
      BY <3>1 DEF Call
    <3>2. CASE IsNull(c) \/ IsDown(c)
      BY <3>2 DEF IsNull, IsDown, Enters, ReturnsFalse
    <3>3. CASE Recheck(c) \/ Dispose(c)
      BY <3>3 DEF Recheck, Dispose, ReturnsTrue, ReturnsFalse, TriesAgain
    <3>4. CASE Connect(c) \/ Create(c)
      BY <3>4 DEF Connect, Create, ReturnsFalse, TriesAgain
    <3>5. CASE Test(c) \/ Clear(c)
      BY <3>5 DEF Test, Clear
    <3>6. CASE UseNothing(c) \/ UseDone(c) \/ UseFailed(c) \/ Store(c)
      BY <3>6 DEF UseNothing, UseDone, UseFailed, Store
    <3> QED
      BY <2>2, <3>1, <3>2, <3>3, <3>4, <3>5, <3>6 DEF Step
  <2>3. ASSUME StopMaster \/ StopClient \/ Lose \/ Restore \/ \E s \in Sockets : Collect(s)
        PROVE  UNCHANGED <<master, pc>>
    BY <2>3 DEF StopMaster, StopClient, Lose, Restore, Collect
  <2> QED
    BY <2>1, <2>2, <2>3 DEF Next
<1>2. Spec => []TypeInv
  BY InitTypeInv, NextTypeInv, PTL DEF Spec
<1> QED
  BY <1>1, <1>2, PTL DEF Spec, AnalogOutlivesFirstMaster

=============================================================================
