------------------------- MODULE CommandAgentProofs -------------------------
(***************************************************************************)
(* Proofs about the command agent, for any number of PCSs, any bounds and  *)
(* any readings.                                                           *)
(***************************************************************************)
EXTENDS CommandAgent, SequenceTheorems, TLAPS

InRound == pc \in {"soc", "mode", "send", "publish"}

-----------------------------------------------------------------------------
(* The conversions.                                                        *)

LEMMA WordRange == ASSUME NEW n \in Int PROVE Word(n) \in Words
<1>1. Word(n) \in Int /\ Word(n) >= 0 /\ Word(n) < 65536
  BY DEF Word
<1> QED
  BY <1>1 DEF Words

\* What a PCS reads in the word of a power is ten times the power.
LEMMA WordIsSigned ==
    ASSUME NEW n \in Int, -3000 <= n, n <= 3000
    PROVE  Signed(Word(n)) = 10 * n
<1>1. CASE n >= 0
  <2>1. Word(n) = n * 10
    BY <1>1 DEF Word
  <2> QED
    BY <1>1, <2>1 DEF Signed
<1>2. CASE n < 0
  <2>1. Word(n) = n * 10 + 65536
    BY <1>2 DEF Word
  <2> QED
    BY <1>2, <2>1 DEF Signed
<1> QED
  BY <1>1, <1>2

Small(n) == n \in Int /\ -200 <= n /\ n <= 200

LEMMA PvLimit ==
    ASSUME NEW power, NEW pvPower, Small(power), Small(pvPower)
    PROVE  LET left == ValidatingPV(power, pvPower)
           IN  /\ left \in Int /\ -300 <= left /\ left <= 300
               /\ 0 <= pvPower /\ pvPower <= 94 /\ power >= 0 => 0 <= left /\ left <= power
               /\ 0 <= pvPower /\ pvPower <= 94 /\ power <= 0 => power <= left /\ left <= 0
  BY DEF Small, ValidatingPV, Smaller, Larger

-----------------------------------------------------------------------------
(* Types.                                                                  *)

LEMMA FirstPcs == 1 \in Pcs
  BY AgentAssumption DEF Pcs

LEMMA NextPcsMoves ==
    ASSUME pcs \in Pcs, NEW at, NEW after, NextPcs(at, after)
    PROVE  /\ pcs' \in Pcs /\ pc' \in {at, after}
           /\ seen' = "none" /\ pvSeen' = 0
           /\ pcs < NPcs => pcs' = pcs + 1 /\ pc' = at
           /\ ~(pcs < NPcs) => pcs' = 1 /\ pc' = after
<1>1. CASE pcs < NPcs
  BY <1>1, AgentAssumption DEF NextPcs, Pcs
<1>2. CASE ~(pcs < NPcs)
  BY <1>2, FirstPcs DEF NextPcs
<1> QED
  BY <1>1, <1>2

LEMMA EndOfRoundMoves ==
    ASSUME EndOfRound
    PROVE  /\ pcs' \in Pcs /\ pc' = "read"
           /\ seen' = "none" /\ pvSeen' = 0
           /\ valid' = [p \in Pcs |-> FALSE] /\ valid' \in [Pcs -> BOOLEAN]
           /\ changed' = {} /\ changed' \subseteq Pcs
  BY FirstPcs DEF EndOfRound

LEMMA NextSendMoves ==
    ASSUME pcs \in Pcs, valid \in [Pcs -> BOOLEAN], changed \subseteq Pcs, NextSend
    PROVE  /\ pcs' \in Pcs /\ pc' \in {"send", "read"}
           /\ seen' = "none" /\ pvSeen' = 0
           /\ valid' \in [Pcs -> BOOLEAN] /\ changed' \subseteq Pcs
           /\ pc' = "send" => pcs' = pcs + 1 /\ valid' = valid /\ changed' = changed
<1>1. CASE pcs < NPcs
  BY <1>1, NextPcsMoves DEF NextSend
<1>2. CASE ~(pcs < NPcs)
  BY <1>2, EndOfRoundMoves DEF NextSend
<1> QED
  BY <1>1, <1>2

LEMMA DateOfRound ==
    ASSUME TypeOK, InRound
    PROVE  last \in Dates /\ last \in 1..Len(placed) /\ last \in 0..MaxCommands
  BY AgentAssumption, LenProperties DEF TypeOK, InRound, Dates

LEMMA InitTypes == Init => TypeOK
<1> SUFFICES ASSUME Init PROVE TypeOK
  OBVIOUS
<1>1. placed \in Seq([Pcs -> Powers]) /\ Len(placed) = 0
  BY EmptySeq DEF Init
<1>2. out \in [Pcs -> Message]
  BY AgentAssumption DEF Init, Silence, Message, Words
<1>3. sent \in [Pcs -> [Dates -> Nat]]
  BY DEF Init
<1> QED
  BY <1>1, <1>2, <1>3, FirstPcs, AgentAssumption DEF Init, TypeOK

\* What a publication of a command is.
LEMMA PublishIs ==
    ASSUME TypeOK, Publish
    PROVE  /\ Command[pcs] \in Powers /\ Small(Command[pcs]) /\ Small(pvSeen)
           /\ out' \in [Pcs -> Message]
           /\ sent' \in [Pcs -> [Dates -> Nat]]
<1>1. InRound /\ last \in Dates /\ last \in 1..Len(placed)
  BY DateOfRound DEF Publish, InRound
<1>2. Command[pcs] \in Powers
  BY <1>1, ElementOfSeq DEF Command, TypeOK
<1>3. Small(Command[pcs]) /\ Small(pvSeen)
  BY <1>2, AgentAssumption DEF TypeOK, Small
<1>4. Word(ValidatingPV(Command[pcs], pvSeen)) \in Words
  BY <1>3, PvLimit, WordRange
<1>5. out' \in [Pcs -> Message]
  <2>1. [word |-> Word(ValidatingPV(Command[pcs], pvSeen)),
         for |-> "command", date |-> last, pv |-> pvSeen] \in Message
    BY <1>1, <1>4, DateOfRound DEF Message, TypeOK
  <2> QED
    BY <2>1 DEF Publish, TypeOK
<1>6. sent' \in [Pcs -> [Dates -> Nat]]
  BY <1>1 DEF Publish, TypeOK
<1> QED
  BY <1>2, <1>3, <1>5, <1>6

LEMMA TypesStay == TypeOK /\ [Next]_vars => TypeOK'
<1> SUFFICES ASSUME TypeOK, [Next]_vars PROVE TypeOK'
  OBVIOUS
<1>1. CASE ReadCommand
  BY <1>1 DEF ReadCommand, TypeOK, readings, history
<1>2. CASE NoCommand
  BY <1>2 DEF NoCommand, TypeOK, readings, history
<1>3. CASE ReadSoc
  BY <1>3 DEF ReadSoc, TypeOK, readings, history
<1>4. CASE CheckMode
  BY <1>4, NextPcsMoves DEF CheckMode, TypeOK, readings, history
<1>5. CASE Withhold
  BY <1>5, NextSendMoves DEF Withhold, TypeOK, readings, history
<1>6. CASE ReadPv
  BY <1>6 DEF ReadPv, TypeOK, readings, history
<1>7. CASE Publish
  <2>1. UNCHANGED <<readings, last, cut, faults, crashes>> /\ NextSend /\ pc = "publish"
    BY <1>7 DEF Publish
  <2> QED
    BY <1>7, <2>1, PublishIs, NextSendMoves DEF TypeOK, readings
<1>8. CASE ProtectMode
  BY <1>8, NextPcsMoves DEF ProtectMode, TypeOK, readings, history
<1>9. CASE ProtectSoc
  BY <1>9, NextPcsMoves DEF ProtectSoc, TypeOK, readings, history
<1>10. CASE ProtectSend
  <2>1. out' \in [Pcs -> Message]
    <3>1. [word |-> 10, for |-> "protection", date |-> 0, pv |-> 0] \in Message
      BY AgentAssumption DEF Message, Words
    <3>2. out' = [out EXCEPT ![pcs] =
                     [word |-> 10, for |-> "protection", date |-> 0, pv |-> 0]]
      BY <1>10 DEF ProtectSend
    <3>3. out \in [Pcs -> Message] /\ pcs \in Pcs
      BY DEF TypeOK
    <3> QED
      BY <3>1, <3>2, <3>3
  <2>2. NextPcs("protect", "read") /\ UNCHANGED <<readings, last, valid, sent, cut, changed, faults, crashes>>
    BY <1>10 DEF ProtectSend
  <2> QED
    BY <2>1, <2>2, NextPcsMoves DEF TypeOK, readings
<1>11. CASE PlaceCommand
  <2>1. PICK powers \in [Pcs -> Powers] : placed' = Append(placed, powers)
    BY <1>11 DEF PlaceCommand
  <2>2. /\ placed' \in Seq([Pcs -> Powers]) /\ Len(placed') = Len(placed) + 1
        /\ Len(placed) \in Nat /\ Len(placed') <= MaxCommands
    BY <1>11, <2>1, AppendProperties, LenProperties, AgentAssumption DEF PlaceCommand, TypeOK
  <2>3. out \in [Pcs -> Message]
    BY <2>2 DEF TypeOK
  <2> QED
    BY <1>11, <2>2, <2>3 DEF PlaceCommand, TypeOK, loop, history
<1>12. CASE HubReads
  <2>1. soc' \in [Pcs -> SocLevels] /\ pv' \in PvPowers /\ changed' \subseteq Pcs
    BY <1>12 DEF HubReads, Noted, TypeOK
  <2> QED
    BY <1>12, <2>1 DEF HubReads, Writes, TypeOK, loop, history
<1>13. ASSUME NEW p \in Pcs, SetLocalRemoteStatus(p) PROVE TypeOK'
  <2>0. hubMode[p] = 0 \/ hubMode[p] = 1
    BY <1>13 DEF TypeOK
  <2>1. 1 - hubMode[p] \in {0, 1}
    BY <2>0
  <2>2. hubMode' \in [Pcs -> {0, 1}]
    BY <1>13, <2>1 DEF SetLocalRemoteStatus, TypeOK
  <2> QED
    BY <1>13, <2>2 DEF SetLocalRemoteStatus, Writes, TypeOK, loop, history
<1>14. ASSUME NEW p \in Keyed, SetKeyedMode(p) PROVE TypeOK'
  <2>0. p \in Pcs
    BY <1>14, AgentAssumption DEF Pcs
  <2>3. agentMode[p] = 0 \/ agentMode[p] = 1
    BY <2>0 DEF TypeOK
  <2>1. 1 - agentMode[p] \in {0, 1}
    BY <2>3
  <2>2. agentMode' \in [Pcs -> {0, 1}] /\ changed' \subseteq Pcs
    BY <1>14, <2>0, <2>1 DEF SetKeyedMode, Noted, TypeOK
  <2> QED
    BY <1>14, <2>2 DEF SetKeyedMode, Writes, TypeOK, loop, history
<1>15. CASE SendFails
  <2>1. last \in Dates
    BY <1>15, DateOfRound DEF SendFails, InRound
  <2> QED
    BY <1>15, <2>1, NextSendMoves DEF SendFails, TypeOK, readings
<1>16. CASE RoundFails
  <2>1. cut' \subseteq Dates
    BY <1>16, DateOfRound DEF RoundFails, InRound, TypeOK
  <2> QED
    BY <1>16, <2>1, EndOfRoundMoves DEF RoundFails, TypeOK, readings
<1>17. CASE Restart
  <2>1. cut' \subseteq Dates
    BY <1>17, DateOfRound DEF Restart, InRound, TypeOK
  <2> QED
    BY <1>17, <2>1, EndOfRoundMoves DEF Restart, TypeOK, readings
<1>18. CASE UNCHANGED vars
  BY <1>18 DEF vars, readings, loop, history, TypeOK
<1> QED
  BY <1>1, <1>2, <1>3, <1>4, <1>5, <1>6, <1>7, <1>8, <1>9, <1>10, <1>11, <1>12, <1>13, <1>14,
     <1>15, <1>16, <1>17, <1>18 DEF Next, Agent

\* The variables keep their types, and the loop its place.
THEOREM TypeCorrect == Spec => []TypeOK
  BY InitTypes, TypesStay, PTL DEF Spec

-----------------------------------------------------------------------------
(* A command is published once in a life of the process.                   *)

\* What is published of command d: nothing in this life before it is read,
\* nothing to the PCSs the sending loop has not come to, once to the others.
Unsent(p, d) ==
    \/ d > last
    \/ d = last /\ pc \in {"soc", "mode"}
    \/ d = last /\ pc \in {"send", "publish"} /\ p >= pcs

OnceInv ==
    \A p \in Pcs, d \in Dates :
        sent[p][d] <= IF Unsent(p, d) THEN crashes ELSE 1 + crashes

LEMMA OnceQuiet ==
    ASSUME TypeOK, TypeOK', OnceInv, UNCHANGED <<sent, crashes>>,
           \A p \in Pcs, d \in Dates : Unsent(p, d)' => Unsent(p, d)
    PROVE  OnceInv'
<1> SUFFICES ASSUME NEW p \in Pcs, NEW d \in Dates
             PROVE  sent'[p][d] <= IF Unsent(p, d)' THEN crashes' ELSE 1 + crashes'
  BY DEF OnceInv
<1>1. sent[p][d] <= IF Unsent(p, d) THEN crashes ELSE 1 + crashes
  BY DEF OnceInv
<1>2. sent[p][d] \in Nat /\ crashes \in Nat
  BY DEF TypeOK
<1> QED
  BY <1>1, <1>2

LEMMA OnceStep == TypeOK /\ TypeOK' /\ OnceInv /\ [Next]_vars => OnceInv'
<1> SUFFICES ASSUME TypeOK, TypeOK', OnceInv, [Next]_vars PROVE OnceInv'
  OBVIOUS
<1>0. pcs \in Pcs /\ \A p \in Pcs : p \in Int /\ p >= 1 /\ p <= NPcs
  BY AgentAssumption DEF TypeOK, Pcs
<1>1. CASE ReadCommand
  <2>1. last < last' /\ last \in Int /\ last' \in Int /\ pc' = "soc"
    BY <1>1, LenProperties DEF ReadCommand, TypeOK
  <2>2. \A p \in Pcs, d \in Dates : Unsent(p, d)' => Unsent(p, d)
    BY <2>1 DEF Unsent, Dates
  <2> QED
    BY <1>1, <2>2, OnceQuiet DEF ReadCommand, history
<1>2. CASE NoCommand
  BY <1>2, OnceQuiet DEF NoCommand, history, Unsent
<1>3. CASE ReadSoc
  BY <1>3, OnceQuiet DEF ReadSoc, history, Unsent
<1>4. CASE CheckMode
  <2>1. pc = "mode" /\ last' = last
    BY <1>4 DEF CheckMode
  <2> QED
    BY <1>4, <2>1, OnceQuiet DEF CheckMode, history, Unsent
<1>5. CASE Withhold \/ SendFails
  <2>1. pc \in {"send", "publish"} /\ UNCHANGED <<last, sent, crashes>> /\ NextSend
    BY <1>5 DEF Withhold, SendFails, history
  <2>2. pc' = "read" \/ (pc' = "send" /\ pcs' = pcs + 1)
    BY <2>1, NextSendMoves DEF TypeOK
  <2>3. \A p \in Pcs, d \in Dates : Unsent(p, d)' => Unsent(p, d)
    BY <1>0, <2>1, <2>2 DEF Unsent
  <2> QED
    BY <2>1, <2>3, OnceQuiet
<1>6. CASE ReadPv
  BY <1>6, OnceQuiet DEF ReadPv, history, Unsent
<1>7. CASE Publish
  <2>1. /\ pc = "publish" /\ UNCHANGED <<last, crashes>> /\ NextSend
        /\ sent' = [sent EXCEPT ![pcs][last] = @ + 1]
    BY <1>7 DEF Publish
  <2>2. pc' = "read" \/ (pc' = "send" /\ pcs' = pcs + 1)
    BY <2>1, NextSendMoves DEF TypeOK
  <2>3. last \in Dates
    BY <2>1, DateOfRound DEF InRound
  <2> SUFFICES ASSUME NEW p \in Pcs, NEW d \in Dates
               PROVE  sent'[p][d] <= IF Unsent(p, d)' THEN crashes' ELSE 1 + crashes'
    BY DEF OnceInv
  <2>4. /\ sent[p][d] <= IF Unsent(p, d) THEN crashes ELSE 1 + crashes
        /\ sent[p][d] \in Nat /\ crashes \in Nat
    BY DEF OnceInv, TypeOK
  <2>5. CASE p = pcs /\ d = last
    <3>1. Unsent(p, d) /\ ~Unsent(p, d)'
      BY <1>0, <2>1, <2>2, <2>3, <2>5 DEF Unsent, Dates
    <3>2. sent'[p][d] = sent[p][d] + 1
      BY <2>1, <2>3, <2>5 DEF TypeOK
    <3> QED
      BY <2>1, <2>4, <3>1, <3>2
  <2>6. CASE ~(p = pcs /\ d = last)
    <3>1. sent'[p][d] = sent[p][d]
      BY <1>0, <2>1, <2>3, <2>6 DEF TypeOK
    <3>2. Unsent(p, d)' => Unsent(p, d)
      BY <1>0, <2>1, <2>2 DEF Unsent
    <3> QED
      BY <2>1, <2>4, <3>1, <3>2
  <2> QED
    BY <2>5, <2>6
<1>8. CASE ProtectMode \/ ProtectSoc \/ ProtectSend
  <2>1. UNCHANGED <<last, sent, crashes>> /\ pc' \notin {"soc", "mode", "send", "publish"}
    <3>0. pcs \in Pcs
      BY DEF TypeOK
    <3>1. CASE ProtectMode
      BY <3>0, <3>1, NextPcsMoves DEF ProtectMode, history
    <3>2. CASE ProtectSoc
      BY <3>0, <3>2, NextPcsMoves DEF ProtectSoc, history
    <3>3. CASE ProtectSend
      BY <3>0, <3>3, NextPcsMoves DEF ProtectSend
    <3> QED
      BY <1>8, <3>1, <3>2, <3>3
  <2> QED
    BY <2>1, OnceQuiet DEF Unsent
<1>9. CASE PlaceCommand \/ HubReads \/ (\E p \in Pcs : SetLocalRemoteStatus(p))
           \/ (\E p \in Keyed : SetKeyedMode(p)) \/ UNCHANGED vars
  <2>1. UNCHANGED <<last, pc, pcs, sent, crashes>>
    BY <1>9 DEF PlaceCommand, HubReads, SetLocalRemoteStatus, SetKeyedMode, Writes, loop,
                history, vars
  <2> QED
    BY <2>1, OnceQuiet DEF Unsent
<1>10. CASE RoundFails
  <2>1. UNCHANGED <<last, sent, crashes>> /\ pc' = "read"
    BY <1>10, EndOfRoundMoves DEF RoundFails
  <2> QED
    BY <2>1, OnceQuiet DEF Unsent
<1>11. CASE Restart
  <2>1. crashes' = crashes + 1 /\ sent' = sent
    BY <1>11 DEF Restart
  <2> SUFFICES ASSUME NEW p \in Pcs, NEW d \in Dates
               PROVE  sent'[p][d] <= crashes'
    <3>1. \A p \in Pcs, d \in Dates : sent'[p][d] \in Nat /\ crashes' \in Nat
      BY DEF TypeOK
    <3> QED
      BY <3>1 DEF OnceInv
  <2>2. /\ sent[p][d] <= IF Unsent(p, d) THEN crashes ELSE 1 + crashes
        /\ sent[p][d] \in Nat /\ crashes \in Nat
    BY DEF OnceInv, TypeOK
  <2> QED
    BY <2>1, <2>2
<1> QED
  BY <1>1, <1>2, <1>3, <1>4, <1>5, <1>6, <1>7, <1>8, <1>9, <1>10, <1>11 DEF Next, Agent

\* A command is published to a PCS at most once between two restarts.
THEOREM SentOnce == Spec => []SentOncePerLife
<1>1. Init => OnceInv
  BY DEF Init, OnceInv
<1>2. TypeOK /\ OnceInv => SentOncePerLife
  <2> SUFFICES ASSUME TypeOK, OnceInv, NEW p \in Pcs, NEW d \in Dates
               PROVE  sent[p][d] <= 1 + crashes
    BY DEF SentOncePerLife
  <2>1. /\ sent[p][d] <= IF Unsent(p, d) THEN crashes ELSE 1 + crashes
        /\ sent[p][d] \in Nat /\ crashes \in Nat
    BY DEF OnceInv, TypeOK
  <2> QED
    BY <2>1
<1> QED
  BY <1>1, <1>2, TypeCorrect, OnceStep, PTL DEF Spec

-----------------------------------------------------------------------------
(* Commands go out in the order of their dates.                            *)

\* What has been published is not newer than the command being handled, nor
\* than the last one placed.
OrderInv ==
    \A p \in Pcs, d \in Dates :
        sent[p][d] > 0 => d <= Len(placed) /\ (last # 0 => d <= last)

LEMMA OrderStep == TypeOK /\ TypeOK' /\ OrderInv /\ [Next]_vars => OrderInv'
<1> SUFFICES ASSUME TypeOK, TypeOK', OrderInv, [Next]_vars PROVE OrderInv'
  OBVIOUS
<1>0. Len(placed) \in Nat /\ last \in 0..Len(placed)
  BY LenProperties DEF TypeOK
<1>1. CASE ReadCommand
  BY <1>0, <1>1 DEF ReadCommand, OrderInv, readings, history
<1>2. CASE Publish
  <2>1. /\ pc = "publish" /\ UNCHANGED <<placed, last>>
        /\ sent' = [sent EXCEPT ![pcs][last] = @ + 1]
    BY <1>2 DEF Publish, readings
  <2>2. last \in Dates /\ last \in 1..Len(placed)
    BY <2>1, DateOfRound DEF InRound
  <2> SUFFICES ASSUME NEW p \in Pcs, NEW d \in Dates, sent'[p][d] > 0, d # last
               PROVE  d <= Len(placed) /\ d <= last
    BY <1>0, <2>1, <2>2 DEF OrderInv, Dates
  <2>3. sent'[p][d] = sent[p][d]
    BY <2>1, <2>2 DEF TypeOK
  <2> QED
    BY <2>2, <2>3 DEF OrderInv
<1>3. CASE PlaceCommand
  <2>1. Len(placed') = Len(placed) + 1 /\ UNCHANGED <<sent, last>>
    BY <1>3, AppendProperties DEF PlaceCommand, TypeOK, loop, history
  <2> QED
    BY <1>0, <2>1 DEF OrderInv, Dates
<1>4. CASE Restart
  BY <1>4 DEF Restart, OrderInv, readings
<1>5. CASE UNCHANGED <<placed, last, sent>>
  BY <1>5 DEF OrderInv
<1>6. ASSUME Next, ~ReadCommand, ~Publish, ~PlaceCommand, ~Restart
      PROVE  UNCHANGED <<placed, last, sent>>
  BY <1>6 DEF Next, Agent, NoCommand, ReadSoc, CheckMode, Withhold, ReadPv, ProtectMode,
              ProtectSoc, ProtectSend, HubReads, SetLocalRemoteStatus, SetKeyedMode, Writes,
              SendFails, RoundFails, readings, history, loop
<1> QED
  BY <1>1, <1>2, <1>3, <1>4, <1>5, <1>6 DEF vars, readings, loop, history

\* Only a publication adds to what was sent.
LEMMA OnlyPublishSends == [Next]_vars /\ sent' # sent => Publish
  BY DEF Next, Agent, ReadCommand, NoCommand, ReadSoc, CheckMode, Withhold, ReadPv, ProtectMode,
         ProtectSoc, ProtectSend, PlaceCommand, HubReads, SetLocalRemoteStatus, SetKeyedMode,
         Writes, SendFails, RoundFails, Restart, vars, history

LEMMA PublishSends ==
    ASSUME TypeOK, Publish, NEW p \in Pcs, sent'[p] # sent[p]
    PROVE  p = pcs /\ out'[p].date = last /\ InRound
<1>1. /\ sent' = [sent EXCEPT ![pcs][last] = @ + 1] /\ pc = "publish"
      /\ out' = [out EXCEPT ![pcs] = [word |-> Word(ValidatingPV(Command[pcs], pvSeen)),
                                      for |-> "command", date |-> last, pv |-> pvSeen]]
  BY DEF Publish
<1> QED
  BY <1>1 DEF TypeOK, InRound

\* A PCS never gets an older command after a newer one.
THEOREM InOrder == Spec => CommandsInOrder
<1>1. Init => OrderInv
  BY DEF Init, OrderInv
<1>2. TypeOK /\ OrderInv /\ [Next]_vars =>
          [\A p \in Pcs : (sent'[p] # sent[p]) =>
              \A d \in Dates : sent[p][d] > 0 => d <= out'[p].date]_vars
  <2> SUFFICES ASSUME TypeOK, OrderInv, [Next]_vars, NEW p \in Pcs, sent'[p] # sent[p],
                      NEW d \in Dates, sent[p][d] > 0
               PROVE  d <= out'[p].date
    OBVIOUS
  <2>1. Publish
    BY OnlyPublishSends
  <2>2. out'[p].date = last /\ last \in Dates
    BY <2>1, PublishSends, DateOfRound
  <2> QED
    BY <2>2 DEF OrderInv, Dates
<1> QED
  BY <1>1, <1>2, TypeCorrect, OrderStep, PTL DEF Spec, CommandsInOrder

-----------------------------------------------------------------------------
(* The word keeps the direction of the command.                            *)

DirectionInv ==
    /\ DirectionKept
    /\ \A p \in Pcs : out[p].for = "command" => out[p].date \in 1..Len(placed)

LEMMA DirectionStep == TypeOK /\ DirectionInv /\ [Next]_vars => DirectionInv'
<1> SUFFICES ASSUME TypeOK, DirectionInv, [Next]_vars PROVE DirectionInv'
  OBVIOUS
<1>1. CASE Publish
  <2>1. /\ pc = "publish" /\ UNCHANGED placed
        /\ out' = [out EXCEPT ![pcs] = [word |-> Word(ValidatingPV(Command[pcs], pvSeen)),
                                        for |-> "command", date |-> last, pv |-> pvSeen]]
    BY <1>1 DEF Publish, readings
  <2>2. last \in 1..Len(placed) /\ pcs \in Pcs /\ Small(Command[pcs]) /\ Small(pvSeen)
    BY <1>1, <2>1, DateOfRound, PublishIs DEF InRound, TypeOK
  <2>3. /\ ValidatingPV(Command[pcs], pvSeen) \in Int
        /\ Signed(Word(ValidatingPV(Command[pcs], pvSeen))) =
               10 * ValidatingPV(Command[pcs], pvSeen)
    BY <2>2, PvLimit, WordIsSigned
  <2>4. ASSUME NEW p \in Pcs, out'[p].for = "command", out'[p].pv \in 0..94
        PROVE  LET power == placed'[out'[p].date][p]
                   received == Signed(out'[p].word)
               IN  /\ power >= 0 => 0 <= received /\ received <= 10 * power
                   /\ power <= 0 => 10 * power <= received /\ received <= 0
    <3>1. CASE p = pcs
      <4>1. /\ out'[p].date = last /\ out'[p].pv = pvSeen
            /\ out'[p].word = Word(ValidatingPV(Command[pcs], pvSeen))
        BY <2>1, <2>2, <3>1 DEF TypeOK
      <4>2. placed'[last][p] = Command[pcs] /\ 0 <= pvSeen /\ pvSeen <= 94
        BY <2>1, <2>4, <3>1, <4>1 DEF Command
      <4>3. Command[pcs] \in Int
        BY <2>2 DEF Small
      <4>4. /\ Command[pcs] >= 0 => 0 <= ValidatingPV(Command[pcs], pvSeen)
                                    /\ ValidatingPV(Command[pcs], pvSeen) <= Command[pcs]
            /\ Command[pcs] <= 0 => Command[pcs] <= ValidatingPV(Command[pcs], pvSeen)
                                    /\ ValidatingPV(Command[pcs], pvSeen) <= 0
        BY <2>2, <4>2, PvLimit
      <4> QED
        BY <2>3, <4>1, <4>2, <4>3, <4>4
    <3>2. CASE p # pcs
      <4>1. out'[p] = out[p]
        BY <2>1, <2>2, <3>2 DEF TypeOK
      <4> QED
        BY <2>1, <2>4, <4>1 DEF DirectionInv, DirectionKept
    <3> QED
      BY <3>1, <3>2
  <2>5. \A p \in Pcs : out'[p].for = "command" => out'[p].date \in 1..Len(placed')
    BY <2>1, <2>2 DEF DirectionInv, TypeOK
  <2> QED
    BY <2>4, <2>5 DEF DirectionInv, DirectionKept
<1>2. CASE ProtectSend
  <2>1. /\ UNCHANGED placed
        /\ out' = [out EXCEPT ![pcs] =
                      [word |-> 10, for |-> "protection", date |-> 0, pv |-> 0]]
    BY <1>2 DEF ProtectSend, readings
  <2>2. \A p \in Pcs : out'[p].for = "command" => out'[p] = out[p]
    BY <2>1 DEF TypeOK
  <2> QED
    BY <2>1, <2>2 DEF DirectionInv, DirectionKept
<1>3. CASE PlaceCommand
  <2>1. PICK powers \in [Pcs -> Powers] : placed' = Append(placed, powers) /\ out' = out
    BY <1>3 DEF PlaceCommand, history
  <2>2. /\ \A d \in 1..Len(placed) : placed'[d] = placed[d]
        /\ Len(placed') = Len(placed) + 1 /\ Len(placed) \in Nat
    BY <2>1, AppendProperties, LenProperties DEF TypeOK
  <2> QED
    BY <2>1, <2>2 DEF DirectionInv, DirectionKept
<1>4. CASE UNCHANGED <<placed, out>>
  BY <1>4 DEF DirectionInv, DirectionKept
<1>5. ASSUME Next, ~Publish, ~ProtectSend, ~PlaceCommand PROVE UNCHANGED <<placed, out>>
  BY <1>5 DEF Next, Agent, ReadCommand, NoCommand, ReadSoc, CheckMode, Withhold, ReadPv,
              ProtectMode, ProtectSoc, HubReads, SetLocalRemoteStatus, SetKeyedMode, Writes,
              SendFails, RoundFails, Restart, readings, history
<1> QED
  BY <1>1, <1>2, <1>3, <1>4, <1>5 DEF vars, readings, history

\* What a PCS receives never asks for more than the command or for the other
\* direction, for every power and every PV power from 0 to 94.
THEOREM Direction == Spec => []DirectionKept
<1>1. Init => DirectionInv
  BY DEF Init, DirectionInv, DirectionKept, Silence
<1>2. DirectionInv => DirectionKept
  BY DEF DirectionInv
<1> QED
  BY <1>1, <1>2, TypeCorrect, DirectionStep, PTL DEF Spec

-----------------------------------------------------------------------------
(* Only a PCS that may take the command gets it.                           *)

\* The checks of the round hold on for every PCS whose readings have not
\* changed since.
LimitsInv ==
    /\ pc = "publish" => valid[pcs]
    /\ pc = "mode" /\ pcs \notin changed => seen = soc[pcs]
    /\ \A p \in Pcs : valid[p] =>
          /\ InRound
          /\ p \notin changed => agentMode[p] = 1 /\ WithinSoc(Command[p], soc[p])

LEMMA LimitsStep == TypeOK /\ TypeOK' /\ LimitsInv /\ [Next]_vars => LimitsInv'
<1> SUFFICES ASSUME TypeOK, TypeOK', LimitsInv, [Next]_vars PROVE LimitsInv'
  OBVIOUS
<1>0. pcs \in Pcs /\ valid \in [Pcs -> BOOLEAN] /\ changed \subseteq Pcs
  BY DEF TypeOK
<1>1. CASE ReadCommand
  BY <1>1 DEF ReadCommand, LimitsInv, InRound
<1>2. CASE NoCommand
  BY <1>2 DEF NoCommand, LimitsInv, InRound
<1>3. CASE ReadSoc
  BY <1>3 DEF ReadSoc, LimitsInv, InRound, Command, readings
<1>4. CASE CheckMode
  <2>1. /\ pc = "mode" /\ pc' \in {"soc", "send"} /\ UNCHANGED <<soc, agentMode, placed, last, changed>>
        /\ valid' = [valid EXCEPT ![pcs] =
                        agentMode[pcs] = 1 /\ WithinSoc(Command[pcs], seen)]
    BY <1>0, <1>4, NextPcsMoves DEF CheckMode, readings
  <2>2. \A p \in Pcs : p # pcs => valid'[p] = valid[p]
    BY <1>0, <2>1
  <2>3. valid'[pcs] = (agentMode[pcs] = 1 /\ WithinSoc(Command[pcs], seen))
    BY <1>0, <2>1
  <2> QED
    BY <2>1, <2>2, <2>3 DEF LimitsInv, InRound, Command
<1>5. CASE Withhold \/ SendFails \/ Publish
  <2>1. NextSend /\ UNCHANGED <<soc, agentMode, placed, last>> /\ InRound
    BY <1>5 DEF Withhold, SendFails, Publish, readings, InRound
  <2>2. CASE pcs < NPcs
    <3>1. pc' = "send" /\ UNCHANGED <<valid, changed>>
      BY <1>0, <2>1, <2>2, NextPcsMoves DEF NextSend
    <3> QED
      BY <2>1, <3>1 DEF LimitsInv, InRound, Command
  <2>3. CASE ~(pcs < NPcs)
    <3>1. EndOfRound
      BY <2>1, <2>3 DEF NextSend
    <3> QED
      BY <3>1, EndOfRoundMoves DEF LimitsInv
  <2> QED
    BY <2>2, <2>3
<1>6. CASE ReadPv
  BY <1>6 DEF ReadPv, LimitsInv, InRound, Command, readings
<1>7. CASE ProtectMode \/ ProtectSoc \/ ProtectSend
  <2>1. pc' \notin {"mode", "publish"} /\ ~InRound /\ UNCHANGED valid
    <3>1. CASE ProtectMode
      BY <1>0, <3>1, NextPcsMoves DEF ProtectMode, InRound
    <3>2. CASE ProtectSoc
      BY <1>0, <3>2, NextPcsMoves DEF ProtectSoc, InRound
    <3>3. CASE ProtectSend
      BY <1>0, <3>3, NextPcsMoves DEF ProtectSend, InRound
    <3> QED
      BY <1>7, <3>1, <3>2, <3>3
  <2> QED
    BY <2>1 DEF LimitsInv
<1>8. CASE PlaceCommand
  <2>1. PICK powers \in [Pcs -> Powers] : placed' = Append(placed, powers)
    BY <1>8 DEF PlaceCommand
  <2>2. UNCHANGED <<soc, agentMode, loop, changed>>
    BY <1>8 DEF PlaceCommand
  <2>3. InRound => placed'[last] = placed[last]
    BY <2>1, DateOfRound, AppendProperties, LenProperties DEF TypeOK
  <2> QED
    BY <2>2, <2>3 DEF LimitsInv, InRound, Command, loop
<1>9. CASE HubReads
  <2>1. UNCHANGED <<agentMode, placed, loop>>
    BY <1>9 DEF HubReads, Writes
  <2>2. CASE UNCHANGED <<soc, changed>>
    BY <2>1, <2>2 DEF LimitsInv, InRound, Command, loop
  <2>3. CASE \E p \in Pcs, level \in SocLevels : soc' = [soc EXCEPT ![p] = level] /\ Noted(p)
    <3>1. PICK p \in Pcs, level \in SocLevels : soc' = [soc EXCEPT ![p] = level] /\ Noted(p)
      BY <2>3
    <3>2. \A q \in Pcs : q # p => soc'[q] = soc[q]
      BY <3>1 DEF TypeOK
    <3>3. changed \subseteq changed' /\ (InRound => p \in changed')
      BY <3>1 DEF Noted, InRound
    <3> QED
      BY <1>0, <2>1, <3>2, <3>3 DEF LimitsInv, InRound, Command, loop
  <2> QED
    BY <1>9, <2>2, <2>3 DEF HubReads
<1>10. ASSUME NEW p \in Keyed, SetKeyedMode(p) PROVE LimitsInv'
  <2>1. UNCHANGED <<soc, placed, loop>> /\ agentMode' = [agentMode EXCEPT ![p] = 1 - @]
    BY <1>10 DEF SetKeyedMode, Writes
  <2>2. \A q \in Pcs : q # p => agentMode'[q] = agentMode[q]
    BY <2>1 DEF TypeOK
  <2>3. changed \subseteq changed' /\ (InRound => p \in changed')
    BY <1>10 DEF SetKeyedMode, Noted, InRound
  <2> QED
    BY <1>0, <2>1, <2>2, <2>3 DEF LimitsInv, InRound, Command, loop
<1>11. CASE UNCHANGED vars \/ \E p \in Pcs : SetLocalRemoteStatus(p)
  <2>1. UNCHANGED <<soc, agentMode, placed, loop, changed>>
    BY <1>11 DEF vars, readings, SetLocalRemoteStatus, Writes
  <2> QED
    BY <2>1 DEF LimitsInv, InRound, Command, loop
<1>12. CASE RoundFails \/ Restart
  <2>1. EndOfRound
    BY <1>12 DEF RoundFails, Restart
  <2> QED
    BY <2>1, EndOfRoundMoves DEF LimitsInv
<1> QED
  BY <1>1, <1>2, <1>3, <1>4, <1>5, <1>6, <1>7, <1>8, <1>9, <1>10, <1>11, <1>12 DEF Next, Agent

\* A command is published only to a PCS that is in automatic mode and within
\* the limits, unless its readings have changed between check and publication.
THEOREM WithinLimits == Spec => SentWithinLimits
<1>1. Init => LimitsInv
  BY DEF Init, LimitsInv
<1>2. TypeOK /\ LimitsInv /\ [Next]_vars =>
          [\A p \in Pcs :
              (sent'[p] # sent[p] /\ p \notin changed) =>
                  /\ agentMode[p] = 1
                  /\ Command[p] > 0 => soc[p] \in {"below", "min", "inside"}
                  /\ Command[p] < 0 => soc[p] \in {"inside", "max"}]_vars
  <2> SUFFICES ASSUME TypeOK, LimitsInv, [Next]_vars, NEW p \in Pcs,
                      sent'[p] # sent[p], p \notin changed
               PROVE  /\ agentMode[p] = 1
                      /\ Command[p] > 0 => soc[p] \in {"below", "min", "inside"}
                      /\ Command[p] < 0 => soc[p] \in {"inside", "max"}
    OBVIOUS
  <2>1. Publish
    BY OnlyPublishSends
  <2>2. valid[p]
    BY <2>1, PublishSends DEF LimitsInv, Publish
  <2>3. agentMode[p] = 1 /\ WithinSoc(Command[p], soc[p])
    BY <2>2 DEF LimitsInv
  <2>4. soc[p] \in {"below", "min", "inside", "max", "unknown"}
    BY AgentAssumption DEF TypeOK
  <2> QED
    BY <2>3, <2>4 DEF WithinSoc, AtMax, AtMin
<1> QED
  BY <1>1, <1>2, TypeCorrect, LimitsStep, PTL DEF Spec, SentWithinLimits

=============================================================================
