---------------------------- MODULE CommandAgent ----------------------------
(***************************************************************************)
(* The ETRI command agent (EtriCommandAgent/Worker).  The energy manager   *)
(* puts a dated command, a power for every PCS, in a database view; the    *)
(* agent's loop takes each date once, checks PCS after PCS that the state  *)
(* of charge allows its power and that the PCS is in automatic mode, and   *)
(* publishes what is left of the power after the PV limit.  Between dates  *)
(* it protects the batteries whose charge is too low.                      *)
(*                                                                         *)
(* Every await is a step: the readings in redis, which the hub writes, may *)
(* change between two of them.                                             *)
(***************************************************************************)
EXTENDS Integers, Sequences

CONSTANTS
    NPcs,         \* PCSs, numbered from 1 (4 in the code)
    Powers,       \* the powers a command may ask of a PCS (> 0 discharges)
    SocLevels,    \* the states of charge considered
    PvPowers,     \* the values of ID_POWER considered
    Keyed,        \* the PCSs whose JeJuGridPcs{n} hash some program writes
    MaxCommands,  \* bound: commands placed
    MaxWrites,    \* bound: changes of the readings
    MaxFaults,    \* bound: exceptions
    MaxCrashes    \* bound: restarts

ASSUME AgentAssumption ==
    /\ NPcs \in Nat \ {0}
    /\ \A power \in Powers \cup PvPowers : power \in Int /\ -200 <= power /\ power <= 200
    /\ Keyed \subseteq 1..NPcs
    /\ SocLevels \subseteq {"below", "min", "inside", "max", "unknown"}
    /\ MaxCommands \in Nat

VARIABLES
    placed,       \* the commands placed so far; the view shows the last one, dated Len(placed)
    soc,          \* hash 6.JeJuGridPcs{n}: bms_soc, beside socMn and socMx
    pv,           \* hash 6.JeJuGridPcs1: ID_POWER
    hubMode,      \* hash 6.JeJuGridPcs{n}: LocalRemote, where the hub keeps it
    agentMode,    \* hash JeJuGridPcs{n}: LocalRemote, where the agent looks for it
    last,         \* LastReadingCommandDate; 0 is its default
    pc,           \* the await the loop stands at
    pcs,          \* the PCS at hand
    seen,         \* the state of charge read for it
    pvSeen,       \* pv_power, the PV power read for it
    valid,        \* ValidSocs
    out,          \* out[p]: the last message to PCS p
    sent,         \* history: sent[p][d], how often command d was published to p
    cut,          \* history: commands whose handling an exception or a restart cut
    changed,      \* history: PCSs whose charge or mode changed in this round
    writes, faults, crashes

readings == <<placed, soc, pv, hubMode, agentMode, writes>>
history == <<out, sent, cut>>
loop == <<last, pc, pcs, seen, pvSeen, valid>>
vars == <<readings, loop, history, changed, faults, crashes>>

Pcs == 1..NPcs
Dates == 1..MaxCommands
Command == placed[last]

\* Mutant: the negative power is not brought into the word.
Word_Short(power) == power * 10

\* The register word for a power: (ushort)(power * 10).
Word(power) == (power * 10) % 65536

\* What the PCS makes of the word: a signed 16-bit number.
Signed(word) == IF word < 32768 THEN word ELSE word - 65536

AtMax(level) == level \in {"max", "unknown"}           \* soc >= soc_max; all three missing read 0
AtMin(level) == level \in {"below", "min", "unknown"}  \* soc <= soc_min

\* Mutant: the charge is only compared with its maximum.
WithinSoc_MaxOnly(power, level) == ~(power > 0 /\ AtMax(level))

\* ValidatingSOC: the power is one the state of charge allows.
WithinSoc(power, level) ==
    /\ ~(power > 0 /\ AtMax(level))
    /\ ~(power < 0 /\ AtMin(level))

Smaller(a, b) == IF a <= b THEN a ELSE b
Larger(a, b) == IF a <= b THEN b ELSE a

\* Mutant: the PV power is not negated for a charge.
ValidatingPV_Sign(power, pvPower) ==
    IF power > 0 THEN Smaller(power, 94 - pvPower)
    ELSE IF power < 0 THEN Larger(power, pvPower) ELSE 0

\* ValidatingPV: a discharge leaves room for the PV power below 94, a charge
\* takes no more than the PV gives.
ValidatingPV(power, pvPower) ==
    IF power > 0 THEN Smaller(power, 94 - pvPower)
    ELSE IF power < 0 THEN Larger(power, -pvPower) ELSE 0

Words == {word \in Nat : word < 65536}
Message == [word : Words, for : {"none", "command", "protection"},
            date : 0..MaxCommands, pv : PvPowers \cup {0}]
Silence == [word |-> 0, for |-> "none", date |-> 0, pv |-> 0]

Init ==
    /\ placed = <<>>
    /\ soc \in [Pcs -> SocLevels]
    /\ pv \in PvPowers
    /\ hubMode = [p \in Pcs |-> 0]
    /\ agentMode \in [Pcs -> {0, 1}] /\ \A p \in Pcs : p \notin Keyed => agentMode[p] = 0
    /\ last = 0
    /\ pc = "read" /\ pcs = 1
    /\ seen = "none" /\ pvSeen = 0
    /\ valid = [p \in Pcs |-> FALSE]
    /\ out = [p \in Pcs |-> Silence]
    /\ sent = [p \in Pcs |-> [d \in Dates |-> 0]]
    /\ cut = {} /\ changed = {}
    /\ writes = 0 /\ faults = 0 /\ crashes = 0

-----------------------------------------------------------------------------
(* The energy manager and the hub.                                         *)

PlaceCommand ==
    /\ Len(placed) < MaxCommands
    /\ \E powers \in [Pcs -> Powers] : placed' = Append(placed, powers)
    /\ UNCHANGED <<soc, pv, hubMode, agentMode, writes, loop, history, changed, faults, crashes>>

Writes ==
    /\ writes < MaxWrites
    /\ writes' = writes + 1
    /\ UNCHANGED <<placed, loop, history, faults, crashes>>

Noted(p) ==
    changed' = IF pc \in {"soc", "mode", "send", "publish"} THEN changed \cup {p} ELSE changed

\* The hub's poll: a state of charge, or the PV power.
HubReads ==
    /\ Writes
    /\ \/ \E p \in Pcs, level \in SocLevels :
              /\ level # soc[p]
              /\ soc' = [soc EXCEPT ![p] = level]
              /\ Noted(p)
              /\ UNCHANGED pv
       \/ pv' \in PvPowers \ {pv} /\ UNCHANGED <<soc, changed>>
    /\ UNCHANGED <<hubMode, agentMode>>

\* DeviceController.SetLocalRemoteStatus.
SetLocalRemoteStatus(p) ==
    /\ Writes
    /\ hubMode' = [hubMode EXCEPT ![p] = 1 - @]
    /\ UNCHANGED <<soc, pv, agentMode, changed>>

\* The mode in the other hash, which nothing in the repository writes.
SetKeyedMode(p) ==
    /\ Writes
    /\ agentMode' = [agentMode EXCEPT ![p] = 1 - @]
    /\ Noted(p)
    /\ UNCHANGED <<soc, pv, hubMode>>

-----------------------------------------------------------------------------
(* The loop.                                                               *)

\* What a reading leaves in local variables is gone with the PCS it was read
\* for, and ValidSocs with the round.
NextPcs(at, after) ==
    /\ IF pcs < NPcs THEN pcs' = pcs + 1 /\ pc' = at ELSE pcs' = 1 /\ pc' = after
    /\ seen' = "none" /\ pvSeen' = 0

EndOfRound ==
    /\ pcs' = 1 /\ pc' = "read"
    /\ seen' = "none" /\ pvSeen' = 0
    /\ valid' = [p \in Pcs |-> FALSE] /\ changed' = {}

\* ... on to the next PCS of the sending loop, or to the end of the round.
NextSend == IF pcs < NPcs THEN NextPcs("send", "read") /\ UNCHANGED <<valid, changed>>
                          ELSE EndOfRound

\* Mutant: the date is not compared.
ReadCommand_AnyDate ==
    /\ pc = "read" /\ Len(placed) > 0
    /\ last' = Len(placed)
    /\ pc' = "soc"
    /\ UNCHANGED <<readings, pcs, seen, pvSeen, valid, history, changed, faults, crashes>>

\* Mutant: any row of the command table, not the current one.
ReadCommand_AnyRow ==
    /\ pc = "read"
    /\ \E d \in 1..Len(placed) : d # last /\ last' = d
    /\ pc' = "soc"
    /\ UNCHANGED <<readings, pcs, seen, pvSeen, valid, history, changed, faults, crashes>>

\* A new command: its date is kept before anything is done about it.
ReadCommand ==
    /\ pc = "read" /\ Len(placed) # last
    /\ last' = Len(placed)
    /\ pc' = "soc"
    /\ UNCHANGED <<readings, pcs, seen, pvSeen, valid, history, changed, faults, crashes>>

\* No command, or the one handled already: SOCProtectFunction.
NoCommand ==
    /\ pc = "read" /\ Len(placed) = last
    /\ pc' = "protect"
    /\ UNCHANGED <<readings, last, pcs, seen, pvSeen, valid, history, changed, faults, crashes>>

\* ValidatingSOC reads the state of charge first ...
ReadSoc ==
    /\ pc = "soc"
    /\ seen' = soc[pcs]
    /\ pc' = "mode"
    /\ UNCHANGED <<readings, last, pcs, pvSeen, valid, history, changed, faults, crashes>>

\* ... and then the mode.
CheckMode ==
    /\ pc = "mode"
    /\ valid' = [valid EXCEPT ![pcs] = agentMode[pcs] = 1 /\ WithinSoc(Command[pcs], seen)]
    /\ NextPcs("soc", "send")
    /\ UNCHANGED <<readings, last, history, changed, faults, crashes>>

\* SendCommandWhenOK, not OK.
Withhold ==
    /\ pc = "send" /\ ~valid[pcs]
    /\ NextSend
    /\ UNCHANGED <<readings, last, history, faults, crashes>>

\* ... OK: the PV power of PCS 1, whatever the PCS.
ReadPv ==
    /\ pc = "send" /\ valid[pcs]
    /\ pvSeen' = pv
    /\ pc' = "publish"
    /\ UNCHANGED <<readings, last, pcs, seen, valid, history, changed, faults, crashes>>

\* Mutant: the first command that is sent ends the round.
Publish_OnlyFirst ==
    /\ pc = "publish"
    /\ out' = [out EXCEPT ![pcs] = [word |-> Word(ValidatingPV(Command[pcs], pvSeen)),
                                    for |-> "command", date |-> last, pv |-> pvSeen]]
    /\ sent' = [sent EXCEPT ![pcs][last] = @ + 1]
    /\ EndOfRound
    /\ UNCHANGED <<readings, last, cut, faults, crashes>>

Publish ==
    /\ pc = "publish"
    /\ out' = [out EXCEPT ![pcs] = [word |-> Word(ValidatingPV(Command[pcs], pvSeen)),
                                    for |-> "command", date |-> last, pv |-> pvSeen]]
    /\ sent' = [sent EXCEPT ![pcs][last] = @ + 1]
    /\ NextSend
    /\ UNCHANGED <<readings, last, cut, faults, crashes>>

\* SOCProtectFunction looks at the mode first.
ProtectMode ==
    /\ pc = "protect"
    /\ IF agentMode[pcs] = 1 THEN pc' = "protectSoc" /\ UNCHANGED <<pcs, seen, pvSeen>>
                             ELSE NextPcs("protect", "read")
    /\ UNCHANGED <<readings, last, valid, history, changed, faults, crashes>>

ProtectSoc ==
    /\ pc = "protectSoc"
    /\ IF soc[pcs] = "below" THEN pc' = "force" /\ UNCHANGED <<pcs, seen, pvSeen>>
                             ELSE NextPcs("protect", "read")
    /\ UNCHANGED <<readings, last, valid, history, changed, faults, crashes>>

\* The forced command is the word 10.
ProtectSend ==
    /\ pc = "force"
    /\ out' = [out EXCEPT ![pcs] = [word |-> 10, for |-> "protection", date |-> 0, pv |-> 0]]
    /\ NextPcs("protect", "read")
    /\ UNCHANGED <<readings, last, valid, sent, cut, changed, faults, crashes>>

-----------------------------------------------------------------------------
(* Faults.                                                                 *)

\* SendCommandWhenOK catches its own exceptions: the next PCS has its turn.
SendFails ==
    /\ pc = "publish" \/ (pc = "send" /\ valid[pcs])
    /\ faults < MaxFaults
    /\ faults' = faults + 1
    /\ cut' = cut \cup {last}
    /\ NextSend
    /\ UNCHANGED <<readings, last, out, sent, crashes>>

\* Any other exception ends the round; the date is not put back.
RoundFails ==
    /\ pc \in {"soc", "mode", "protect", "protectSoc", "force"}
    /\ faults < MaxFaults
    /\ faults' = faults + 1
    /\ cut' = IF pc \in {"soc", "mode"} THEN cut \cup {last} ELSE cut
    /\ EndOfRound
    /\ UNCHANGED <<readings, last, out, sent, crashes>>

\* The process starts again; the date of the last command is not kept anywhere.
Restart ==
    /\ crashes < MaxCrashes
    /\ crashes' = crashes + 1
    /\ last' = 0
    /\ EndOfRound
    /\ cut' = IF pc \in {"soc", "mode", "send", "publish"} THEN cut \cup {last} ELSE cut
    /\ UNCHANGED <<readings, out, sent, faults>>

-----------------------------------------------------------------------------
Agent ==
    \/ ReadCommand
    \/ NoCommand
    \/ ReadSoc
    \/ CheckMode
    \/ Withhold
    \/ ReadPv
    \/ Publish
    \/ ProtectMode
    \/ ProtectSoc
    \/ ProtectSend

Next ==
    \/ Agent
    \/ PlaceCommand
    \/ HubReads
    \/ \E p \in Pcs : SetLocalRemoteStatus(p)
    \/ \E p \in Keyed : SetKeyedMode(p)
    \/ SendFails
    \/ RoundFails
    \/ Restart

Spec == Init /\ [][Next]_vars

\* The loop's steps are taken.
FairSpec == Spec /\ WF_vars(Agent)

-----------------------------------------------------------------------------
(* Properties.                                                             *)

\* Types, and where the loop's index and date stand.
TypeOK ==
    /\ placed \in Seq([Pcs -> Powers]) /\ Len(placed) <= MaxCommands
    /\ soc \in [Pcs -> SocLevels]
    /\ pv \in PvPowers /\ pvSeen \in PvPowers \cup {0}
    /\ hubMode \in [Pcs -> {0, 1}] /\ agentMode \in [Pcs -> {0, 1}]
    /\ last \in 0..Len(placed)
    /\ pc \in {"read", "soc", "mode", "send", "publish", "protect", "protectSoc", "force"}
    /\ pc \in {"soc", "mode", "send", "publish"} => last > 0
    /\ pcs \in Pcs
    /\ seen \in SocLevels \cup {"none"}
    /\ valid \in [Pcs -> BOOLEAN]
    /\ out \in [Pcs -> Message]
    /\ sent \in [Pcs -> [Dates -> Nat]]
    /\ cut \subseteq Dates /\ changed \subseteq Pcs
    /\ writes \in Nat /\ faults \in Nat /\ crashes \in Nat

\* A command is published to a PCS once in a life of the process, though its
\* row stays in the view: it is only repeated after a restart.
SentOncePerLife == \A p \in Pcs, d \in Dates : sent[p][d] <= 1 + crashes

\* A PCS never gets an older command after a newer one, whatever is placed
\* while a round is under way and whenever the agent is restarted.
CommandsInOrder ==
    [][\A p \in Pcs :
          (sent'[p] # sent[p]) => \A d \in Dates : sent[p][d] > 0 => d <= out'[p].date]_vars

\* The word a PCS receives never asks for more than the command did, nor for
\* the other direction, as long as the PV power read is between 0 and the 94
\* the agent reckons with: neither the limits nor the 16-bit conversion turn it.
DirectionKept ==
    \A p \in Pcs :
        out[p].for = "command" /\ out[p].pv \in 0..94 =>
            LET power == placed[out[p].date][p]
                received == Signed(out[p].word)
            IN  /\ power >= 0 => 0 <= received /\ received <= 10 * power
                /\ power <= 0 => 10 * power <= received /\ received <= 0

\* A command is published only to a PCS that is in automatic mode and whose
\* charge is not at the limit the code gives its direction, unless the mode or
\* the charge has changed between the check and the publication.
SentWithinLimits ==
    [][\A p \in Pcs :
          (sent'[p] # sent[p] /\ p \notin changed) =>
              /\ agentMode[p] = 1
              /\ Command[p] > 0 => soc[p] \in {"below", "min", "inside"}
              /\ Command[p] < 0 => soc[p] \in {"inside", "max"}]_vars

\* A command that is the last one placed is published to each PCS that can take
\* it as long as it is the last one, unless an exception or a restart cuts it.
CommandArrives ==
    \A p \in Pcs, d \in Dates :
        /\ <>[](Len(placed) = d)
        /\ [](Len(placed) = d => agentMode[p] = 1 /\ soc[p] = "inside")
        => <>(sent[p][d] > 0 \/ d \in cut)

\* "SOC protection runs when there is no control command": a PCS which is left
\* in automatic mode with its charge too low gets the protection's command.
ProtectionRuns ==
    \A p \in Pcs :
        <>[](hubMode[p] = 1 /\ soc[p] = "below") => <>(out[p].for = "protection")

\* "Forces a charge command": what the protection sends is a charge, the
\* direction of the powers below 0.
ProtectionCharges ==
    \A p \in Pcs : out[p].for = "protection" => Signed(out[p].word) < 0

=============================================================================
