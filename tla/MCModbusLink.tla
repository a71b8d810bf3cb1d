---------------------------- MODULE MCModbusLink ----------------------------
(***************************************************************************)
(* The two pollers of one hub, which reconnect once before each use.  Each *)
(* call makes TryCount + 2 attempts at most: with 0 for the parameter, two *)
(* of the five that the pollers make.                                      *)
(***************************************************************************)
EXTENDS ModbusLink

Pollers == {"alarm", "analog"}
MCKind == [c \in Pollers |-> c]
MCReconnects == [c \in Pollers |-> 1]
MCTryCount == [c \in Pollers |-> 0]

=============================================================================
