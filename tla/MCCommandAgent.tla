--------------------------- MODULE MCCommandAgent ---------------------------
(***************************************************************************)
(* Powers of a command: one more than the PV limit leaves (60 of 94 - 50), *)
(* one more than the PV gives (-60 of 50).                                 *)
(***************************************************************************)
EXTENDS CommandAgent

MCPowers == {-60, 60}

=============================================================================
