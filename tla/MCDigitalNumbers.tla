-------------------------- MODULE MCDigitalNumbers --------------------------
(***************************************************************************)
(* The flags of register "bat" (40132) as shipped: their numbers run from  *)
(* 1 to 12, and 1 is the first digit of 10, 11 and 12.  Flags 1 and 10     *)
(* stand for them.                                                         *)
(***************************************************************************)
EXTENDS DigitalEvents

MCFlags == {"f1", "f10"}
MCDigits == [f \in MCFlags |-> IF f = "f1" THEN <<4, 0, 1, 3, 2, 1>>
                                              ELSE <<4, 0, 1, 3, 2, 1, 0>>]
MCMaps == {"bat"}
MCGroups == <<<<"bat">>>>
MCFlagSeq == [m \in MCMaps |-> <<"f1", "f10">>]

=============================================================================
