--------------------------- MODULE MCDigitalEvents ---------------------------
(***************************************************************************)
(* A small hub: two groups.  Group 1 is register "bat" (40133) with flags  *)
(* No 13 and 14, of which only 13 has an event code; group 2 is register   *)
(* "ctl" (40181), whose Level is 0, with flag No 29, and register "pcs"    *)
(* (40182) with flag No 39.                                                *)
(***************************************************************************)
EXTENDS DigitalEvents

MCFlags == {"f13", "f14", "f29", "f39"}
MCDigits == [f \in MCFlags |-> CASE f = "f13" -> <<4, 0, 1, 3, 3, 1, 3>>
                                 [] f = "f14" -> <<4, 0, 1, 3, 3, 1, 4>>
                                 [] f = "f29" -> <<4, 0, 1, 8, 1, 2, 9>>
                                 [] OTHER -> <<4, 0, 1, 8, 2, 3, 9>>]
MCMaps == {"bat", "ctl", "pcs"}
MCGroups == <<<<"bat">>, <<"ctl", "pcs">>>>
MCFlagSeq == [m \in MCMaps |-> CASE m = "bat" -> <<"f13", "f14">>
                                 [] m = "ctl" -> <<"f29">>
                                 [] OTHER -> <<"f39">>]

=============================================================================
