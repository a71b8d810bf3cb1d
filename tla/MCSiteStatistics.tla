-------------------------- MODULE MCSiteStatistics --------------------------
(***************************************************************************)
(* Measurements: charging, discharging, at rest, without Pcs or Pv, and    *)
(* some without one of the PV powers.  Three measurements are divided      *)
(* twice at most, so powers are multiples of 4 where an hour has 2.        *)
(***************************************************************************)
EXTENDS SiteStatistics

Of(site, status, power, total, energy) ==
    [site |-> site, reading |-> [status |-> status, power |-> power, total |-> total, energy |-> energy]]

MCDocuments == {
    Of(1, 4, 4, 8, NaN), Of(1, 5, 8, NaN, 4), Of(2, 1, 4, 4, 8),
    [site |-> 2, reading |-> Bare] }

=============================================================================
