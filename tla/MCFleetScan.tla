------------------------------ MODULE MCFleetScan ------------------------------
(* TLC instance of FleetScan: two rules of one control, the first of which   *)
(* needs root and is excluded on the first host.                             *)
EXTENDS FleetScan

CONSTANTS h1, h2, r1, r2, c1

MCRefOf == [r \in Rule |-> c1]
MCIgnored == {<<h1, r1>>}
=============================================================================
