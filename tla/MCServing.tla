------------------------------ MODULE MCServing ------------------------------
(***************************************************************************)
(* Three clients, two of them from one address, for two connections, one   *)
(* from each address, and one permit.                                      *)
(***************************************************************************)
EXTENDS Serving

CONSTANTS alice, bob, carol

MCIp(c) == IF c = carol THEN 2 ELSE 1
=============================================================================
