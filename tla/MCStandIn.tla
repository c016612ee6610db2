----------------------------- MODULE MCStandIn -----------------------------
EXTENDS StandInProperties

(* A line of each kind the stand-in tells apart.                           *)
MCStandInLines == {"CONN", "FWD", "STOP", "DISCONN", "PICTURE"}
=============================================================================
