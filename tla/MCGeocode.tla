----------------------------- MODULE MCGeocode ------------------------------
(* Instances of Geocode for TLC. *)
EXTENDS Geocode
=============================================================================
