------------------------------ MODULE MCBucket ------------------------------
(* The instances of the bucket TLC checks. *)
EXTENDS Bucket

CONSTANTS k1, k2

(* Once data was lost in a known way the properties say nothing more.  One *)
(* key is put at most once, so that segments may differ in their keys.     *)
Explored ==
  /\ ~mishap
  /\ \A m, n \in DOMAIN written : written[m].key = k2 => ~written[m].dead /\ (written[n].key = k2 => m = n)
=============================================================================
