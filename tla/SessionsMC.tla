------------------------------ MODULE SessionsMC ------------------------------
(* Model values and definitions for the run of Sessions. *)
EXTENDS Sessions

CONSTANTS u, v, s1, s2, s3, r1, r2, i, j

(* Two sessions and two resets of u, and a session of v that they leave alone. *)
MCLoginOf == [s \in Logins |-> IF s = s3 THEN v ELSE u]
MCResetOf == [r \in Resets |-> u]
=============================================================================
