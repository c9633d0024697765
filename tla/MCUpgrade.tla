----------------------------- MODULE MCUpgrade -----------------------------
(* Images for TLC: "2.1" is a patch release of "2.0". *)
EXTENDS Upgrade

MCMinorVersion(i) == CASE i = "1.0" -> 1 [] i \in {"2.0", "2.1"} -> 2 [] i = "3.0" -> 3
=============================================================================
