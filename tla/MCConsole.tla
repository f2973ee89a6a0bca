------------------------------ MODULE MCConsole ------------------------------
(* Console on small instances.                                             *)
EXTENDS Console, TLC

CONSTANTS ann, bob, home, away, c1, c2, r1, r2

(* Each operator has a tenant of its own, as seeded.                       *)
MCProfiles == {<<ann, home>>, <<bob, away>>}

(* Requests, as deliveries, differ by what they do alone.                  *)
ConsoleSymmetry == Permutations({c1, c2}) \cup Permutations({r1, r2})
=============================================================================
