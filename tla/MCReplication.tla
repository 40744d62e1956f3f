---------------------------- MODULE MCReplication ----------------------------
(* Instances of the replication for TLC. *)
EXTENDS Replication, TLC

CONSTANTS s1, s2, s3, t1, t2

Trio == {s1, s2, s3}
OneTable == {t1}
OneMore == {t2}

\* A table, the other one, both, or none that has a version.
Changes4 == {{t1}, {t2}, {t1, t2, Admin}, {Admin}}

\* The more transactions, the less goes wrong: beside the third one, in quorum mode,
\* or the second one in group mode, one service stops at most and one fault happens.
Few ==
  LET load == next - 1 + If(mode = "GROUP")
  IN  load <= 3 /\ (load = 3 => stops <= 1 /\ faults <= 1)

\* The services are interchangeable.
Symm == Permutations(Node)
=============================================================================
