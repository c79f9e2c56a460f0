---------------------------- MODULE MCLocalBackup ----------------------------
(* Two backups, two restores and two uploads among one db:up and one db:down. *)
EXTENDS LocalBackup, FiniteSets, Naturals, TLC

CONSTANTS b1, b2, r1, r2, u1, u2, p1, d1

Symmetry ==
    Permutations({b1, b2}) \cup Permutations({r1, r2}) \cup Permutations({u1, u2})

\* An upload begins beside at most four other runs, the second one included:
\* uploads change nothing that the other runs read.
Bound ==
    LET begun == {o \in Runs : pc[o] # Beginning(o)} IN
    Uploads \cap begun # {} => Cardinality(begun) <= 5
=============================================================================
