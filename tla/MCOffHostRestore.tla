-------------------------- MODULE MCOffHostRestore --------------------------
(* Small instances of the off-host restore: two runs on one workstation or *)
(* two, with one name or two, and one backup of each kind.                 *)
EXTENDS OffHostRestore, TLC

CONSTANTS r1, w1, n1

\* Workstations and names are alike, so that the first run may as well have
\* the first of each.
SmallInit == Init /\ place[r1] = w1 /\ name[r1] = n1
SmallSpec == SmallInit /\ [][Next]_vars /\ Fairness
=============================================================================
