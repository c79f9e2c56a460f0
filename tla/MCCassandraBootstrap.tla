------------------------ MODULE MCCassandraBootstrap ------------------------
(* Small instances of the bootstrap: of two pods, one meets faults all the *)
(* time and the other may not count on it.                                 *)
EXTENDS CassandraBootstrap, TLC
=============================================================================
