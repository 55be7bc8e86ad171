--------------------------- MODULE MCRadioDaemon ---------------------------
(* Values of the constants of RadioDaemon for TLC. *)
EXTENDS RadioDaemon

Good == [good |-> TRUE, empty |-> FALSE]
Bad == [good |-> FALSE, empty |-> FALSE]
Blank == [good |-> TRUE, empty |-> TRUE]

Conf(reset, dio0, repeat, tx) ==
  [reset |-> reset, dio0 |-> dio0, repeat |-> repeat, probe |-> FALSE, tx |-> tx]
Probe == [Conf(TRUE, FALSE, FALSE, "none") EXCEPT !.probe = TRUE]

MCKinds == {Good, Bad, Blank}
MCConfs ==
  {Conf(FALSE, TRUE, r, "none") : r \in BOOLEAN}
    \union {Conf(FALSE, FALSE, FALSE, "none"), Conf(TRUE, FALSE, TRUE, "fits"), Conf(FALSE, TRUE, FALSE, "long"), Probe}
=============================================================================
