--------------------------- MODULE MCCoordination ---------------------------
(* Small instances of Coordination for TLC. *)
EXTENDS Coordination, TLC

CONSTANTS boss, hand

Down == {<<boss, hand>>}

Metre(rate) == [directives |-> TRUE, reports |-> FALSE, mode |-> "rate_limit", rate |-> rate]

Approve == [directives |-> TRUE, reports |-> FALSE, mode |-> "approve", rate |-> 0]

Policies == {Metre(0), Metre(1), Approve}
=============================================================================
