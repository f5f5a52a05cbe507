------------------------------ MODULE MCChBidir ------------------------------
(* Small sessions over ChBidir: every pattern of at most SessionLen calls   *)
(* after the start of the server, the server restarted at most once.        *)
EXTENDS ChBidir, FiniteSets

CONSTANT SessionLen

MCPlans ==
    LET Starts == {"init", "race"}
        Restarts(p) == {k \in 2 .. Len(p) : p[k] \in Starts}
    IN  {p \in UNION {[1 .. n -> Link!Kinds] : n \in 2 .. SessionLen} :
            p[1] \in Starts /\ Cardinality(Restarts(p)) <= 1}
=============================================================================
