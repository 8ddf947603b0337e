------------------------------ MODULE MCRelay ------------------------------
(* The clock is set once while callbacks come one at a time; two of them     *)
(* overlap by a clock that is left alone.                                    *)
EXTENDS Relay

CONSTANTS t1, t2

Launch(mode_, enable_delta_, workers_, syncs_) ==
  [mode |-> mode_, enable_delta |-> enable_delta_, workers |-> workers_, syncs |-> syncs_]

Default == Launch("compressed", TRUE, {t1, t2}, 0)

OneByOne == {Launch(m, delta, {t1}, 1) : m \in {"compressed", "raw"}, delta \in BOOLEAN}

MCLoads ==
  OneByOne \cup {Default, [Default EXCEPT !.mode = "raw", !.enable_delta = FALSE]}

AsLaunched == {Default}
=============================================================================
