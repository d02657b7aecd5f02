------------------------------- MODULE MCHost -------------------------------
(* Host for TLC: a service that answers both methods, and one that, as those *)
(* in src/dllib do, answers GET only.                                        *)
EXTENDS Host, TLC

CONSTANTS both, getonly

TwoServices == {both, getonly}
SomeExports == both :> {"get", "post"} @@ getonly :> {"get"}
=============================================================================
