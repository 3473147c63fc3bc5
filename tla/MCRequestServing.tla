-------------------------- MODULE MCRequestServing --------------------------
(* RequestServing with a few slots; the handlers that differ in what they hold. *)
EXTENDS RequestServing

CONSTANTS r1, r2

TwoRequests == {r1, r2}
Handlers == {"readyz", "summary", "approve"}
=============================================================================
