---------------------- MODULE MCSecretRequestLifecycle ----------------------
(* SecretRequestLifecycle and its refinement on small instances. *)
EXTENDS LifecycleRefinement, TLC

CONSTANTS s1, s2, s3, r1, r2

MCSession == {s1, s2}
MCRequestId == {r1, r2}

\* Two services whose requests may ask for one name, platform/pay/dev/dev/key,
\* and one that is not registered.
MCCatalog == {"pay", "pay-dev"}
MCServiceName == [n \in MCCatalog |-> IF n = "pay" THEN <<"pay">> ELSE <<"pay", "dev">>]
PayKey == [service |-> "pay", environment |-> "dev", logical_name |-> <<"dev", "key">>]
PayDevKey == [service |-> "pay-dev", environment |-> "dev", logical_name |-> <<"key">>]
UnknownKey == [service |-> "gone", environment |-> "dev", logical_name |-> <<"key">>]
MCTuple == {PayKey, PayDevKey, UnknownKey}

\* One tuple is enough where requests only wait for each other's locks.
OneTuple == {PayKey}
OneRequestId == {r1}
ThreeSessions == {s1, s2, s3}

\* Sessions and keys are only ever compared.
RacesSymmetry == Permutations(ThreeSessions)
NamesSymmetry == Permutations(MCSession) \cup Permutations(MCRequestId)
=============================================================================
