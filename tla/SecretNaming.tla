---------------------------- MODULE SecretNaming ----------------------------
(***************************************************************************)
(* The services of the catalog, whose names anybody chooses, and the names *)
(* that compliant requests for them give their secrets.                    *)
(***************************************************************************)
EXTENDS ServiceCatalog, RiskChecks

CONSTANT LogicalName

ASSUME NamesAreSpelled == Name \subseteq Seq(Char) /\ LogicalName \subseteq Seq(Char)

\* What is asked for a service, and passes the naming check.
Asked == {q \in Environment \X LogicalName : Compliant(q[2], q[1])}

SecretsOf(u) == {SecretName(u.name, q[1], q[2]) : q \in Asked}

\* A service that is registered shares no secret name with those that were there,
\* as far as requests go that pass the naming check: the slashes that a service's
\* name may have confuse nobody as long as what comes behind has none, and the
\* catalog never takes a name twice.
RegistrationsConfuseNothing ==
    [][\A v \in services' \ services : \A u \in services : SecretsOf(u) \cap SecretsOf(v) = {}]_vars
=============================================================================
