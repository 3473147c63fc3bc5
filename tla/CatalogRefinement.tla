------------------------- MODULE CatalogRefinement --------------------------
(* ServiceCatalog implements NameRegistry. *)
EXTENDS ServiceCatalog

Registry == INSTANCE NameRegistry WITH
    taken  <- {v.name : v \in services},
    wanted <- [h \in Handler |-> IF pc[h] = "idle" THEN None ELSE draft[h].name],
    won    <- {h \in Handler : pc[h] = "committed"},
    told   <- answer

\* Seen by its callers, create_service is atomic although it checks, inserts and
\* commits in three steps and any of its statements may fail: a name is taken by
\* one call, while that call is under way, no other call for it is ever answered
\* 201, however long ago the winner was answered and with whatever, and a call
\* whose name is taken by another meanwhile takes nothing.
ImplementsNameRegistry == Registry!Spec
=============================================================================
