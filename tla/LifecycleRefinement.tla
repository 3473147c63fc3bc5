------------------------ MODULE LifecycleRefinement -------------------------
(* SecretRequestLifecycle implements AuditedLifecycle. *)
EXTENDS SecretRequestLifecycle

\* ORDER BY timestamp, seq over the events T: the event in each place.
Place(T, e) == Cardinality({f \in T : EventBefore(f, e)}) + 1
Listed(T, i) == CHOOSE e \in {f \in T : Place(T, f) = i} : TRUE
Listing(T) ==
    [i \in 1 .. Cardinality(T) |->
        [status |-> Listed(T, i).status, actor |-> Listed(T, i).actor]]

\* GET /secret-requests/{id}/events: the committed events, as far as a reader
\* sees them.
ListForRequest(r) == Listing(Trail(r))

Audited == INSTANCE AuditedLifecycle WITH
    Caller <- Session,
    status <- [r \in RequestId |-> rows[r].status],
    trail  <- [r \in RequestId |-> ListForRequest(r)],
    minted <- {m.for : m \in secrets}

\* Seen through the API and Secrets Manager, every run of the handlers is a run
\* of AuditedLifecycle: statuses only move along the table, the event list only
\* grows at its end, approval and start of provisioning appear together, one
\* secret at most is made, and none for a request nobody approved.
ImplementsAuditedLifecycle == Audited!Spec
=============================================================================
