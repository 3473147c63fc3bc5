-------------------------- MODULE AuditedLifecycle --------------------------
(***************************************************************************)
(* What the platform promises of a secret request, without handlers,       *)
(* transactions or messages: a status, an audit trail that only grows, and *)
(* at most one secret that is made for it.                                 *)
(***************************************************************************)
EXTENDS Sequences

CONSTANTS RequestId, Caller

VARIABLES
    status,     \* what GET /secret-requests/{id} shows
    trail,      \* what GET /secret-requests/{id}/events lists
    minted      \* the requests a secret was made for

vars == <<status, trail, minted>>

Entry(st, actor) == [status |-> st, actor |-> actor]

Init ==
    /\ status = [r \in RequestId |-> "ABSENT"]
    /\ trail = [r \in RequestId |-> <<>>]
    /\ minted = {}

Move(r, from, to, entries) ==
    /\ status[r] = from
    /\ status' = [status EXCEPT ![r] = to]
    /\ trail' = [trail EXCEPT ![r] = @ \o entries]
    /\ UNCHANGED minted

Open(r, c) == Move(r, "ABSENT", "PENDING", <<Entry("PENDING", c)>>)

\* Approval and the start of provisioning are one step to every reader.
Approve(r, c) ==
    Move(r, "PENDING", "PROVISIONING",
         <<Entry("APPROVED", c), Entry("PROVISIONING", "system")>>)

\* The secret appears while the request is being provisioned, or after the
\* platform gave up waiting for it.
Mint(r) ==
    /\ status[r] \in {"PROVISIONING", "FAILED"}
    /\ r \notin minted
    /\ minted' = minted \cup {r}
    /\ UNCHANGED <<status, trail>>

Succeed(r) ==
    /\ r \in minted
    /\ Move(r, "PROVISIONING", "PROVISIONED", <<Entry("PROVISIONED", "system")>>)

Fail(r) == Move(r, "PROVISIONING", "FAILED", <<Entry("FAILED", "system")>>)

Next ==
    \E r \in RequestId :
        \/ \E c \in Caller : Open(r, c) \/ Approve(r, c)
        \/ Mint(r) \/ Succeed(r) \/ Fail(r)

Spec == Init /\ [][Next]_vars
=============================================================================
