---------------------------- MODULE NameRegistry ----------------------------
(***************************************************************************)
(* What the catalog promises of names, without transactions: a name is     *)
(* taken once, in one step between a call and its answer, and nobody but   *)
(* the call that took it is told so.  An error tells a caller nothing: it  *)
(* may be the answer to a call that took its name, or that never began.    *)
(***************************************************************************)
CONSTANTS Handler, Name, None

VARIABLES
    taken,      \* the names of GET /services
    wanted,     \* the name a call is about, None between calls
    won,        \* the calls whose name was taken for them
    told        \* the last answer of a handler and the name it tells of

vars == <<taken, wanted, won, told>>

Init ==
    /\ taken = {}
    /\ wanted = [h \in Handler |-> None]
    /\ won = {}
    /\ told = [h \in Handler |-> [code |-> "none", about |-> None]]

Begin(h) ==
    /\ wanted[h] = None
    /\ UNCHANGED won
    /\ told' = [told EXCEPT ![h] = [code |-> "none", about |-> None]]
    /\ \E n \in Name \ taken : wanted' = [wanted EXCEPT ![h] = n]
    /\ UNCHANGED taken

\* Only a name that nobody has can be won.
Win(h) ==
    /\ wanted[h] # None
    /\ h \notin won
    /\ won' = won \cup {h}
    /\ wanted[h] \notin taken
    /\ taken' = taken \cup {wanted[h]}
    /\ UNCHANGED <<wanted, told>>

End(h, code, about) ==
    /\ told' = [told EXCEPT ![h] = [code |-> code, about |-> about]]
    /\ wanted' = [wanted EXCEPT ![h] = None]
    /\ won' = won \ {h}
    /\ UNCHANGED taken

\* 201 is the answer of the call that took the name, and of no other.
Created(h) == h \in won /\ End(h, "201", wanted[h])

\* CONFLICT is the answer of a call that finds the name taken when it begins.
Conflict(h) == wanted[h] = None /\ \E n \in taken : End(h, "CONFLICT", n)

\* An error, at any point of a call, or no answer at all.
Fail(h) ==
    \/ End(h, "INTERNAL_ERROR", None)
    \/ wanted[h] # None /\ End(h, "none", None)

Next == \E h \in Handler : Begin(h) \/ Win(h) \/ Created(h) \/ Conflict(h) \/ Fail(h)

Spec == Init /\ [][Next]_vars
=============================================================================
