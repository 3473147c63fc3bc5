--------------------------- MODULE ServiceCatalog ---------------------------
(***************************************************************************)
(* The service catalog: services are registered and never change or leave, *)
(* handlers that register one check the name first and insert later, and a *)
(* client walks the list page by page while others register.  created_at   *)
(* is when the inserting transaction began, so a service that appears late *)
(* may sort before services that were there already.                       *)
(***************************************************************************)
EXTENDS Naturals, FiniteSets

CONSTANTS
    Handler,        \* sessions that register services
    Name,
    ServiceId,      \* primary keys, drawn at random, compared as numbers
    None,
    PageSize,
    MaxClock,       \* bound on the database clock
    MaxFaults       \* bound: statements that fail, processes that stop

ASSUME CatalogIdsAssumption == ServiceId \subseteq Nat
ASSUME CatalogNoneAssumption == None \notin Name
ASSUME CatalogBoundsAssumption ==
    PageSize \in Nat \ {0} /\ MaxClock \in Nat /\ MaxFaults \in Nat

VARIABLES
    services,       \* committed
    clock,
    pc,             \* where a handler stands in create_service
    draft,          \* the service it registers
    answer,         \* its last answer and the name it tells of, none in a 500
    walk,           \* the client that reads GET /services?page=1, 2, ...
    faults

vars == <<services, clock, pc, draft, answer, walk, faults>>

Service == [name : Name, at : 0 .. MaxClock, id : ServiceId \cup {None}]
NoAnswer == [code |-> "none", about |-> None]
NoWalk == [page |-> 0, before |-> {}, seen |-> {}, total |-> None]

NameTaken(n) == \E v \in services : v.name = n

Init ==
    /\ services = {}
    /\ clock = 0
    /\ pc = [h \in Handler |-> "idle"]
    /\ draft = [h \in Handler |-> None]
    /\ answer = [h \in Handler |-> NoAnswer]
    /\ walk = NoWalk
    /\ faults = 0

Tick ==
    /\ clock < MaxClock
    /\ clock' = clock + 1
    /\ UNCHANGED <<services, pc, draft, answer, walk, faults>>

-----------------------------------------------------------------------------
(* create_service *)

Goto(h, step) == pc' = [pc EXCEPT ![h] = step]

Close(h, code, about) ==
    /\ Goto(h, "idle")
    /\ draft' = [draft EXCEPT ![h] = None]
    /\ answer' = [answer EXCEPT ![h] = [code |-> code, about |-> about]]

CreateDuplicate(h, n) ==
    /\ pc[h] = "idle"
    /\ NameTaken(n)
    /\ Close(h, "CONFLICT", n)
    /\ UNCHANGED <<services, clock, walk, faults>>

CheckName(h, n) ==
    /\ pc[h] = "idle"
    /\ ~NameTaken(n)
    /\ Goto(h, "checked")
    /\ draft' = [draft EXCEPT ![h] = [name |-> n, at |-> clock, id |-> None]]
    /\ answer' = [answer EXCEPT ![h] = NoAnswer]
    /\ UNCHANGED <<services, clock, walk, faults>>

FreeIds == ServiceId \ ({v.id : v \in services}
                        \cup {draft[h].id : h \in {g \in Handler : pc[g] = "inserted"}})

\* Mutant of InsertService: no unique constraint behind the check.
InsertUnconstrained(h) ==
    /\ pc[h] = "checked"
    /\ \E i \in FreeIds : draft' = [draft EXCEPT ![h].id = i]
    /\ Goto(h, "inserted")
    /\ UNCHANGED <<services, clock, answer, walk, faults>>

\* Mutant of InsertService: no key is drawn.
InsertWithoutId(h) ==
    /\ pc[h] = "checked"
    /\ Goto(h, "inserted")
    /\ UNCHANGED <<services, clock, draft, answer, walk, faults>>

\* The flush waits for a transaction that has inserted the same name.
InsertService(h) ==
    /\ pc[h] = "checked"
    /\ ~NameTaken(draft[h].name)
    /\ \A g \in Handler \ {h} : pc[g] = "inserted" => draft[g].name # draft[h].name
    /\ \E i \in FreeIds : draft' = [draft EXCEPT ![h].id = i]
    /\ Goto(h, "inserted")
    /\ UNCHANGED <<services, clock, answer, walk, faults>>

\* uq_services_name raises IntegrityError, which nothing translates.
InsertCollides(h) ==
    /\ pc[h] = "checked"
    /\ NameTaken(draft[h].name)
    /\ Close(h, "INTERNAL_ERROR", None)
    /\ UNCHANGED <<services, clock, walk, faults>>

CommitService(h) ==
    /\ pc[h] = "inserted"
    /\ services' = services \cup {draft[h]}
    /\ Goto(h, "committed")
    /\ UNCHANGED <<clock, draft, answer, walk, faults>>

\* Mutant of AnswerCreate: the answer leaves before the commit.
AnswerUncommitted(h) ==
    /\ pc[h] = "inserted"
    /\ Close(h, "201", draft[h].name)
    /\ UNCHANGED <<services, clock, walk, faults>>

AnswerCreate(h) ==
    /\ pc[h] = "committed"
    /\ Close(h, "201", draft[h].name)
    /\ UNCHANGED <<services, clock, walk, faults>>

\* A statement fails, from the check of the name to the refresh after the commit;
\* what is not committed is rolled back, what is committed stays.
DbError(h) ==
    /\ faults < MaxFaults
    /\ faults' = faults + 1
    /\ Close(h, "INTERNAL_ERROR", None)
    /\ UNCHANGED <<services, clock, walk>>

\* The process stops, and nobody is answered.
Crash(h) ==
    /\ pc[h] # "idle"
    /\ faults < MaxFaults
    /\ faults' = faults + 1
    /\ Close(h, "none", None)
    /\ UNCHANGED <<services, clock, walk>>

-----------------------------------------------------------------------------
(* list_services, read by a client that goes on while pages are full *)

\* Mutant of SortsBefore: ORDER BY created_at alone.
SortsBeforeByTime(u, v) == u.at < v.at

\* ORDER BY created_at, id
SortsBefore(u, v) == u.at < v.at \/ (u.at = v.at /\ u.id < v.id)

\* The orders Postgres may put the rows in: those that compare equal, any way.
Rankings ==
    {rank \in [services -> 1 .. Cardinality(services)] :
        \A u, v \in services :
            /\ u # v => rank[u] # rank[v]
            /\ SortsBefore(u, v) => rank[u] < rank[v]}

\* Mutant of Page: the offset counts from page 0.
PageFromZero(rank, page) ==
    {v \in services : rank[v] > page * PageSize /\ rank[v] <= (page + 1) * PageSize}

\* OFFSET (page - 1) * page_size LIMIT page_size
Page(rank, page) ==
    {v \in services : rank[v] > (page - 1) * PageSize /\ rank[v] <= page * PageSize}

StartWalk ==
    /\ walk.page = 0
    /\ walk' = [page |-> 1, before |-> services, seen |-> {}, total |-> None]
    /\ UNCHANGED <<services, clock, pc, draft, answer, faults>>

\* SELECT count(*): the total is of another snapshot than the rows.
CountServices ==
    /\ walk.page > 0 /\ walk.total = None
    /\ walk' = [walk EXCEPT !.total = Cardinality(services)]
    /\ UNCHANGED <<services, clock, pc, draft, answer, faults>>

SelectPage ==
    /\ walk.page > 0 /\ walk.total # None
    /\ \E rank \in Rankings :
          LET rows == Page(rank, walk.page)
          IN  walk' = [walk EXCEPT !.seen = @ \cup rows,
                                   !.total = None,
                                   !.page = IF Cardinality(rows) = PageSize THEN @ + 1 ELSE 0]
    /\ UNCHANGED <<services, clock, pc, draft, answer, faults>>

-----------------------------------------------------------------------------

CreateStep(h) == InsertService(h) \/ InsertCollides(h) \/ CommitService(h) \/ AnswerCreate(h)

Next ==
    \/ Tick
    \/ \E h \in Handler :
          \/ \E n \in Name : CreateDuplicate(h, n) \/ CheckName(h, n)
          \/ CreateStep(h) \/ DbError(h) \/ Crash(h)
    \/ StartWalk \/ CountServices \/ SelectPage

Spec == Init /\ [][Next]_vars

-----------------------------------------------------------------------------
(* Properties *)

CatalogTypeOK ==
    /\ services \subseteq [name : Name, at : 0 .. MaxClock, id : ServiceId]
    /\ clock \in 0 .. MaxClock
    /\ pc \in [Handler -> {"idle", "checked", "inserted", "committed"}]
    /\ draft \in [Handler -> Service \cup {None}]
    /\ answer \in [Handler -> [code : {"none", "201", "CONFLICT", "INTERNAL_ERROR"},
                               about : Name \cup {None}]]
    /\ walk.page \in Nat /\ walk.before \subseteq services /\ walk.seen \subseteq services
    /\ walk.total \in Nat \cup {None}
    /\ faults \in 0 .. MaxFaults

\* Handlers that check one name at the same time (create_service reads it in one
\* statement and inserts in another) leave one service behind.
NamesAreUnique == \A u, v \in services : u.name = v.name => u = v

\* What create_service answers agrees with the catalog, then and ever after: who
\* was told 201 or CONFLICT finds a service of the name, and of all who asked for
\* a name one at most was told 201, so that service is its own.  Of a 500 nothing
\* is promised: it may be the answer to a call that committed.
RegistrationsAreTrue ==
    \A h \in Handler :
        /\ answer[h].code \in {"201", "CONFLICT"} => NameTaken(answer[h].about)
        /\ answer[h].code = "201" => \A g \in Handler \ {h} : answer[g] # answer[h]

\* A client that follows full pages to the end has seen every service there was
\* when it began, whatever is registered meanwhile and wherever it sorts: rows
\* are never removed and never tie, so they only move towards later pages.
WalkMissesNothing == [][walk.page > 0 /\ walk'.page = 0 => walk.before \subseteq walk'.seen]_vars

\* A page is short only if the total that comes with it says so, although the
\* two are read in different statements: the total may only be behind.
ShortPageIsLast ==
    [][walk.page > 0 /\ walk'.page = 0 => walk.total < walk.page * PageSize]_vars
=============================================================================
