------------------------ MODULE ServiceCatalog_proofs -----------------------
(***************************************************************************)
(* ServiceCatalog for any number of handlers, names and keys: the types,   *)
(* names that stay unique, answers that agree with the catalog, the        *)
(* NameRegistry that create_service implements, and the client that walks  *)
(* the pages of the list.                                                  *)
(***************************************************************************)
EXTENDS CatalogRefinement, FiniteSetTheorems, TLAPS

USE CatalogIdsAssumption, CatalogBoundsAssumption

Stored == [name : Name, at : 0 .. MaxClock, id : ServiceId]
Steps == {"idle", "checked", "inserted", "committed"}
Answers == [code : {"none", "201", "CONFLICT", "INTERNAL_ERROR"}, about : Name \cup {None}]
Walks == [page : Nat, before : SUBSET services, seen : SUBSET services, total : Nat \cup {None}]

\* CatalogTypeOK with what it leaves out: the catalog is finite, a handler that
\* has begun has a draft, and the walk has no other fields.
Types ==
    /\ services \subseteq Stored /\ IsFiniteSet(services)
    /\ clock \in 0 .. MaxClock
    /\ pc \in [Handler -> Steps]
    /\ draft \in [Handler -> Service \cup {None}]
    /\ \A h \in Handler : pc[h] # "idle" => draft[h] \in Service
    /\ \A h \in Handler : pc[h] = "inserted" => draft[h].id \in ServiceId
    /\ answer \in [Handler -> Answers]
    /\ walk \in Walks
    /\ faults \in 0 .. MaxFaults

LEMMA TypesImply == Types => CatalogTypeOK
  BY DEF Types, CatalogTypeOK, Stored, Steps, Answers, Walks

LEMMA TypesInit == Init => Types
<1> SUFFICES ASSUME Init PROVE Types
  OBVIOUS
<1>1. services = {} /\ IsFiniteSet(services)
  BY FS_EmptySet DEF Init
<1>2. answer \in [Handler -> Answers]
  BY DEF Init, NoAnswer, Answers
<1>3. walk \in Walks
  BY DEF Init, NoWalk, Walks
<1> QED BY <1>1, <1>2, <1>3 DEF Init, Types, Steps, Stored

\* What Close leaves of a handler.
LEMMA CloseTypes ==
    ASSUME Types, NEW h \in Handler, NEW c \in {"none", "201", "CONFLICT", "INTERNAL_ERROR"},
           NEW n \in Name \cup {None}, Close(h, c, n)
    PROVE  /\ pc' \in [Handler -> Steps]
           /\ draft' \in [Handler -> Service \cup {None}]
           /\ \A g \in Handler : pc'[g] # "idle" => pc'[g] = pc[g] /\ draft'[g] = draft[g]
           /\ answer' \in [Handler -> Answers]
<1>1. pc' \in [Handler -> Steps] /\ draft' \in [Handler -> Service \cup {None}]
  BY DEF Close, Goto, Types, Steps
<1>2. ASSUME NEW g \in Handler, pc'[g] # "idle" PROVE pc'[g] = pc[g] /\ draft'[g] = draft[g]
  BY <1>2 DEF Close, Goto, Types
<1>3. [code |-> c, about |-> n] \in Answers
  BY DEF Answers
<1>4. answer' \in [Handler -> Answers]
  BY <1>3 DEF Close, Types
<1> QED BY <1>1, <1>2, <1>4

\* Whatever closes a handler without touching the catalog or the walk.
LEMMA ClosingKeepsTypes ==
    ASSUME Types, NEW h \in Handler, NEW c \in {"none", "201", "CONFLICT", "INTERNAL_ERROR"},
           NEW n \in Name \cup {None}, Close(h, c, n), UNCHANGED <<services, clock, walk>>,
           faults' \in 0 .. MaxFaults
    PROVE  Types'
<1>1. Walks' = Walks
  BY DEF Walks
<1> QED BY <1>1, CloseTypes DEF Types

LEMMA DraftName ==
    ASSUME Types, NEW h \in Handler, pc[h] # "idle"
    PROVE  draft[h] \in Service /\ draft[h].name \in Name
  BY DEF Types, Service

LEMMA TypesStep == Types /\ [Next]_vars => Types'
<1> SUFFICES ASSUME Types, [Next]_vars PROVE Types'
  OBVIOUS
<1>1. CASE Tick
  <2>1. clock' \in 0 .. MaxClock
    BY <1>1 DEF Tick, Types
  <2> QED BY <1>1, <2>1 DEF Tick, Types, Walks
<1>2. ASSUME NEW h \in Handler, NEW n \in Name, CreateDuplicate(h, n) PROVE Types'
  <2>1. faults' \in 0 .. MaxFaults
    BY <1>2 DEF CreateDuplicate, Types
  <2> QED BY <1>2, <2>1, ClosingKeepsTypes DEF CreateDuplicate
<1>3. ASSUME NEW h \in Handler, NEW n \in Name, CheckName(h, n) PROVE Types'
  <2>1. [name |-> n, at |-> clock, id |-> None] \in Service
    BY DEF Service, Types
  <2>2. draft' \in [Handler -> Service \cup {None}] /\ draft'[h] \in Service
    BY <1>3, <2>1 DEF CheckName, Types
  <2>3. answer' \in [Handler -> Answers]
    BY <1>3 DEF CheckName, Types, NoAnswer, Answers
  <2>4. pc' \in [Handler -> Steps] /\ pc'[h] = "checked"
    BY <1>3 DEF CheckName, Goto, Types, Steps
  <2>5. \A g \in Handler : g # h => pc'[g] = pc[g] /\ draft'[g] = draft[g]
    BY <1>3 DEF CheckName, Goto, Types
  <2> QED BY <1>3, <2>2, <2>3, <2>4, <2>5 DEF CheckName, Types, Walks
<1>4. ASSUME NEW h \in Handler, InsertService(h) PROVE Types'
  <2>1. PICK i \in ServiceId : draft' = [draft EXCEPT ![h].id = i]
    BY <1>4 DEF InsertService, FreeIds
  <2>2. draft[h] \in Service
    BY <1>4 DEF InsertService, Types
  <2>3. [draft[h] EXCEPT !.id = i] \in Service /\ [draft[h] EXCEPT !.id = i].id = i
    BY <2>2 DEF Service
  <2>4. draft'[h] \in Service /\ draft'[h].id \in ServiceId
    BY <2>1, <2>3 DEF Types
  <2>5. draft' \in [Handler -> Service \cup {None}]
    BY <2>1, <2>3 DEF Types
  <2>6. pc' \in [Handler -> Steps] /\ pc'[h] = "inserted"
    BY <1>4 DEF InsertService, Goto, Types, Steps
  <2>7. \A g \in Handler : g # h => pc'[g] = pc[g] /\ draft'[g] = draft[g]
    BY <1>4, <2>1 DEF InsertService, Goto, Types
  <2> QED BY <1>4, <2>4, <2>5, <2>6, <2>7 DEF InsertService, Types, Walks
<1>5. ASSUME NEW h \in Handler, InsertCollides(h) PROVE Types'
  <2>1. faults' \in 0 .. MaxFaults
    BY <1>5 DEF InsertCollides, Types
  <2> QED BY <1>5, <2>1, ClosingKeepsTypes DEF InsertCollides
<1>6. ASSUME NEW h \in Handler, CommitService(h) PROVE Types'
  <2>1. draft[h] \in Stored
    BY <1>6 DEF CommitService, Types, Service, Stored
  <2>2. services' \subseteq Stored /\ IsFiniteSet(services')
    BY <1>6, <2>1, FS_AddElement DEF CommitService, Types
  <2>3. walk' \in Walks'
    BY <1>6 DEF CommitService, Types, Walks
  <2>4. pc' \in [Handler -> Steps]
        /\ \A g \in Handler : pc'[g] # "idle" => pc[g] # "idle" /\ (pc'[g] = "inserted" => pc[g] = "inserted")
    BY <1>6 DEF CommitService, Goto, Types, Steps
  <2> QED BY <1>6, <2>2, <2>3, <2>4 DEF CommitService, Types
<1>7. ASSUME NEW h \in Handler, AnswerCreate(h) PROVE Types'
  <2>1. draft[h].name \in Name
    BY <1>7, DraftName DEF AnswerCreate
  <2>2. faults' \in 0 .. MaxFaults
    BY <1>7 DEF AnswerCreate, Types
  <2> QED BY <1>7, <2>1, <2>2, ClosingKeepsTypes DEF AnswerCreate
<1>8. ASSUME NEW h \in Handler, DbError(h) \/ Crash(h) PROVE Types'
  <2>1. faults' \in 0 .. MaxFaults
    BY <1>8 DEF DbError, Crash, Types
  <2> QED BY <1>8, <2>1, ClosingKeepsTypes DEF DbError, Crash
<1>9. CASE StartWalk
  <2>1. walk' \in Walks
    BY <1>9 DEF StartWalk, Walks
  <2> QED BY <1>9, <2>1 DEF StartWalk, Types, Walks
<1>10. CASE CountServices
  <2>1. Cardinality(services) \in Nat
    BY FS_CardinalityType DEF Types
  <2>2. walk' \in Walks
    BY <1>10, <2>1 DEF CountServices, Types, Walks
  <2> QED BY <1>10, <2>2 DEF CountServices, Types, Walks
<1>11. CASE SelectPage
  <2>1. PICK rows \in SUBSET services :
          walk' = [walk EXCEPT !.seen = @ \cup rows, !.total = None,
                               !.page = IF Cardinality(rows) = PageSize THEN @ + 1 ELSE 0]
    BY <1>11 DEF SelectPage, Page
  <2>2. walk.seen \cup rows \in SUBSET services /\ walk.page \in Nat /\ walk.page + 1 \in Nat
    BY DEF Types, Walks
  <2>3. PICK p \in Nat : walk' = [walk EXCEPT !.seen = @ \cup rows, !.total = None, !.page = p]
    BY <2>1, <2>2
  <2>4. walk' \in Walks
    BY <2>2, <2>3 DEF Types, Walks
  <2> QED BY <1>11, <2>4 DEF SelectPage, Types, Walks
<1>12. CASE UNCHANGED vars
  BY <1>12 DEF vars, Types, Walks
<1> QED
  BY <1>1, <1>2, <1>3, <1>4, <1>5, <1>6, <1>7, <1>8, <1>9, <1>10, <1>11, <1>12
     DEF Next, CreateStep

\* Every variable keeps its type, in every reachable state.
THEOREM CatalogTypeCorrect == Spec => []CatalogTypeOK
  BY TypesInit, TypesStep, TypesImply, PTL DEF Spec

-----------------------------------------------------------------------------
(* Names stay unique because a flush that would repeat one waits or fails: *)
(* CatInv follows a handler from the flush to the answer.                  *)

\* What a handler has flushed is new, and nobody else has flushed it.
FlushIsNew == \A h \in Handler : pc[h] = "inserted" => ~NameTaken(draft[h].name)
FlushesDiffer ==
    \A g, h \in Handler : pc[g] = "inserted" /\ pc[h] = "inserted" /\ g # h
                           => draft[g].name # draft[h].name
\* What a handler has committed can be found.
CommitIsThere == \A h \in Handler : pc[h] = "committed" => NameTaken(draft[h].name)
CommitsDiffer ==
    \A g, h \in Handler : pc[g] = "committed" /\ pc[h] = "committed" /\ g # h
                           => draft[g].name # draft[h].name
\* Until who committed a name is answered, nobody has been told 201 of it.
CommitIsUntold ==
    \A g, h \in Handler : pc[h] = "committed" /\ answer[g].code = "201"
                           => answer[g].about # draft[h].name

CatInv ==
    /\ Types
    /\ FlushIsNew
    /\ FlushesDiffer
    /\ CommitIsThere
    /\ CommitsDiffer
    /\ CommitIsUntold
    /\ NamesAreUnique
    /\ RegistrationsAreTrue

LEMMA CatInvInit == Init => CatInv
  BY TypesInit DEF Init, CatInv, FlushIsNew, FlushesDiffer, CommitIsThere, CommitsDiffer,
                   CommitIsUntold, NamesAreUnique, RegistrationsAreTrue, NoAnswer

\* A handler that closes without touching the catalog, with an answer that is true.
LEMMA ClosingKeepsCatInv ==
    ASSUME CatInv, Types', NEW h \in Handler, NEW c, NEW n, Close(h, c, n), UNCHANGED services,
           c \in {"201", "CONFLICT"} => NameTaken(n),
           c = "201" => /\ \A g \in Handler : answer[g].code = "201" => answer[g].about # n
                        /\ \A g \in Handler \ {h} : pc[g] = "committed" => draft[g].name # n
    PROVE  CatInv'
<1>1. \A g \in Handler : pc'[g] # "idle" => pc'[g] = pc[g] /\ draft'[g] = draft[g]
  BY DEF Close, Goto, CatInv, Types
<1>2. \A m : NameTaken(m)' = NameTaken(m)
  BY DEF NameTaken
<1>3. FlushIsNew' /\ FlushesDiffer' /\ CommitIsThere' /\ CommitsDiffer'
  BY <1>1, <1>2 DEF CatInv, FlushIsNew, FlushesDiffer, CommitIsThere, CommitsDiffer
<1>4. NamesAreUnique'
  BY DEF CatInv, NamesAreUnique
<1>5. answer'[h].code = c /\ answer'[h].about = n
      /\ \A g \in Handler \ {h} : answer'[g] = answer[g]
  BY DEF Close, CatInv, Types
<1>6. pc'[h] = "idle"
  BY DEF Close, Goto, CatInv, Types
<1>7. CommitIsUntold'
  BY <1>1, <1>5, <1>6 DEF CatInv, CommitIsUntold
<1>8. RegistrationsAreTrue'
  BY <1>2, <1>5 DEF CatInv, RegistrationsAreTrue
<1> QED BY <1>3, <1>4, <1>7, <1>8 DEF CatInv

\* Steps that only read.
LEMMA ReadingKeepsCatInv ==
    ASSUME CatInv, Types', UNCHANGED <<services, pc, draft, answer>>
    PROVE  CatInv'
  BY DEF CatInv, FlushIsNew, FlushesDiffer, CommitIsThere, CommitsDiffer, CommitIsUntold,
         NamesAreUnique, RegistrationsAreTrue, NameTaken

LEMMA CatInvStep == CatInv /\ [Next]_vars => CatInv'
<1> SUFFICES ASSUME CatInv, [Next]_vars PROVE CatInv'
  OBVIOUS
<1>0. Types'
  BY TypesStep DEF CatInv
<1>1. CASE Tick
  BY <1>0, <1>1, ReadingKeepsCatInv DEF Tick
<1>2. ASSUME NEW h \in Handler, NEW n \in Name, CreateDuplicate(h, n) PROVE CatInv'
  BY <1>0, <1>2, ClosingKeepsCatInv DEF CreateDuplicate
<1>3. ASSUME NEW h \in Handler, NEW n \in Name, CheckName(h, n) PROVE CatInv'
  <2>1. \A g \in Handler : pc'[g] \in {"inserted", "committed"} => pc'[g] = pc[g] /\ draft'[g] = draft[g]
    BY <1>3 DEF CheckName, Goto, CatInv, Types
  <2>2. \A g \in Handler : answer'[g] = answer[g] \/ answer'[g].code = "none"
    BY <1>3 DEF CheckName, NoAnswer, CatInv, Types
  <2>3. services' = services
    BY <1>3 DEF CheckName
  <2>4. FlushIsNew' /\ FlushesDiffer' /\ CommitIsThere' /\ CommitsDiffer' /\ NamesAreUnique'
    BY <2>1, <2>3 DEF CatInv, FlushIsNew, FlushesDiffer, CommitIsThere, CommitsDiffer,
                      NamesAreUnique, NameTaken
  <2>5. CommitIsUntold' /\ RegistrationsAreTrue'
    BY <2>1, <2>2, <2>3 DEF CatInv, CommitIsUntold, RegistrationsAreTrue, NameTaken
  <2> QED BY <1>0, <2>4, <2>5 DEF CatInv
<1>4. ASSUME NEW h \in Handler, InsertService(h) PROVE CatInv'
  <2>1. PICK i \in ServiceId : draft' = [draft EXCEPT ![h].id = i]
    BY <1>4 DEF InsertService, FreeIds
  <2>2. draft[h] \in Service
    BY <1>4 DEF InsertService, CatInv, Types
  <2>3. [draft[h] EXCEPT !.id = i].name = draft[h].name
    BY <2>2 DEF Service
  <2>4. \A g \in Handler : pc[g] # "idle" => draft'[g].name = draft[g].name
    BY <2>1, <2>3 DEF CatInv, Types
  <2>5. \A g \in Handler : g # h => pc'[g] = pc[g]
    BY <1>4 DEF InsertService, Goto, CatInv, Types
  <2>6. pc'[h] = "inserted" /\ pc[h] = "checked"
    BY <1>4 DEF InsertService, Goto, CatInv, Types
  <2>7. \A m : NameTaken(m)' = NameTaken(m)
    BY <1>4 DEF InsertService, NameTaken
  <2>8. FlushIsNew'
    BY <1>4, <2>4, <2>5, <2>6, <2>7 DEF InsertService, CatInv, FlushIsNew
  <2>9. FlushesDiffer'
    BY <1>4, <2>4, <2>5, <2>6 DEF InsertService, CatInv, FlushesDiffer
  <2>10. CommitIsThere' /\ CommitsDiffer'
    BY <2>4, <2>5, <2>6, <2>7 DEF CatInv, CommitIsThere, CommitsDiffer
  <2>11. NamesAreUnique' /\ RegistrationsAreTrue'
    BY <1>4, <2>7 DEF InsertService, CatInv, NamesAreUnique, RegistrationsAreTrue
  <2>12. CommitIsUntold'
    BY <1>4, <2>4, <2>5, <2>6 DEF InsertService, CatInv, CommitIsUntold
  <2> QED BY <1>0, <2>8, <2>9, <2>10, <2>11, <2>12 DEF CatInv
<1>5. ASSUME NEW h \in Handler, InsertCollides(h) PROVE CatInv'
  BY <1>0, <1>5, ClosingKeepsCatInv DEF InsertCollides
<1>6. ASSUME NEW h \in Handler, CommitService(h) PROVE CatInv'
  <2>1. pc[h] = "inserted" /\ pc'[h] = "committed" /\ \A g \in Handler : g # h => pc'[g] = pc[g]
    BY <1>6 DEF CommitService, Goto, CatInv, Types
  <2>2. services' = services \cup {draft[h]} /\ draft' = draft /\ answer' = answer
    BY <1>6 DEF CommitService
  <2>3. \A m : NameTaken(m)' <=> NameTaken(m) \/ m = draft[h].name
    BY <2>2 DEF NameTaken
  <2>4. FlushIsNew'
    BY <2>1, <2>2, <2>3 DEF CatInv, FlushIsNew, FlushesDiffer
  <2>5. FlushesDiffer'
    BY <2>1, <2>2 DEF CatInv, FlushesDiffer
  <2>6. CommitIsThere' /\ RegistrationsAreTrue'
    BY <2>1, <2>2, <2>3 DEF CatInv, CommitIsThere, RegistrationsAreTrue
  <2>7. NamesAreUnique'
    BY <2>1, <2>2 DEF CatInv, FlushIsNew, NamesAreUnique, NameTaken
  <2>8. ~NameTaken(draft[h].name)
    BY <2>1 DEF CatInv, FlushIsNew
  <2>9. CommitsDiffer'
    <3>1. \A g \in Handler : pc[g] = "committed" => draft[g].name # draft[h].name
      BY <2>8 DEF CatInv, CommitIsThere
    <3> QED BY <2>1, <2>2, <3>1 DEF CatInv, CommitsDiffer
  <2>10. CommitIsUntold'
    <3>1. \A g \in Handler : answer[g].code = "201" => answer[g].about # draft[h].name
      BY <2>8 DEF CatInv, RegistrationsAreTrue
    <3> QED BY <2>1, <2>2, <3>1 DEF CatInv, CommitIsUntold
  <2> QED BY <1>0, <2>4, <2>5, <2>6, <2>7, <2>9, <2>10 DEF CatInv
<1>7. ASSUME NEW h \in Handler, AnswerCreate(h) PROVE CatInv'
  <2>1. NameTaken(draft[h].name)
    BY <1>7 DEF AnswerCreate, CatInv, CommitIsThere
  <2>2. /\ \A g \in Handler : answer[g].code = "201" => answer[g].about # draft[h].name
        /\ \A g \in Handler \ {h} : pc[g] = "committed" => draft[g].name # draft[h].name
    BY <1>7 DEF AnswerCreate, CatInv, CommitIsUntold, CommitsDiffer
  <2> QED BY <1>0, <1>7, <2>1, <2>2, ClosingKeepsCatInv DEF AnswerCreate
<1>8. ASSUME NEW h \in Handler, DbError(h) \/ Crash(h) PROVE CatInv'
  BY <1>0, <1>8, ClosingKeepsCatInv DEF DbError, Crash
<1>9. CASE StartWalk \/ CountServices \/ SelectPage
  BY <1>0, <1>9, ReadingKeepsCatInv DEF StartWalk, CountServices, SelectPage
<1>10. CASE UNCHANGED vars
  BY <1>0, <1>10, ReadingKeepsCatInv DEF vars
<1> QED
  BY <1>1, <1>2, <1>3, <1>4, <1>5, <1>6, <1>7, <1>8, <1>9, <1>10 DEF Next, CreateStep

\* The catalog never holds two services of one name, however registrations meet.
THEOREM CatalogNamesUnique == Spec => []NamesAreUnique
<1>1. CatInv => NamesAreUnique
  BY DEF CatInv
<1> QED BY CatInvInit, CatInvStep, <1>1, PTL DEF Spec

\* A caller told 201 or CONFLICT finds the service it was told about, and of all
\* callers who ask for a name one at most is told 201, whatever fails meanwhile.
THEOREM CatalogAnswersTrue == Spec => []RegistrationsAreTrue
<1>1. CatInv => RegistrationsAreTrue
  BY DEF CatInv
<1> QED BY CatInvInit, CatInvStep, <1>1, PTL DEF Spec

-----------------------------------------------------------------------------
(* NameRegistry.  What a commit adds to the catalog is what Win does: the  *)
(* name is new (FlushIsNew) and is that of the call that commits.  Every   *)
(* way of closing a handler is an End, and the insert changes nothing that *)
(* a caller sees.                                                          *)

Taken == {v.name : v \in services}
Wanted == [h \in Handler |-> IF pc[h] = "idle" THEN None ELSE draft[h].name]
Won == {h \in Handler : pc[h] = "committed"}

LEMMA TakenNames == \A n : NameTaken(n) <=> n \in Taken
  BY DEF NameTaken, Taken

\* A handler that is not idle is about a name.
LEMMA WantedName ==
    ASSUME CatInv, NEW h \in Handler, pc[h] # "idle"
    PROVE  Wanted[h] = draft[h].name /\ Wanted[h] \in Name /\ Wanted[h] # None
<1>1. draft[h].name \in Name
  BY DEF CatInv, Types, Service
<1> QED BY <1>1, CatalogNoneAssumption DEF Wanted

LEMMA ClosingIsEnd ==
    ASSUME CatInv, NEW h \in Handler, NEW c, NEW n, Close(h, c, n), UNCHANGED services
    PROVE  Registry!End(h, c, n)
<1>1. pc' = [pc EXCEPT ![h] = "idle"] /\ draft' = [draft EXCEPT ![h] = None]
      /\ pc \in [Handler -> Steps] /\ draft \in [Handler -> Service \cup {None}]
  BY DEF Close, Goto, CatInv, Types
<1>2. Wanted' = [Wanted EXCEPT ![h] = None]
  BY <1>1 DEF Wanted
<1>3. Won' = Won \ {h}
  BY <1>1 DEF Won
<1>4. answer' = [answer EXCEPT ![h] = [code |-> c, about |-> n]]
  BY DEF Close
<1>5. Taken' = Taken
  BY DEF Taken
<1> QED BY <1>2, <1>3, <1>4, <1>5 DEF Registry!End, Wanted, Won, Taken

LEMMA StepOfRegistry == CatInv /\ [Next]_vars => [Registry!Next]_(Registry!vars)
<1> SUFFICES ASSUME CatInv, [Next]_vars PROVE [Registry!Next]_(Registry!vars)
  OBVIOUS
<1>0. pc \in [Handler -> Steps] /\ draft \in [Handler -> Service \cup {None}]
      /\ answer \in [Handler -> Answers]
  BY DEF CatInv, Types
<1>1. ASSUME UNCHANGED <<services, pc, draft, answer>> PROVE UNCHANGED Registry!vars
  BY <1>1 DEF Registry!vars
<1>2. ASSUME NEW h \in Handler, NEW n \in Name, CreateDuplicate(h, n) PROVE Registry!Next
  <2>1. n \in Taken /\ Wanted[h] = None
    BY <1>2, TakenNames DEF CreateDuplicate, Wanted
  <2>2. Registry!End(h, "CONFLICT", n)
    BY <1>2, ClosingIsEnd DEF CreateDuplicate
  <2> QED BY <2>1, <2>2 DEF Registry!Next, Registry!Conflict, Taken, Wanted
<1>3. ASSUME NEW h \in Handler, NEW n \in Name, CheckName(h, n) PROVE Registry!Next
  <2>1. pc[h] = "idle" /\ pc' = [pc EXCEPT ![h] = "checked"] /\ services' = services
        /\ draft' = [draft EXCEPT ![h] = [name |-> n, at |-> clock, id |-> None]]
        /\ answer' = [answer EXCEPT ![h] = NoAnswer]
    BY <1>3 DEF CheckName, Goto
  <2>2. Wanted[h] = None /\ n \notin Taken
    BY <1>3, TakenNames DEF CheckName, Wanted
  <2>3. Wanted' = [Wanted EXCEPT ![h] = n]
    BY <1>0, <2>1 DEF Wanted
  <2>4. Taken' = Taken /\ Won' = Won
    BY <1>0, <2>1 DEF Taken, Won
  <2>5. Registry!Begin(h)
    BY <2>1, <2>2, <2>3, <2>4 DEF Registry!Begin, NoAnswer, Wanted, Taken, Won
  <2> QED BY <2>5 DEF Registry!Next
<1>4. ASSUME NEW h \in Handler, InsertService(h) PROVE UNCHANGED Registry!vars
  <2>1. PICK i \in ServiceId : draft' = [draft EXCEPT ![h].id = i]
    BY <1>4 DEF InsertService, FreeIds
  <2>2. pc[h] = "checked" /\ pc' = [pc EXCEPT ![h] = "inserted"] /\ UNCHANGED <<services, answer>>
    BY <1>4 DEF InsertService, Goto
  <2>3. draft[h] \in Service
    BY <2>2 DEF CatInv, Types
  <2>4. [draft[h] EXCEPT !.id = i].name = draft[h].name
    BY <2>3 DEF Service
  <2>5. Wanted' = Wanted
    BY <1>0, <2>1, <2>2, <2>4 DEF Wanted
  <2>6. Won' = Won /\ Taken' = Taken
    BY <1>0, <2>2 DEF Won, Taken
  <2> QED BY <2>2, <2>5, <2>6 DEF Registry!vars, Wanted, Won, Taken
<1>5. ASSUME NEW h \in Handler, InsertCollides(h) PROVE Registry!Next
  <2>1. Registry!End(h, "INTERNAL_ERROR", None)
    BY <1>5, ClosingIsEnd DEF InsertCollides
  <2> QED BY <2>1 DEF Registry!Next, Registry!Fail
<1>6. ASSUME NEW h \in Handler, CommitService(h) PROVE Registry!Next
  <2>1. pc[h] = "inserted" /\ pc' = [pc EXCEPT ![h] = "committed"]
        /\ services' = services \cup {draft[h]} /\ UNCHANGED <<draft, answer>>
    BY <1>6 DEF CommitService, Goto
  <2>2. Wanted[h] = draft[h].name /\ Wanted[h] # None /\ h \notin Won
    BY <2>1, WantedName DEF Won
  <2>3. Wanted[h] \notin Taken
    BY <2>1, <2>2, TakenNames DEF CatInv, FlushIsNew
  <2>4. Taken' = Taken \cup {Wanted[h]} /\ Won' = Won \cup {h} /\ Wanted' = Wanted
    BY <1>0, <2>1, <2>2 DEF Taken, Won, Wanted
  <2>5. Registry!Win(h)
    BY <2>1, <2>2, <2>3, <2>4 DEF Registry!Win, Wanted, Won, Taken
  <2> QED BY <2>5 DEF Registry!Next
<1>7. ASSUME NEW h \in Handler, AnswerCreate(h) PROVE Registry!Next
  <2>1. Wanted[h] = draft[h].name /\ h \in Won
    BY <1>7, WantedName DEF AnswerCreate, Won
  <2>2. Registry!End(h, "201", Wanted[h])
    <3>1. PICK n : n = draft[h].name
      OBVIOUS
    <3>2. Registry!End(h, "201", n)
      BY <1>7, <3>1, ClosingIsEnd DEF AnswerCreate
    <3> QED BY <2>1, <3>1, <3>2 DEF Registry!End
  <2> QED BY <2>1, <2>2 DEF Registry!Next, Registry!Created, Wanted, Won
<1>8. ASSUME NEW h \in Handler, DbError(h) PROVE Registry!Next
  <2>1. Registry!End(h, "INTERNAL_ERROR", None)
    BY <1>8, ClosingIsEnd DEF DbError
  <2> QED BY <2>1 DEF Registry!Next, Registry!Fail
<1>10. ASSUME NEW h \in Handler, Crash(h) PROVE Registry!Next
  <2>1. Wanted[h] # None
    BY <1>10, WantedName DEF Crash
  <2>2. Registry!End(h, "none", None)
    BY <1>10, ClosingIsEnd DEF Crash
  <2> QED BY <2>1, <2>2 DEF Registry!Next, Registry!Fail, Wanted
<1>9. CASE Tick \/ StartWalk \/ CountServices \/ SelectPage \/ UNCHANGED vars
  BY <1>1, <1>9 DEF Tick, StartWalk, CountServices, SelectPage, vars
<1> QED
  BY <1>2, <1>3, <1>4, <1>5, <1>6, <1>7, <1>8, <1>9, <1>10 DEF Next, CreateStep

\* create_service behaves as one atomic step, whatever its statements are
\* interleaved with and whichever of them fails: a name is won once, by a call
\* that is under way, and nobody but that call is told 201.
THEOREM RegistryImplemented == Spec => ImplementsNameRegistry
<1>1. Init => Registry!Init
  BY DEF Init, Registry!Init, NoAnswer
<1> QED BY CatInvInit, CatInvStep, StepOfRegistry, <1>1, PTL
        DEF Spec, ImplementsNameRegistry, Registry!Spec

-----------------------------------------------------------------------------
(* The walk.  Keys are unique, so ORDER BY created_at, id leaves the       *)
(* database one order; in it a service stands at the number of services    *)
(* that sort before it plus one, a position that only grows while services *)
(* are added.  A walker that has read the pages before p has therefore     *)
(* seen what it set out to see, but for services that stand beyond them.   *)

LEMMA SameSize ==
    ASSUME NEW S, IsFiniteSet(S), NEW T, IsFiniteSet(T), NEW f \in [S -> T],
           \A x, y \in S : f[x] = f[y] => x = y,
           \A t \in T : \E x \in S : f[x] = t
    PROVE  Cardinality(S) = Cardinality(T)
<1> DEFINE back == [t \in T |-> CHOOSE x \in S : f[x] = t]
<1>1. back \in [T -> S] /\ \A t \in T : f[back[t]] = t
  OBVIOUS
<1>2. ~(Cardinality(T) < Cardinality(S))
  BY FS_PigeonHole
<1>3. \A t, r \in T : back[t] = back[r] => t = r
  BY <1>1
<1> HIDE DEF back
<1>4. ~(Cardinality(S) < Cardinality(T))
  BY <1>1, <1>3, FS_PigeonHole
<1> QED BY <1>2, <1>4, FS_CardinalityType

LEMMA OntoWhenAsMany ==
    ASSUME NEW S, IsFiniteSet(S), NEW T, IsFiniteSet(T), Cardinality(S) = Cardinality(T),
           NEW f \in [S -> T], \A x, y \in S : f[x] = f[y] => x = y
    PROVE  \A t \in T : \E x \in S : f[x] = t
<1> SUFFICES ASSUME NEW t \in T, \A x \in S : f[x] # t PROVE FALSE
  OBVIOUS
<1>1. f \in [S -> T \ {t}]
  OBVIOUS
<1>2. IsFiniteSet(T \ {t}) /\ Cardinality(T \ {t}) = Cardinality(T) - 1
  BY FS_RemoveElement
<1>3. Cardinality(T \ {t}) < Cardinality(S)
  BY <1>2, FS_CardinalityType
<1>4. \E x, y \in S : x # y /\ f[x] = f[y]
  BY <1>1, <1>2, <1>3, FS_PigeonHole
<1> QED BY <1>4

\* The primary keys, committed or flushed, are all different.
IdsUnique == \A u, v \in services : u.id = v.id => u = v
FlushedIdsNew ==
    \A h \in Handler : pc[h] = "inserted" => \A v \in services : v.id # draft[h].id
FlushedIdsDiffer ==
    \A g, h \in Handler : pc[g] = "inserted" /\ pc[h] = "inserted" /\ g # h
                           => draft[g].id # draft[h].id

Keyed == IdsUnique /\ FlushedIdsNew /\ FlushedIdsDiffer

LEMMA KeyedInit == Init => Keyed
  BY DEF Init, Keyed, IdsUnique, FlushedIdsNew, FlushedIdsDiffer

\* A step that flushes nothing and commits nothing draws no key.
LEMMA FlushedAlreadyKeepsKeyed ==
    ASSUME Keyed, services' = services,
           \A g \in Handler : pc'[g] = "inserted" => pc[g] = "inserted" /\ draft'[g] = draft[g]
    PROVE  Keyed'
  BY DEF Keyed, IdsUnique, FlushedIdsNew, FlushedIdsDiffer

LEMMA CloseKeepsKeyed ==
    ASSUME Types, Keyed, services' = services, NEW h \in Handler, NEW c, NEW n, Close(h, c, n)
    PROVE  Keyed'
<1>1. \A g \in Handler : pc'[g] = "inserted" => pc[g] = "inserted" /\ draft'[g] = draft[g]
  BY DEF Close, Goto, Types
<1> QED BY <1>1, FlushedAlreadyKeepsKeyed

LEMMA KeyedStep == Types /\ Keyed /\ [Next]_vars => Keyed'
<1> SUFFICES ASSUME Types, Keyed, [Next]_vars PROVE Keyed'
  OBVIOUS
<1>1. ASSUME NEW h \in Handler, NEW n \in Name, CreateDuplicate(h, n) PROVE Keyed'
  BY <1>1, CloseKeepsKeyed DEF CreateDuplicate
<1>2. ASSUME NEW h \in Handler, NEW n \in Name, CheckName(h, n) PROVE Keyed'
  <2>1. \A g \in Handler : pc'[g] = "inserted" => pc[g] = "inserted" /\ draft'[g] = draft[g]
    BY <1>2 DEF CheckName, Goto, Types
  <2> QED BY <1>2, <2>1, FlushedAlreadyKeepsKeyed DEF CheckName
<1>3. ASSUME NEW h \in Handler, InsertService(h) PROVE Keyed'
  <2>1. PICK i \in FreeIds : draft' = [draft EXCEPT ![h].id = i]
    BY <1>3 DEF InsertService
  <2>2. draft'[h].id = i
    BY <1>3, <2>1 DEF InsertService, Types, Service
  <2>3. \A g \in Handler : g # h => pc'[g] = pc[g] /\ draft'[g] = draft[g]
    BY <1>3, <2>1 DEF InsertService, Goto, Types
  <2>4. \A v \in services : v.id # i
    BY DEF FreeIds
  <2>5. \A g \in Handler : pc[g] = "inserted" => draft[g].id # i
    BY DEF FreeIds
  <2>6. services' = services
    BY <1>3 DEF InsertService
  <2>7. FlushedIdsNew'
    BY <2>2, <2>3, <2>4, <2>6 DEF Keyed, FlushedIdsNew
  <2>8. FlushedIdsDiffer'
    BY <2>2, <2>3, <2>5 DEF Keyed, FlushedIdsDiffer
  <2> QED BY <2>6, <2>7, <2>8 DEF Keyed, IdsUnique
<1>4. ASSUME NEW h \in Handler, InsertCollides(h) PROVE Keyed'
  BY <1>4, CloseKeepsKeyed DEF InsertCollides
<1>5. ASSUME NEW h \in Handler, CommitService(h) PROVE Keyed'
  <2>1. pc[h] = "inserted" /\ services' = services \cup {draft[h]} /\ draft' = draft
    BY <1>5 DEF CommitService
  <2>2. \A g \in Handler : pc'[g] = "inserted" => pc[g] = "inserted" /\ g # h
    BY <1>5 DEF CommitService, Goto, Types
  <2>3. IdsUnique'
    BY <2>1 DEF Keyed, IdsUnique, FlushedIdsNew
  <2>4. FlushedIdsNew'
    BY <2>1, <2>2 DEF Keyed, FlushedIdsNew, FlushedIdsDiffer
  <2>5. FlushedIdsDiffer'
    BY <2>1, <2>2 DEF Keyed, FlushedIdsDiffer
  <2> QED BY <2>3, <2>4, <2>5 DEF Keyed
<1>6. ASSUME NEW h \in Handler, AnswerCreate(h) PROVE Keyed'
  BY <1>6, CloseKeepsKeyed DEF AnswerCreate
<1>7. ASSUME NEW h \in Handler, DbError(h) \/ Crash(h) PROVE Keyed'
  BY <1>7, CloseKeepsKeyed DEF DbError, Crash
<1>8. CASE Tick \/ StartWalk \/ CountServices \/ SelectPage \/ UNCHANGED vars
  BY <1>8, FlushedAlreadyKeepsKeyed DEF Tick, StartWalk, CountServices, SelectPage, vars
<1> QED BY <1>1, <1>2, <1>3, <1>4, <1>5, <1>6, <1>7, <1>8 DEF Next, CreateStep

\* created_at and the key order the services totally.
LEMMA SortsTotally ==
    ASSUME Types, Keyed, NEW u \in services, NEW v \in services
    PROVE  /\ SortsBefore(u, v) \/ SortsBefore(v, u) \/ u = v
           /\ ~SortsBefore(u, u)
<1>1. ASSUME NEW w \in services PROVE w.at \in Nat /\ w.id \in Nat
  <2>1. w \in Stored
    BY DEF Types
  <2>2. w.at \in 0 .. MaxClock /\ w.id \in ServiceId
    BY <2>1 DEF Stored
  <2>3. \A a \in 0 .. MaxClock : a \in Nat
    OBVIOUS
  <2> QED BY <2>2, <2>3
<1>2. u.id = v.id => u = v
  BY DEF Keyed, IdsUnique
<1> QED BY <1>1, <1>2 DEF SortsBefore

\* Where a service stands in the list.
Ahead(v) == {u \in services : SortsBefore(u, v)}
Position(v) == Cardinality(Ahead(v)) + 1

\* A ranking leaves no rank out: there are as many ranks as services.
LEMMA RanksAreTaken ==
    ASSUME Types, NEW rank \in Rankings
    PROVE  \A k \in 1 .. Cardinality(services) : \E u \in services : rank[u] = k
<1> DEFINE n == Cardinality(services)
           T == 1 .. n
<1>1. rank \in [services -> T] /\ \A u, v \in services : rank[u] = rank[v] => u = v
  BY DEF Rankings
<1>2. IsFiniteSet(services) /\ n \in Nat
  BY FS_CardinalityType DEF Types
<1>3. IsFiniteSet(T) /\ Cardinality(T) = n
  BY <1>2, FS_Interval
<1>4. \A t \in T : \E u \in services : rank[u] = t
  <2> HIDE DEF T
  <2> QED BY <1>1, <1>2, <1>3, OntoWhenAsMany
<1> QED BY <1>4

\* The order is total, so every ranking the database may choose is the same one.
LEMMA RankIsPosition ==
    ASSUME Types, Keyed, NEW rank \in Rankings, NEW v \in services
    PROVE  rank[v] = Position(v) /\ rank[v] \in 1 .. Cardinality(services)
<1>1. IsFiniteSet(services) /\ Cardinality(services) \in Nat
  BY FS_CardinalityType DEF Types
<1>2. rank \in [services -> 1 .. Cardinality(services)]
      /\ \A u, w \in services : (rank[u] = rank[w] => u = w)
                                /\ (SortsBefore(u, w) => rank[u] < rank[w])
  BY DEF Rankings
<1> DEFINE S == Ahead(v)
           T == 1 .. (rank[v] - 1)
           f == [u \in S |-> rank[u]]
<1>3. rank[v] \in 1 .. Cardinality(services)
  BY <1>2
<1>4. IsFiniteSet(S) /\ IsFiniteSet(T) /\ Cardinality(T) = rank[v] - 1
  <2>1. IsFiniteSet(S)
    BY <1>1, FS_Subset DEF Ahead
  <2>2. PICK m \in Nat : m = rank[v] - 1
    BY <1>1, <1>3
  <2>3. IsFiniteSet(1 .. m) /\ Cardinality(1 .. m) = m
    BY FS_Interval
  <2> QED BY <2>1, <2>2, <2>3
<1>5. f \in [S -> T]
  <2> SUFFICES ASSUME NEW u \in S PROVE rank[u] \in T
    OBVIOUS
  <2>1. u \in services /\ SortsBefore(u, v)
    BY DEF Ahead
  <2> QED BY <1>1, <1>2, <1>3, <2>1
<1>6. \A x, y \in S : f[x] = f[y] => x = y
  BY <1>2 DEF Ahead
<1>7. ASSUME NEW t \in T PROVE \E x \in S : f[x] = t
  <2>1. t \in 1 .. Cardinality(services) /\ t < rank[v]
    BY <1>1, <1>3
  <2>2. PICK u \in services : rank[u] = t
    BY <2>1, RanksAreTaken
  <2>3. u # v /\ ~(rank[v] < rank[u])
    BY <1>1, <1>3, <2>1, <2>2
  <2>4. u \in S
    BY <1>2, <2>3, SortsTotally DEF Ahead
  <2> QED BY <2>2, <2>4
<1> HIDE DEF S, T, f
<1>8. Cardinality(S) = Cardinality(T)
  BY <1>4, <1>5, <1>6, <1>7, SameSize
<1>9. Cardinality(S) = rank[v] - 1
  BY <1>4, <1>8
<1> QED BY <1>1, <1>3, <1>9 DEF Position, S

\* Services are only added, so a service never moves towards an earlier page.
LEMMA PositionsGrow ==
    ASSUME Types', services \subseteq services', NEW v \in services
    PROVE  Position(v) <= Position(v)'
<1> DEFINE later == {u \in services' : SortsBefore(u, v)}
<1>1. IsFiniteSet(later)
  BY FS_Subset DEF Types
<1>2. Ahead(v) \in SUBSET later
  BY DEF Ahead
<1> HIDE DEF later
<1>3. Cardinality(Ahead(v)) <= Cardinality(later) /\ IsFiniteSet(Ahead(v))
  BY <1>1, <1>2, FS_Subset
<1>4. Cardinality(Ahead(v)) \in Nat /\ Cardinality(later) \in Nat
  BY <1>1, <1>3, FS_CardinalityType
<1>5. Position(v)' = Cardinality(later) + 1
  BY DEF Position, Ahead, later
<1> QED BY <1>3, <1>4, <1>5 DEF Position

LEMMA PageEnds ==
    ASSUME NEW p \in Nat, p > 0
    PROVE  /\ (p - 1) * PageSize \in Nat
           /\ p * PageSize = (p - 1) * PageSize + PageSize
<1>1. p - 1 \in Nat /\ PageSize \in Nat
  OBVIOUS
<1> QED BY <1>1

\* A page is full when there are services enough to fill it.
LEMMA PageIsFull ==
    ASSUME Types, NEW rank \in Rankings, NEW p \in Nat, p > 0,
           Cardinality(services) >= p * PageSize
    PROVE  Cardinality(Page(rank, p)) = PageSize
<1> DEFINE lo == (p - 1) * PageSize
           n == Cardinality(services)
           S == Page(rank, p)
           T == lo + 1 .. lo + PageSize
           f == [u \in S |-> rank[u]]
<1>1. n \in Nat /\ IsFiniteSet(services)
  BY FS_CardinalityType DEF Types
<1>2. lo \in Nat /\ p * PageSize = lo + PageSize
  BY PageEnds
<1>3. rank \in [services -> 1 .. n] /\ \A u, v \in services : rank[u] = rank[v] => u = v
  BY DEF Rankings
<1>4. S = {u \in services : rank[u] > lo /\ rank[u] <= lo + PageSize}
  BY <1>2 DEF Page
<1> HIDE DEF S, lo, n
<1>5. n >= lo + PageSize
  BY <1>2 DEF n
<1>6. IsFiniteSet(S)
  BY <1>1, <1>4, FS_Subset
<1>7. IsFiniteSet(T) /\ Cardinality(T) = PageSize
  <2>1. lo + 1 \in Int /\ lo + PageSize \in Int /\ PageSize \in Nat \ {0}
    BY <1>2
  <2>2. IsFiniteSet(T) /\ Cardinality(T) = (lo + PageSize) - (lo + 1) + 1
    BY <1>2, <2>1, FS_Interval
  <2> QED BY <1>2, <2>2
<1>8. f \in [S -> T] /\ \A x, y \in S : f[x] = f[y] => x = y
  BY <1>1, <1>2, <1>3, <1>4
<1>9. ASSUME NEW t \in T PROVE \E x \in S : f[x] = t
  <2>1. t \in 1 .. n
    BY <1>1, <1>2, <1>5
  <2>2. PICK u \in services : rank[u] = t
    BY <2>1, RanksAreTaken DEF n
  <2> QED BY <1>2, <1>4, <2>2
<1>10. Cardinality(S) = Cardinality(T)
  <2> HIDE DEF T, f
  <2> QED BY <1>6, <1>7, <1>8, <1>9, SameSize
<1> QED BY <1>7, <1>10 DEF S

\* Where a walk stands: what it has not seen of what it set out to see is beyond
\* the pages it has read, and a total it holds is not ahead of the catalog.
WalkIsOnTrack ==
    walk.page > 0 =>
        /\ \A v \in walk.before : v \in walk.seen \/ Position(v) > (walk.page - 1) * PageSize
        /\ walk.total # None => walk.total <= Cardinality(services)

WalkInv == Types /\ Keyed /\ WalkIsOnTrack

LEMMA WalkInvInit == Init => WalkInv
<1>1. Init => WalkIsOnTrack
  BY DEF Init, NoWalk, WalkIsOnTrack
<1> QED BY <1>1, TypesInit, KeyedInit DEF WalkInv

\* A registration that commits in the middle of a walk.
LEMMA AddingKeepsTrack ==
    ASSUME WalkInv, Types', services \subseteq services', walk' = walk
    PROVE  WalkIsOnTrack'
<1> SUFFICES ASSUME walk.page > 0 PROVE WalkIsOnTrack'
  BY DEF WalkIsOnTrack
<1>1. walk.page \in Nat /\ walk.before \subseteq services /\ walk.total \in Nat \cup {None}
  BY DEF WalkInv, Types, Walks
<1>2. (walk.page - 1) * PageSize \in Nat
  BY <1>1, PageEnds
<1>3. ASSUME NEW v \in walk.before
      PROVE  v \in walk.seen \/ Position(v)' > (walk.page - 1) * PageSize
  <2>1. Position(v) <= Position(v)'
    BY <1>1, PositionsGrow
  <2>2. v \in walk.seen \/ Position(v) > (walk.page - 1) * PageSize
    BY DEF WalkInv, WalkIsOnTrack
  <2>3. Position(v) \in Nat /\ Position(v)' \in Nat
    <3>1. IsFiniteSet(Ahead(v))
      BY FS_Subset DEF WalkInv, Types, Ahead
    <3>2. IsFiniteSet(Ahead(v)')
      BY FS_Subset DEF Types, Ahead
    <3> QED BY <3>1, <3>2, FS_CardinalityType DEF Position
  <2> QED BY <1>2, <2>1, <2>2, <2>3
<1>4. walk.total # None => walk.total <= Cardinality(services')
  <2>1. IsFiniteSet(services) /\ IsFiniteSet(services')
    BY DEF WalkInv, Types
  <2>2. Cardinality(services) \in Nat /\ Cardinality(services') \in Nat
        /\ Cardinality(services) <= Cardinality(services')
    BY <2>1, FS_Subset, FS_CardinalityType
  <2>3. walk.total # None => walk.total <= Cardinality(services)
    BY DEF WalkInv, WalkIsOnTrack
  <2> QED BY <1>1, <2>2, <2>3
<1> QED BY <1>3, <1>4 DEF WalkIsOnTrack

\* Reading a page: what is still unseen is beyond it, and when the page is short
\* the catalog ends before the page does.
LEMMA PageRead ==
    ASSUME WalkInv, NEW rank \in Rankings, walk.page > 0
    PROVE  LET rows == Page(rank, walk.page)
           IN  /\ \A v \in walk.before : \/ v \in walk.seen \cup rows
                                         \/ Position(v) > walk.page * PageSize
               /\ Cardinality(rows) # PageSize => Cardinality(services) < walk.page * PageSize
<1> DEFINE p == walk.page
           rows == Page(rank, p)
<1>1. p \in Nat /\ walk.before \subseteq services
  BY DEF WalkInv, Types, Walks
<1>2. p * PageSize \in Nat /\ (p - 1) * PageSize \in Nat
  BY <1>1, PageEnds
<1>3. ASSUME NEW v \in walk.before, v \notin walk.seen, v \notin rows
      PROVE  Position(v) > p * PageSize
  <2>1. Position(v) > (p - 1) * PageSize
    BY <1>3 DEF WalkInv, WalkIsOnTrack
  <2>2. rank[v] = Position(v) /\ rank[v] \in 1 .. Cardinality(services)
    BY <1>1, RankIsPosition DEF WalkInv
  <2>3. ~(rank[v] > (p - 1) * PageSize /\ rank[v] <= p * PageSize)
    BY <1>1, <1>3 DEF Page
  <2>4. Cardinality(services) \in Nat
    BY FS_CardinalityType DEF WalkInv, Types
  <2> QED BY <1>2, <2>1, <2>2, <2>3, <2>4
<1>4. ASSUME Cardinality(rows) # PageSize PROVE Cardinality(services) < p * PageSize
  <2>1. ~(Cardinality(services) >= p * PageSize)
    BY <1>1, <1>4, PageIsFull DEF WalkInv
  <2>2. Cardinality(services) \in Nat
    BY FS_CardinalityType DEF WalkInv, Types
  <2> QED BY <1>2, <2>1, <2>2
<1> QED BY <1>3, <1>4

LEMMA WalkInvStep == WalkInv /\ [Next]_vars => WalkInv'
<1> SUFFICES ASSUME WalkInv, [Next]_vars PROVE WalkInv'
  OBVIOUS
<1>0. Types' /\ Keyed'
  BY TypesStep, KeyedStep DEF WalkInv
<1>1. CASE services \subseteq services' /\ walk' = walk
  BY <1>0, <1>1, AddingKeepsTrack DEF WalkInv
<1>2. CASE StartWalk
  <2>1. walk'.page = 1 /\ walk'.before = services /\ walk'.total = None /\ services' = services
    BY <1>2 DEF StartWalk
  <2>2. ASSUME NEW v \in services PROVE Position(v)' > (1 - 1) * PageSize
    <3>1. IsFiniteSet(Ahead(v)')
      BY <1>0, FS_Subset DEF Types, Ahead
    <3> QED BY <3>1, FS_CardinalityType DEF Position
  <2>3. WalkIsOnTrack'
    BY <2>1, <2>2 DEF WalkIsOnTrack
  <2> QED BY <1>0, <2>3 DEF WalkInv
<1>3. CASE CountServices
  <2>1. services' = services /\ walk.page > 0
    BY <1>3 DEF CountServices
  <2>2. /\ walk'.page = walk.page /\ walk'.before = walk.before /\ walk'.seen = walk.seen
        /\ walk'.total = Cardinality(services)
    BY <1>3 DEF CountServices, WalkInv, Types, Walks
  <2>3. \A v : Position(v)' = Position(v)
    BY <2>1 DEF Position, Ahead
  <2>4. Cardinality(services) \in Nat
    BY FS_CardinalityType DEF WalkInv, Types
  <2>5. WalkIsOnTrack'
    BY <2>1, <2>2, <2>3, <2>4 DEF WalkInv, WalkIsOnTrack
  <2> QED BY <1>0, <2>5 DEF WalkInv
<1>4. CASE SelectPage
  <2>1. walk.page > 0 /\ services' = services
    BY <1>4 DEF SelectPage
  <2>2. PICK rank \in Rankings :
          walk' = [walk EXCEPT !.seen = @ \cup Page(rank, walk.page), !.total = None,
                               !.page = IF Cardinality(Page(rank, walk.page)) = PageSize
                                        THEN @ + 1 ELSE 0]
    BY <1>4 DEF SelectPage
  <2> DEFINE rows == Page(rank, walk.page)
  <2>3. /\ walk'.before = walk.before /\ walk'.seen = walk.seen \cup rows /\ walk'.total = None
        /\ walk'.page = walk.page + 1 \/ walk'.page = 0
    BY <2>2 DEF WalkInv, Types, Walks
  <2>4. \A v \in walk.before : v \in walk.seen \cup rows \/ Position(v) > walk.page * PageSize
    BY <2>1, PageRead
  <2>5. \A v : Position(v)' = Position(v)
    BY <2>1 DEF Position, Ahead
  <2>6. walk.page \in Nat
    BY DEF WalkInv, Types, Walks
  <2>7. (walk.page + 1) - 1 = walk.page
    BY <2>6
  <2>8. WalkIsOnTrack'
    BY <2>3, <2>4, <2>5, <2>6, <2>7 DEF WalkIsOnTrack
  <2> QED BY <1>0, <2>8 DEF WalkInv
<1>5. (services \subseteq services' /\ walk' = walk) \/ StartWalk \/ CountServices \/ SelectPage
  BY DEF Next, Tick, CreateDuplicate, CheckName, CreateStep, InsertService, InsertCollides,
         CommitService, AnswerCreate, DbError, Crash, vars
<1> QED BY <1>1, <1>2, <1>3, <1>4, <1>5

\* The step that ends a walk is a page that was not full.
LEMMA WalkEnds ==
    ASSUME WalkInv, [Next]_vars, walk.page > 0, walk'.page = 0
    PROVE  walk.before \subseteq walk'.seen /\ walk.total < walk.page * PageSize
<1>1. SelectPage
  <2>1. walk' = walk \/ StartWalk \/ CountServices \/ SelectPage
    BY DEF Next, Tick, CreateDuplicate, CheckName, CreateStep, InsertService, InsertCollides,
           CommitService, AnswerCreate, DbError, Crash, vars
  <2>2. ~StartWalk /\ walk' # walk
    BY DEF StartWalk
  <2>3. CountServices => walk'.page = walk.page
    BY DEF CountServices, WalkInv, Types, Walks
  <2> QED BY <2>1, <2>2, <2>3
<1>2. walk.page \in Nat /\ walk.before \subseteq services /\ walk.total \in Nat
  BY <1>1 DEF SelectPage, WalkInv, Types, Walks
<1>3. PICK rank \in Rankings :
        walk' = [walk EXCEPT !.seen = @ \cup Page(rank, walk.page), !.total = None,
                             !.page = IF Cardinality(Page(rank, walk.page)) = PageSize
                                      THEN @ + 1 ELSE 0]
  BY <1>1 DEF SelectPage
<1> DEFINE rows == Page(rank, walk.page)
           n == Cardinality(services)
<1>4. walk'.seen = walk.seen \cup rows /\ Cardinality(rows) # PageSize
  BY <1>2, <1>3 DEF WalkInv, Types, Walks
<1>5. n < walk.page * PageSize
      /\ \A v \in walk.before : v \in walk'.seen \/ Position(v) > walk.page * PageSize
  BY <1>4, PageRead
<1>6. n \in Nat /\ walk.page * PageSize \in Nat
  BY <1>2, PageEnds, FS_CardinalityType DEF WalkInv, Types
<1>7. walk.total <= n
  BY <1>1 DEF SelectPage, WalkInv, WalkIsOnTrack
<1>8. ASSUME NEW v \in walk.before PROVE Position(v) <= n
  <2>1. rank[v] = Position(v) /\ rank[v] \in 1 .. n
    BY <1>2, RankIsPosition DEF WalkInv
  <2> QED BY <1>6, <2>1
<1>9. ASSUME NEW v \in walk.before PROVE Position(v) \in Nat
  <2>1. rank[v] = Position(v) /\ rank[v] \in 1 .. n
    BY <1>2, RankIsPosition DEF WalkInv
  <2> QED BY <1>6, <2>1
<1>10. \A v \in walk.before : v \in walk'.seen
  <2> HIDE DEF n
  <2> QED BY <1>5, <1>6, <1>8, <1>9
<1>11. walk.total < walk.page * PageSize
  <2> HIDE DEF n
  <2> QED BY <1>2, <1>5, <1>6, <1>7
<1> QED BY <1>10, <1>11

\* For every page size: a client that reads on while pages are full has, at the
\* end, seen every service there was when it began.
THEOREM CatalogWalkIsComplete == Spec => WalkMissesNothing
<1>1. WalkInv /\ [Next]_vars
        => [walk.page > 0 /\ walk'.page = 0 => walk.before \subseteq walk'.seen]_vars
  BY WalkEnds
<1> QED BY WalkInvInit, WalkInvStep, <1>1, PTL DEF Spec, WalkMissesNothing

\* For every page size: the page a client takes for the last comes with a total
\* that does not reach beyond it.
THEOREM CatalogTotalAgrees == Spec => ShortPageIsLast
<1>1. WalkInv /\ [Next]_vars
        => [walk.page > 0 /\ walk'.page = 0 => walk.total < walk.page * PageSize]_vars
  BY WalkEnds
<1> QED BY WalkInvInit, WalkInvStep, <1>1, PTL DEF Spec, ShortPageIsLast
=============================================================================
