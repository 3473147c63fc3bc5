------------------------ MODULE NarrativeSummary_proofs -----------------------
(***************************************************************************)
(* NarrativeSummary for any number of readers and requests: the facts of a *)
(* summary are its request's, the provider's failures do not cost them,    *)
(* and a key that can be found is found.                                   *)
(***************************************************************************)
EXTENDS NarrativeSummary, TLAPS

-----------------------------------------------------------------------------
(* The request: its event list begins with its creation, grows at the end, *)
(* and ends with its status.                                               *)

Statuses == {"PENDING", "PROVISIONING", "PROVISIONED", "FAILED"}
Entries == [status : Statuses \cup {"APPROVED"}, actor : Caller \cup {"system"}]

TrailLength(st) ==
    CASE st = "ABSENT" -> 0 [] st = "PENDING" -> 1 [] st = "PROVISIONING" -> 3 [] OTHER -> 4

LifecycleInv ==
    /\ status \in [RequestId -> Statuses \cup {"ABSENT"}]
    /\ trail \in [RequestId -> Seq(Entries)]
    /\ \A r \in RequestId : Len(trail[r]) = TrailLength(status[r])
    /\ \A r \in RequestId : status[r] # "ABSENT" =>
          trail[r][1].status = "PENDING" /\ trail[r][Len(trail[r])].status = status[r]

LEMMA LifecycleInit == Init => LifecycleInv
  BY DEF Init, Lifecycle!Init, LifecycleInv, TrailLength, Statuses, Entries

\* A move along the table, with the events that belong to it.
LEMMA MoveKeepsTrail ==
    ASSUME LifecycleInv, NEW r \in RequestId, NEW from \in Statuses \cup {"ABSENT"}, NEW to \in Statuses,
           NEW entries \in Seq(Entries), Lifecycle!Move(r, from, to, entries),
           Len(entries) \in 1 .. 2, Len(entries) = TrailLength(to) - TrailLength(from),
           entries[Len(entries)].status = to,
           from = "ABSENT" => entries[1].status = "PENDING"
    PROVE  /\ LifecycleInv'
           /\ \A q \in RequestId : /\ Len(trail[q]) <= Len(trail'[q])
                                   /\ \A i \in 1 .. Len(trail[q]) : trail'[q][i] = trail[q][i]
<1>1. status[r] = from /\ status' = [status EXCEPT ![r] = to] /\ trail' = [trail EXCEPT ![r] = @ \o entries]
  BY DEF Lifecycle!Move
<1>2. trail[r] \in Seq(Entries) /\ Len(trail[r]) = TrailLength(from)
  BY <1>1 DEF LifecycleInv
<1>3. trail'[r] = trail[r] \o entries /\ status'[r] = to
      /\ \A q \in RequestId \ {r} : trail'[q] = trail[q] /\ status'[q] = status[q]
  BY <1>1 DEF LifecycleInv
<1>4. /\ trail'[r] \in Seq(Entries)
      /\ Len(trail'[r]) = Len(trail[r]) + Len(entries)
      /\ \A i \in 1 .. Len(trail[r]) : trail'[r][i] = trail[r][i]
      /\ \A i \in 1 .. Len(entries) : trail'[r][Len(trail[r]) + i] = entries[i]
  BY <1>2, <1>3
<1>5. TrailLength(from) \in Nat /\ TrailLength(to) \in Nat /\ (from = "ABSENT" <=> TrailLength(from) = 0)
  BY DEF TrailLength, Statuses
<1>6. Len(trail'[r]) = TrailLength(to) /\ trail'[r][Len(trail'[r])].status = to
  <2>1. Len(trail'[r]) = TrailLength(to)
    BY <1>2, <1>4, <1>5
  <2>2. Len(entries) \in 1 .. Len(entries)
    OBVIOUS
  <2>3. trail'[r][Len(trail[r]) + Len(entries)] = entries[Len(entries)]
    BY <1>4, <2>2
  <2> QED BY <1>4, <2>1, <2>3
<1>7. trail'[r][1].status = "PENDING"
  <2>1. CASE from = "ABSENT"
    BY <1>2, <1>4, <1>5, <2>1
  <2>2. CASE from # "ABSENT"
    <3>1. trail[r][1].status = "PENDING" /\ 1 \in 1 .. Len(trail[r])
      BY <1>1, <1>2, <1>5, <2>2 DEF LifecycleInv
    <3> QED BY <1>4, <3>1
  <2> QED BY <2>1, <2>2
<1>8. status' \in [RequestId -> Statuses \cup {"ABSENT"}] /\ trail' \in [RequestId -> Seq(Entries)]
  BY <1>1, <1>3, <1>4 DEF LifecycleInv
<1>9. LifecycleInv'
  BY <1>3, <1>6, <1>7, <1>8 DEF LifecycleInv
<1>10. \A q \in RequestId : Len(trail[q]) <= Len(trail'[q]) /\ \A i \in 1 .. Len(trail[q]) : trail'[q][i] = trail[q][i]
  <2> SUFFICES ASSUME NEW q \in RequestId
               PROVE  Len(trail[q]) <= Len(trail'[q]) /\ \A i \in 1 .. Len(trail[q]) : trail'[q][i] = trail[q][i]
    OBVIOUS
  <2>1. Len(trail[q]) \in Nat
    BY DEF LifecycleInv
  <2>2. CASE q = r
    BY <1>4, <2>1, <2>2
  <2>3. CASE q # r
    BY <1>3, <2>1, <2>3
  <2> QED BY <2>2, <2>3
<1> QED BY <1>9, <1>10

LEMMA LifecycleKeepsTrail ==
    ASSUME LifecycleInv, Lifecycle!Next
    PROVE  /\ LifecycleInv'
           /\ \A q \in RequestId : /\ Len(trail[q]) <= Len(trail'[q])
                                   /\ \A i \in 1 .. Len(trail[q]) : trail'[q][i] = trail[q][i]
<1> DEFINE Grows == \A q \in RequestId : /\ Len(trail[q]) <= Len(trail'[q])
                                         /\ \A i \in 1 .. Len(trail[q]) : trail'[q][i] = trail[q][i]
<1> HIDE DEF Grows
<1>1. ASSUME NEW r \in RequestId, NEW c \in Caller, Lifecycle!Open(r, c) PROVE LifecycleInv' /\ Grows
  <2> DEFINE new == <<Lifecycle!Entry("PENDING", c)>>
  <2>1. new \in Seq(Entries) /\ Len(new) = 1 /\ new[1].status = "PENDING"
    BY DEF Lifecycle!Entry, Entries, Statuses
  <2>2. Lifecycle!Move(r, "ABSENT", "PENDING", new)
    BY <1>1 DEF Lifecycle!Open
  <2> HIDE DEF new
  <2> QED BY <2>1, <2>2, MoveKeepsTrail DEF TrailLength, Statuses, Grows
<1>2. ASSUME NEW r \in RequestId, NEW c \in Caller, Lifecycle!Approve(r, c) PROVE LifecycleInv' /\ Grows
  <2> DEFINE new == <<Lifecycle!Entry("APPROVED", c), Lifecycle!Entry("PROVISIONING", "system")>>
  <2>1. new \in Seq(Entries) /\ Len(new) = 2 /\ new[2].status = "PROVISIONING"
    BY DEF Lifecycle!Entry, Entries, Statuses
  <2>2. Lifecycle!Move(r, "PENDING", "PROVISIONING", new)
    BY <1>2 DEF Lifecycle!Approve
  <2> HIDE DEF new
  <2> QED BY <2>1, <2>2, MoveKeepsTrail DEF TrailLength, Statuses, Grows
<1>3. ASSUME NEW r \in RequestId, Lifecycle!Mint(r) PROVE LifecycleInv' /\ Grows
  BY <1>3 DEF Lifecycle!Mint, LifecycleInv, Grows
<1>4. ASSUME NEW r \in RequestId, NEW st \in {"PROVISIONED", "FAILED"},
             Lifecycle!Move(r, "PROVISIONING", st, <<Lifecycle!Entry(st, "system")>>)
      PROVE  LifecycleInv' /\ Grows
  <2> DEFINE new == <<Lifecycle!Entry(st, "system")>>
  <2>1. new \in Seq(Entries) /\ Len(new) = 1 /\ new[1].status = st
    BY DEF Lifecycle!Entry, Entries, Statuses
  <2> HIDE DEF new
  <2>2. Lifecycle!Move(r, "PROVISIONING", st, new)
    BY <1>4 DEF new
  <2> QED BY <2>1, <2>2, MoveKeepsTrail DEF TrailLength, Statuses, Grows
<1>5. LifecycleInv' /\ Grows
  BY <1>1, <1>2, <1>3, <1>4 DEF Lifecycle!Next, Lifecycle!Succeed, Lifecycle!Fail
<1> QED BY <1>5 DEF Grows

-----------------------------------------------------------------------------
(* The readers. *)

Codes == {"200", "404", "500", None}
Errors == {"database", "bedrock_client", "failed", "not_configured", None}
Summaries == [code : Codes, of : RequestId \cup {None}, seen : Seen,
              source : {"stub", "bedrock", "anthropic_api", None}, error : Errors]
Begun == [findable : BOOLEAN, faults : 0 .. MaxFaults]

Types ==
    /\ localstack \in BOOLEAN
    /\ keyIn \in {"env", "secret", "nowhere"}
    /\ apiKey \in {"key", None} /\ client \in {"client", None}
    /\ pc \in [Reader -> Step]
    /\ req \in [Reader -> RequestId \cup {None}]
    /\ seen \in [Reader -> Seen]
    /\ key \in [Reader -> {"key", None}]
    /\ begun \in [Reader -> Begun]
    /\ summary \in [Reader -> Summaries]
    /\ faults \in 0 .. MaxFaults

\* The events of r tell of the status that a reader has seen.
StatusIsTold(r, s) == \E i \in 1 .. Len(trail[r]) : trail[r][i].status = s.status

\* The facts s are those of request r.
FactsOf(r, s) ==
    /\ s.told \in 1 .. Len(trail[r])
    /\ \E i \in 1 .. s.told : trail[r][i].status = s.status
    /\ s.mismatch <=> trail[r][1].actor # Owner

BeforeFacts == {"idle", "reading", "listing"}

\* What a reader has in hand is of its request.
Reading(t) ==
    /\ pc[t] # "idle" => req[t] \in RequestId
    /\ pc[t] = "listing" => StatusIsTold(req[t], seen[t])
    /\ pc[t] \notin BeforeFacts => FactsOf(req[t], seen[t])

\* A reader that was told there is no key began without one, or had bad luck.
KeyHunt(t) ==
    /\ pc[t] # "idle" => (begun[t].findable => Findable) /\ begun[t].faults <= faults
    /\ pc[t] \in {"store", "make"} /\ key[t] = None =>
          ~begun[t].findable \/ begun[t].faults < faults

Answered(t) ==
    /\ summary[t].code = "200" => summary[t].of \in RequestId /\ FactsOf(summary[t].of, summary[t].seen)
    /\ summary[t].code = "500" => summary[t].error \in {"database", "bedrock_client"}

SummaryInv ==
    /\ LifecycleInv
    /\ Types
    /\ \A t \in Reader : Reading(t) /\ KeyHunt(t) /\ Answered(t)

LEMMA SummaryInvInit == Init => SummaryInv
<1> SUFFICES ASSUME Init PROVE SummaryInv
  OBVIOUS
<1>1. NothingSeen \in Seen /\ NothingBegun \in Begun
  BY OwnerAssumption DEF NothingSeen, Seen, NothingBegun, Begun
<1>2. NoSummary \in Summaries /\ NoSummary.code = None
  BY <1>1 DEF NoSummary, Summaries, Codes, Errors
<1>3. Types
  BY <1>1, <1>2, OwnerAssumption DEF Init, Types, Step
<1>4. ASSUME NEW t \in Reader PROVE Reading(t) /\ KeyHunt(t) /\ Answered(t)
  <2>1. pc[t] = "idle" /\ summary[t].code = None
    BY <1>2 DEF Init
  <2>2. None # "200" /\ None # "500"
    BY NoneAssumption
  <2> QED BY <2>1, <2>2 DEF Reading, KeyHunt, Answered, BeforeFacts
<1> QED BY <1>3, <1>4, LifecycleInit DEF SummaryInv

\* Events that are added leave what was told of a request as it is.
LEMMA FactsStay ==
    ASSUME LifecycleInv, LifecycleInv', NEW r \in RequestId, NEW s \in Seen,
           Len(trail[r]) <= Len(trail'[r]), \A i \in 1 .. Len(trail[r]) : trail'[r][i] = trail[r][i]
    PROVE  /\ StatusIsTold(r, s) => StatusIsTold(r, s)'
           /\ FactsOf(r, s) => FactsOf(r, s)'
<1>1. Len(trail[r]) \in Nat /\ Len(trail'[r]) \in Nat /\ s.told \in 0 .. 4
  BY DEF LifecycleInv, Seen
<1>2. StatusIsTold(r, s) => StatusIsTold(r, s)'
  BY <1>1 DEF StatusIsTold
<1>3. ASSUME FactsOf(r, s) PROVE FactsOf(r, s)'
  <2>1. s.told \in 1 .. Len(trail'[r]) /\ trail'[r][1] = trail[r][1]
    BY <1>1, <1>3 DEF FactsOf
  <2>2. \A i \in 1 .. s.told : trail'[r][i] = trail[r][i]
    BY <1>1, <1>3 DEF FactsOf
  <2> QED BY <1>3, <2>1, <2>2 DEF FactsOf
<1> QED BY <1>2, <1>3

LEMMA LifecycleKeepsInv == ASSUME SummaryInv, LifecycleStep PROVE SummaryInv'
<1> USE DEF providerVars, readerVars
<1>1. LifecycleInv' /\ LifecycleInv
  BY LifecycleKeepsTrail DEF SummaryInv, LifecycleStep
<1>2. UNCHANGED <<providerVars, readerVars, faults>>
  BY DEF LifecycleStep
<1>3. Types'
  BY <1>2 DEF SummaryInv, Types
<1>4. \A r \in RequestId, s \in Seen : /\ StatusIsTold(r, s) => StatusIsTold(r, s)'
                                       /\ FactsOf(r, s) => FactsOf(r, s)'
  BY <1>1, LifecycleKeepsTrail, FactsStay DEF LifecycleStep
<1>5. ASSUME NEW t \in Reader PROVE (Reading(t) /\ KeyHunt(t) /\ Answered(t))'
  <2>1. seen[t] \in Seen /\ summary[t].seen \in Seen
    BY DEF SummaryInv, Types, Summaries
  <2>2. Reading(t)'
    <3>1. pc' = pc /\ req' = req /\ seen' = seen
      BY <1>2
    <3>2. pc[t] # "idle" => req[t] \in RequestId
      BY DEF SummaryInv, Reading
    <3>3. ASSUME pc[t] = "listing" PROVE StatusIsTold(req[t], seen[t])'
      BY <1>4, <2>1, <3>1, <3>2, <3>3 DEF SummaryInv, Reading, StatusIsTold
    <3>4. ASSUME pc[t] \notin BeforeFacts PROVE FactsOf(req[t], seen[t])'
      <4>1. req[t] \in RequestId /\ FactsOf(req[t], seen[t])
        BY <3>2, <3>4 DEF SummaryInv, Reading, BeforeFacts
      <4> QED BY <1>4, <2>1, <3>1, <4>1 DEF FactsOf
    <3> QED BY <3>1, <3>2, <3>3, <3>4 DEF Reading
  <2>3. KeyHunt(t)'
    BY <1>2 DEF SummaryInv, KeyHunt, Findable
  <2>4. Answered(t)'
    BY <1>2, <1>4, <2>1 DEF SummaryInv, Answered, FactsOf
  <2> QED BY <2>2, <2>3, <2>4
<1> QED BY <1>1, <1>3, <1>5 DEF SummaryInv

\* A step of reader t leaves the others' hold on the invariant alone.
LEMMA OthersKeepInv ==
    ASSUME SummaryInv, Types', UNCHANGED <<status, trail>>, NEW t \in Reader,
           \A u \in Reader \ {t} : /\ pc'[u] = pc[u] /\ req'[u] = req[u] /\ seen'[u] = seen[u]
                                   /\ key'[u] = key[u] /\ begun'[u] = begun[u] /\ summary'[u] = summary[u],
           faults <= faults', Findable => Findable',
           Reading(t)', KeyHunt(t)', Answered(t)'
    PROVE  SummaryInv'
<1>1. LifecycleInv'
  BY DEF SummaryInv, LifecycleInv
<1>2. faults \in Nat /\ faults' \in Nat /\ \A u \in Reader : begun[u].faults \in Nat
  BY OwnerAssumption DEF SummaryInv, Types, Begun
<1>3. ASSUME NEW u \in Reader \ {t} PROVE Reading(u)' /\ KeyHunt(u)' /\ Answered(u)'
  <2>1. Reading(u)'
    BY DEF SummaryInv, Reading, StatusIsTold, FactsOf
  <2>2. KeyHunt(u)'
    BY <1>2 DEF SummaryInv, KeyHunt
  <2>3. Answered(u)'
    <3>1. summary'[u] = summary[u] /\ trail' = trail /\ Answered(u)
      BY DEF SummaryInv
    <3>2. FactsOf(summary[u].of, summary[u].seen) => FactsOf(summary[u].of, summary[u].seen)'
      BY <3>1 DEF FactsOf
    <3> QED BY <3>1, <3>2 DEF Answered
  <2> QED BY <2>1, <2>2, <2>3
<1> QED BY <1>1, <1>3 DEF SummaryInv

LEMMA AnswerKeepsInv ==
    ASSUME SummaryInv, NEW t \in Reader, NEW code \in {"200", "404", "500"},
           NEW source \in {"stub", "bedrock", "anthropic_api", None}, NEW error \in Errors,
           pc[t] # "idle", Answer(t, code, source, error), UNCHANGED providerVars,
           faults' \in 0 .. MaxFaults, faults <= faults',
           code = "200" => pc[t] \notin BeforeFacts,
           code = "500" => error \in {"database", "bedrock_client"}
    PROVE  SummaryInv'
<1> USE DEF requestVars, providerVars
<1>1. pc' \in [Reader -> Step] /\ req' \in [Reader -> RequestId \cup {None}]
      /\ key' \in [Reader -> {"key", None}]
  BY DEF Answer, Goto, SummaryInv, Types, Step
<1>2. seen' \in [Reader -> Seen] /\ begun' \in [Reader -> Begun]
  <2>1. NothingSeen \in Seen /\ NothingBegun \in Begun
    BY OwnerAssumption DEF NothingSeen, Seen, NothingBegun, Begun
  <2> QED BY <2>1 DEF Answer, SummaryInv, Types
<1>3. [code |-> code, of |-> req[t], seen |-> seen[t], source |-> source, error |-> error] \in Summaries
  BY DEF Summaries, Codes, SummaryInv, Types
<1>4. summary' \in [Reader -> Summaries]
      /\ summary'[t] = [code |-> code, of |-> req[t], seen |-> seen[t], source |-> source, error |-> error]
  BY <1>3 DEF Answer, SummaryInv, Types
<1>5. Types'
  BY <1>1, <1>2, <1>4 DEF SummaryInv, Types
<1>6. pc'[t] = "idle" /\ UNCHANGED <<status, trail>>
  BY DEF Answer, Goto, SummaryInv, Types
<1>7. \A u \in Reader \ {t} : /\ pc'[u] = pc[u] /\ req'[u] = req[u] /\ seen'[u] = seen[u]
                              /\ key'[u] = key[u] /\ begun'[u] = begun[u] /\ summary'[u] = summary[u]
  BY DEF Answer, Goto, SummaryInv, Types
<1>8. Reading(t)' /\ KeyHunt(t)'
  BY <1>6 DEF Reading, KeyHunt, BeforeFacts
<1>9. Answered(t)'
  <2>1. code = "200" => req[t] \in RequestId /\ FactsOf(req[t], seen[t])
    BY DEF SummaryInv, Reading
  <2> QED BY <1>4, <1>6, <2>1 DEF Answered, FactsOf
<1>10. Findable => Findable'
  BY DEF Findable
<1> QED BY <1>5, <1>6, <1>7, <1>8, <1>9, <1>10, OthersKeepInv

\* A step that has the facts and does not answer yet.
LEMMA AskingKeepsInv ==
    ASSUME SummaryInv, NEW t \in Reader, NEW step \in Step \ BeforeFacts, NEW k \in {"key", None},
           pc[t] \notin BeforeFacts, Goto(t, step), key' = [key EXCEPT ![t] = k],
           UNCHANGED <<requestVars, localstack, keyIn, req, seen, begun, summary>>,
           apiKey' \in {"key", None}, client' \in {"client", None},
           faults' \in 0 .. MaxFaults, faults <= faults',
           step \in {"store", "make"} /\ k = None => ~begun[t].findable \/ begun[t].faults < faults'
    PROVE  SummaryInv'
<1> USE DEF requestVars
<1>1. pc' \in [Reader -> Step] /\ key' \in [Reader -> {"key", None}] /\ pc'[t] = step /\ key'[t] = k
  BY DEF Goto, SummaryInv, Types
<1>2. Types'
  BY <1>1 DEF SummaryInv, Types
<1>3. \A u \in Reader \ {t} : pc'[u] = pc[u] /\ key'[u] = key[u]
  BY DEF Goto, SummaryInv, Types
<1>4. Reading(t)'
  <2>1. req[t] \in RequestId /\ FactsOf(req[t], seen[t])
    BY DEF SummaryInv, Reading, BeforeFacts
  <2> QED BY <1>1, <2>1 DEF Reading, BeforeFacts, FactsOf
<1>5. KeyHunt(t)'
  <2>1. (begun[t].findable => Findable) /\ begun[t].faults <= faults
    BY DEF SummaryInv, KeyHunt, BeforeFacts
  <2>2. begun[t].faults \in Nat /\ faults \in Nat /\ faults' \in Nat
    BY OwnerAssumption DEF SummaryInv, Types, Begun
  <2> QED BY <1>1, <2>1, <2>2 DEF KeyHunt, Findable
<1>6. Answered(t)' /\ (Findable => Findable')
  BY DEF SummaryInv, Answered, FactsOf, Findable
<1> QED BY <1>2, <1>3, <1>4, <1>5, <1>6, OthersKeepInv

LEMMA FaultCounts == ASSUME Types, Fault PROVE faults' \in 0 .. MaxFaults /\ faults < faults'
  BY OwnerAssumption DEF Types, Fault

\* The steps up to the facts, one lemma each.
LEMMA BeginKeepsInv == ASSUME SummaryInv, NEW t \in Reader, NEW r \in RequestId, Begin(t, r) PROVE SummaryInv'
<1> USE DEF requestVars, providerVars
<1>1. UNCHANGED <<requestVars, providerVars, seen, key, faults>>
  BY DEF Begin
<1>2. pc' \in [Reader -> Step] /\ req' \in [Reader -> RequestId \cup {None}]
  BY DEF Begin, Goto, SummaryInv, Types, Step
<1>3. [findable |-> Findable, faults |-> faults] \in Begun
  BY DEF SummaryInv, Types, Begun, Findable
<1>4. NoSummary \in Summaries /\ NoSummary.code = None
  BY OwnerAssumption DEF NoSummary, Summaries, Codes, Errors, NothingSeen, Seen
<1>5. begun' \in [Reader -> Begun] /\ summary' \in [Reader -> Summaries]
  BY <1>3, <1>4 DEF Begin, SummaryInv, Types
<1>6. Types'
  BY <1>1, <1>2, <1>5 DEF SummaryInv, Types
<1>7. pc'[t] = "reading" /\ req'[t] = r /\ begun'[t] = [findable |-> Findable, faults |-> faults]
      /\ summary'[t].code = None
  BY <1>4 DEF Begin, Goto, SummaryInv, Types
<1>8. \A u \in Reader \ {t} : /\ pc'[u] = pc[u] /\ req'[u] = req[u]
                              /\ begun'[u] = begun[u] /\ summary'[u] = summary[u]
  BY DEF Begin, Goto, SummaryInv, Types
<1>9. faults \in Nat /\ (Findable' <=> Findable)
  BY <1>1, OwnerAssumption DEF SummaryInv, Types, Findable
<1>10. Reading(t)' /\ KeyHunt(t)' /\ Answered(t)'
  BY <1>1, <1>7, <1>9, NoneAssumption DEF Reading, KeyHunt, Answered, BeforeFacts
<1> QED BY <1>1, <1>6, <1>8, <1>9, <1>10, OthersKeepInv

LEMMA ReadRequestKeepsInv == ASSUME SummaryInv, NEW t \in Reader, ReadRequest(t) PROVE SummaryInv'
<1> USE DEF requestVars, providerVars
<1> DEFINE r == req[t]
<1>1. UNCHANGED <<requestVars, providerVars, req, key, begun, summary, faults>> /\ pc[t] = "reading"
  BY DEF ReadRequest
<1>2. r \in RequestId /\ status[r] \in Statuses
  BY <1>1 DEF ReadRequest, SummaryInv, Reading, LifecycleInv
<1>3. seen[t] \in Seen /\ [seen[t] EXCEPT !.status = status[r]] \in Seen
  BY <1>2 DEF SummaryInv, Types, Seen, Statuses
<1>4. seen' = [seen EXCEPT ![t] = [seen[t] EXCEPT !.status = status[r]]]
  BY DEF ReadRequest
<1>5. seen' \in [Reader -> Seen] /\ seen'[t].status = status[r]
  BY <1>3, <1>4 DEF SummaryInv, Types, Seen
<1>6. pc' \in [Reader -> Step] /\ pc'[t] = "listing"
  BY DEF ReadRequest, Goto, SummaryInv, Types, Step
<1>7. Types'
  BY <1>1, <1>5, <1>6 DEF SummaryInv, Types
<1>8. \A u \in Reader \ {t} : pc'[u] = pc[u] /\ seen'[u] = seen[u]
  BY DEF ReadRequest, Goto, SummaryInv, Types
<1>9. Len(trail[r]) \in 1 .. Len(trail[r]) /\ trail[r][Len(trail[r])].status = status[r]
  BY <1>2 DEF SummaryInv, LifecycleInv, TrailLength, Statuses
<1>10. \E i \in 1 .. Len(trail[r]) : trail[r][i].status = seen'[t].status
  BY <1>5, <1>9
<1>11. Reading(t)'
  BY <1>1, <1>2, <1>6, <1>10 DEF Reading, BeforeFacts, StatusIsTold
<1>12. KeyHunt(t)' /\ Answered(t)' /\ (Findable => Findable')
  BY <1>1, <1>6 DEF SummaryInv, KeyHunt, Answered, FactsOf, Findable
<1>13. faults \in Nat
  BY OwnerAssumption DEF SummaryInv, Types
<1> QED BY <1>1, <1>7, <1>8, <1>11, <1>12, <1>13, OthersKeepInv

\* The first event of a request is its creation, so RequestedByOwner finds who asked.
LEMMA RequesterIsFirst ==
    ASSUME LifecycleInv, NEW r \in RequestId, status[r] # "ABSENT"
    PROVE  RequestedByOwner(r) <=> trail[r][1].actor = Owner
<1>1. Len(trail[r]) \in Nat /\ 1 \in 1 .. Len(trail[r]) /\ trail[r][1].status = "PENDING"
  BY DEF LifecycleInv, TrailLength
<1>2. 1 \in Pending(r) /\ \A i \in Pending(r) : i \in Nat /\ 1 <= i
  BY <1>1 DEF Pending
<1> QED BY <1>2 DEF RequestedByOwner

WithFacts(s, told, other) == [s EXCEPT !.told = told, !.mismatch = other]

LEMMA WithFactsIsSeen ==
    ASSUME NEW s \in Seen, NEW told \in 1 .. 4, NEW other \in BOOLEAN
    PROVE  /\ WithFacts(s, told, other) \in Seen
           /\ WithFacts(s, told, other).told = told
           /\ WithFacts(s, told, other).status = s.status
           /\ WithFacts(s, told, other).mismatch = other
<1> DEFINE part == [s EXCEPT !.told = told]
<1>1. part \in Seen
  BY DEF Seen
<1>2. [s EXCEPT !.told = told, !.mismatch = other] = [part EXCEPT !.mismatch = other]
  BY DEF Seen
<1>3. part.told = told /\ part.status = s.status
  BY DEF Seen
<1> HIDE DEF part
<1>4. [part EXCEPT !.mismatch = other] \in Seen
  BY <1>1 DEF Seen
<1>5. LET all == [part EXCEPT !.mismatch = other]
      IN  all.told = part.told /\ all.status = part.status /\ all.mismatch = other
  BY <1>1 DEF Seen
<1> QED BY <1>2, <1>3, <1>4, <1>5 DEF WithFacts

LEMMA ListEventsKeepsInv == ASSUME SummaryInv, NEW t \in Reader, ListEvents(t) PROVE SummaryInv'
<1> USE DEF requestVars, providerVars
<1> DEFINE r == req[t]
<1>1. UNCHANGED <<requestVars, providerVars, req, key, begun, summary, faults>> /\ pc[t] = "listing"
  BY DEF ListEvents
<1>2. r \in RequestId /\ \E i \in 1 .. Len(trail[r]) : trail[r][i].status = seen[t].status
  BY <1>1 DEF SummaryInv, Reading, StatusIsTold
<1>3. Len(trail[r]) \in 1 .. 4 /\ status[r] # "ABSENT"
  <2>1. Len(trail[r]) = TrailLength(status[r]) /\ status[r] \in Statuses \cup {"ABSENT"}
    BY <1>2 DEF SummaryInv, LifecycleInv
  <2>2. Len(trail[r]) # 0
    BY <1>2
  <2> QED BY <2>1, <2>2 DEF TrailLength, Statuses
<1>4. RequestedByOwner(r) <=> trail[r][1].actor = Owner
  BY <1>2, <1>3, RequesterIsFirst DEF SummaryInv
<1>5. PICK other \in BOOLEAN : other = ~RequestedByOwner(r)
  BY DEF RequestedByOwner
<1> DEFINE told == WithFacts(seen[t], Len(trail[r]), other)
<1>6. seen[t] \in Seen
  BY DEF SummaryInv, Types
<1>7. told \in Seen /\ told.told = Len(trail[r]) /\ told.status = seen[t].status
      /\ told.mismatch = other
  BY <1>3, <1>6, WithFactsIsSeen
<1>8. seen' = [seen EXCEPT ![t] = told]
  BY <1>5 DEF ListEvents, WithFacts
<1> HIDE DEF told
<1>9. seen' \in [Reader -> Seen] /\ seen'[t] = told
  BY <1>7, <1>8 DEF SummaryInv, Types
<1>10. pc' \in [Reader -> Step] /\ pc'[t] = "facts"
  BY DEF ListEvents, Goto, SummaryInv, Types, Step
<1>11. Types'
  BY <1>1, <1>9, <1>10 DEF SummaryInv, Types
<1>12. \A u \in Reader \ {t} : pc'[u] = pc[u] /\ seen'[u] = seen[u]
  BY <1>8 DEF ListEvents, Goto, SummaryInv, Types
<1>13. FactsOf(r, told)
  <2>1. told.told \in 1 .. Len(trail[r]) /\ \E i \in 1 .. told.told : trail[r][i].status = told.status
    BY <1>2, <1>3, <1>7
  <2>2. told.mismatch <=> trail[r][1].actor # Owner
    BY <1>4, <1>5, <1>7
  <2> QED BY <2>1, <2>2 DEF FactsOf
<1>14. Reading(t)'
  BY <1>1, <1>2, <1>9, <1>10, <1>13 DEF Reading, BeforeFacts, FactsOf
<1>15. KeyHunt(t)' /\ Answered(t)' /\ (Findable => Findable')
  BY <1>1, <1>10 DEF SummaryInv, KeyHunt, Answered, FactsOf, Findable
<1>16. faults \in Nat
  BY OwnerAssumption DEF SummaryInv, Types
<1> QED BY <1>1, <1>11, <1>12, <1>14, <1>15, <1>16, OthersKeepInv

LEMMA Constants ==
    ASSUME SummaryInv
    PROVE  /\ faults \in 0 .. MaxFaults /\ faults <= faults
           /\ apiKey \in {"key", None} /\ client \in {"client", None}
           /\ \A t \in Reader : key[t] \in {"key", None}
  BY OwnerAssumption DEF SummaryInv, Types

\* Steps that ask: key' is key for all but two of them.
LEMMA SameKey == ASSUME SummaryInv, NEW t \in Reader PROVE key = [key EXCEPT ![t] = key[t]]
  BY DEF SummaryInv, Types

LEMMA LoadKeyKeepsInv == ASSUME SummaryInv, NEW t \in Reader, LoadKey(t) PROVE SummaryInv'
<1>1. pc[t] \notin BeforeFacts /\ Goto(t, "store") /\ "store" \in Step \ BeforeFacts
  BY DEF LoadKey, BeforeFacts, Step
<1>2. (begun[t].findable => Findable) /\ begun[t].faults <= faults /\ begun[t].faults \in Nat
  BY <1>1, OwnerAssumption DEF SummaryInv, Types, KeyHunt, BeforeFacts, Begun
<1>3. UNCHANGED <<requestVars, providerVars, req, seen, begun, summary>>
  BY DEF LoadKey
<1>4. CASE key' = [key EXCEPT ![t] = IF Findable THEN "key" ELSE None] /\ UNCHANGED faults
  <2> DEFINE k == IF Findable THEN "key" ELSE None
  <2>1. k \in {"key", None} /\ (k = None => ~begun[t].findable)
    BY <1>2, NoneAssumption
  <2> HIDE DEF k
  <2>2. key' = [key EXCEPT ![t] = k]
    BY <1>4 DEF k
  <2> QED BY <1>1, <1>3, <1>4, <2>1, <2>2, Constants, AskingKeepsInv DEF requestVars, providerVars
<1>5. CASE Fault /\ UNCHANGED key
  <2>1. faults' \in 0 .. MaxFaults /\ faults < faults'
    BY <1>5, FaultCounts DEF SummaryInv
  <2>2. faults \in Nat /\ faults' \in Nat
    BY <2>1, OwnerAssumption, Constants
  <2>3. faults <= faults' /\ begun[t].faults < faults'
    BY <1>2, <2>1, <2>2
  <2>4. key' = [key EXCEPT ![t] = key[t]]
    BY <1>5, SameKey
  <2> QED BY <1>1, <1>3, <2>1, <2>3, <2>4, Constants, AskingKeepsInv DEF requestVars, providerVars
<1> QED BY <1>4, <1>5 DEF LoadKey

LEMMA RequireKeyKeepsInv == ASSUME SummaryInv, NEW t \in Reader, RequireKey(t) PROVE SummaryInv'
<1>1. pc[t] \notin BeforeFacts
  BY DEF RequireKey, BeforeFacts
<1>2. PICK step \in {"make", "load"} : Goto(t, step) /\ (step = "make" => apiKey # None)
  BY DEF RequireKey
<1>3. step \in Step \ BeforeFacts /\ step # "store"
  BY <1>2 DEF Step, BeforeFacts
<1>4. key' = [key EXCEPT ![t] = apiKey]
      /\ UNCHANGED <<requestVars, providerVars, req, seen, begun, summary, faults>>
  BY DEF RequireKey
<1> QED BY <1>1, <1>2, <1>3, <1>4, Constants, AskingKeepsInv DEF requestVars, providerVars

LEMMA OtherAskingKeepsInv ==
    ASSUME SummaryInv, NEW t \in Reader,
           ChooseProvider(t) \/ LookForClient(t) \/ StoreKeyRead(t) \/ MakeClient(t)
    PROVE  SummaryInv'
<1>1. PICK step \in {"bedrock", "anthropic_api", "send", "require", "make"} :
          Goto(t, step) /\ (step = "make" => pc[t] = "store")
  BY DEF ChooseProvider, LookForClient, StoreKeyRead, MakeClient
<1>2. step \in Step \ BeforeFacts /\ step # "store"
  BY <1>1 DEF Step, BeforeFacts
<1>3. pc[t] \notin BeforeFacts
  BY DEF ChooseProvider, LookForClient, StoreKeyRead, MakeClient, BeforeFacts
<1>4. step = "make" /\ key[t] = None => ~begun[t].findable \/ begun[t].faults < faults
  BY <1>1 DEF SummaryInv, KeyHunt
<1>5. key' = [key EXCEPT ![t] = key[t]]
  BY SameKey DEF ChooseProvider, LookForClient, StoreKeyRead, MakeClient
<1>6. UNCHANGED <<requestVars, localstack, keyIn, req, seen, begun, summary, faults>>
  BY DEF ChooseProvider, LookForClient, StoreKeyRead, MakeClient, requestVars, providerVars
<1>7. apiKey' \in {"key", None} /\ client' \in {"client", None}
  BY Constants DEF ChooseProvider, LookForClient, StoreKeyRead, MakeClient, providerVars
<1> QED BY <1>1, <1>2, <1>3, <1>4, <1>5, <1>6, <1>7, Constants, AskingKeepsInv

LEMMA AnsweringKeepsInv ==
    ASSUME SummaryInv, NEW t \in Reader,
           \/ RequestMissing(t) \/ DatabaseFails(t) \/ AnswerStub(t) \/ BedrockClientFails(t)
           \/ Converse(t) \/ KeyMissing(t) \/ Send(t) \/ SendFails(t)
    PROVE  SummaryInv'
<1>1. Fault => faults' \in 0 .. MaxFaults /\ faults <= faults'
  <2>1. Fault => faults' \in 0 .. MaxFaults /\ faults < faults'
    BY FaultCounts DEF SummaryInv
  <2> QED BY <2>1, Constants, OwnerAssumption
<1>2. faults' = faults => faults' \in 0 .. MaxFaults /\ faults <= faults'
  BY Constants
<1>3. ASSUME RequestMissing(t) PROVE SummaryInv'
  BY <1>2, <1>3, AnswerKeepsInv DEF RequestMissing, Errors
<1>4. ASSUME DatabaseFails(t) PROVE SummaryInv'
  BY <1>1, <1>4, AnswerKeepsInv DEF DatabaseFails, Errors
<1>5. ASSUME AnswerStub(t) PROVE SummaryInv'
  BY <1>2, <1>5, AnswerKeepsInv DEF AnswerStub, Errors, BeforeFacts
<1>6. ASSUME BedrockClientFails(t) PROVE SummaryInv'
  BY <1>1, <1>6, AnswerKeepsInv DEF BedrockClientFails, Errors
<1>7. ASSUME Converse(t) PROVE SummaryInv'
  BY <1>1, <1>2, <1>7, AnswerKeepsInv DEF Converse, Errors, BeforeFacts
<1>8. ASSUME KeyMissing(t) PROVE SummaryInv'
  BY <1>2, <1>8, AnswerKeepsInv DEF KeyMissing, Errors, BeforeFacts
<1>9. ASSUME Send(t) PROVE SummaryInv'
  BY <1>2, <1>9, AnswerKeepsInv DEF Send, Errors, BeforeFacts
<1>10. ASSUME SendFails(t) PROVE SummaryInv'
  BY <1>1, <1>10, AnswerKeepsInv DEF SendFails, Errors, BeforeFacts
<1> QED BY <1>3, <1>4, <1>5, <1>6, <1>7, <1>8, <1>9, <1>10

LEMMA StoreKeyKeepsInv == ASSUME SummaryInv, StoreKey PROVE SummaryInv'
<1> USE DEF requestVars, readerVars
<1>1. LifecycleInv' /\ Types'
  BY DEF StoreKey, SummaryInv, LifecycleInv, Types
<1>2. Findable => Findable'
  BY DEF StoreKey, Findable
<1>3. ASSUME NEW t \in Reader PROVE Reading(t)' /\ KeyHunt(t)' /\ Answered(t)'
  BY <1>2 DEF StoreKey, SummaryInv, Reading, KeyHunt, Answered, StatusIsTold, FactsOf
<1> QED BY <1>1, <1>3 DEF SummaryInv

LEMMA SummaryInvStep == SummaryInv /\ [Next]_vars => SummaryInv'
<1> SUFFICES ASSUME SummaryInv, [Next]_vars PROVE SummaryInv'
  OBVIOUS
<1>1. CASE UNCHANGED vars
  <2> USE <1>1 DEF vars, requestVars, providerVars, readerVars
  <2>1. LifecycleInv' /\ Types'
    BY DEF SummaryInv, LifecycleInv, Types
  <2>2. ASSUME NEW t \in Reader PROVE Reading(t)' /\ KeyHunt(t)' /\ Answered(t)'
    BY DEF SummaryInv, Reading, KeyHunt, Answered, StatusIsTold, FactsOf, Findable
  <2> QED BY <2>1, <2>2 DEF SummaryInv
<1> QED
  BY <1>1, LifecycleKeepsInv, StoreKeyKeepsInv, BeginKeepsInv, ReadRequestKeepsInv, ListEventsKeepsInv,
     LoadKeyKeepsInv, RequireKeyKeepsInv, OtherAskingKeepsInv, AnsweringKeepsInv
     DEF Next

-----------------------------------------------------------------------------

\* Every variable keeps its type, in every reachable state.
THEOREM SummaryTypeCorrect == Spec => []SummaryTypeOK
<1>1. SummaryInv => SummaryTypeOK
  BY DEF SummaryInv, Types, SummaryTypeOK, Summaries, Codes, Begun
<1> QED BY SummaryInvInit, SummaryInvStep, <1>1, PTL DEF Spec

\* A summary's facts are its request's, however the request moved on meanwhile.
THEOREM SummaryTells == Spec => []SummaryTellsTheRequest
<1>1. SummaryInv => SummaryTellsTheRequest
  BY DEF SummaryInv, Answered, FactsOf, SummaryTellsTheRequest
<1> QED BY SummaryInvInit, SummaryInvStep, <1>1, PTL DEF Spec

\* No failure of the Anthropic provider costs a caller the facts.
THEOREM FactsSurvive == Spec => []FactsSurviveTheAPI
<1>1. SummaryInv => FactsSurviveTheAPI
  BY DEF SummaryInv, Answered, FactsSurviveTheAPI
<1> QED BY SummaryInvInit, SummaryInvStep, <1>1, PTL DEF Spec

Asks(t) ==
    \/ \E r \in RequestId : Begin(t, r)
    \/ ReadRequest(t) \/ ListEvents(t) \/ ChooseProvider(t) \/ LookForClient(t) \/ RequireKey(t)
    \/ LoadKey(t) \/ StoreKeyRead(t) \/ MakeClient(t)
AnswersElse(t) ==
    \/ RequestMissing(t) \/ DatabaseFails(t) \/ AnswerStub(t) \/ BedrockClientFails(t)
    \/ Converse(t) \/ Send(t) \/ SendFails(t)

\* A key that is there when a call begins is found, unless something fails.
THEOREM KeyIsFound == Spec => LateKeyIsUsed
<1>1. ASSUME SummaryInv, [Next]_vars, NEW t \in Reader, pc'[t] = "idle",
             summary'[t].error = "not_configured", pc[t] # "idle"
      PROVE  ~begun[t].findable \/ begun[t].faults # faults
  <2>1. KeyMissing(t)
    <3>1. pc' # pc
      BY <1>1
    <3>2. ~(LifecycleStep \/ StoreKey \/ UNCHANGED vars)
      BY <3>1 DEF LifecycleStep, StoreKey, vars, readerVars
    <3>3. PICK u \in Reader : Asks(u) \/ AnswersElse(u) \/ KeyMissing(u)
      BY <1>1, <3>2 DEF Next, Asks, AnswersElse
    <3>4. \E step \in Step : Goto(u, step)
      BY <3>3 DEF Asks, AnswersElse, KeyMissing, Begin, RequestMissing, ReadRequest, ListEvents,
                  DatabaseFails, ChooseProvider, AnswerStub, BedrockClientFails, Converse,
                  LookForClient, RequireKey, LoadKey, StoreKeyRead, MakeClient, Send, SendFails,
                  Answer, Step
    <3>5. u = t
      BY <1>1, <3>4 DEF Goto, SummaryInv, Types
    <3>6. ~Asks(t)
      BY <1>1 DEF Asks, Begin, ReadRequest, ListEvents, ChooseProvider, LookForClient, RequireKey,
                  LoadKey, StoreKeyRead, MakeClient, Goto, SummaryInv, Types
    <3>7. ~AnswersElse(t)
      <4> SUFFICES ASSUME AnswersElse(t) PROVE FALSE
        OBVIOUS
      <4>1. PICK code, source, error : Answer(t, code, source, error) /\ error # "not_configured"
        BY NoneAssumption DEF AnswersElse, RequestMissing, DatabaseFails, AnswerStub,
                              BedrockClientFails, Converse, Send, SendFails
      <4>2. summary'[t].error = error
        BY <1>1, <4>1 DEF Answer, SummaryInv, Types
      <4> QED BY <1>1, <4>1, <4>2
    <3> QED BY <3>3, <3>5, <3>6, <3>7
  <2>2. pc[t] = "make" /\ key[t] = None
    BY <2>1 DEF KeyMissing
  <2>3. begun[t].faults \in Nat /\ faults \in Nat
    BY <1>1, OwnerAssumption DEF SummaryInv, Types, Begun
  <2> QED BY <1>1, <2>2, <2>3 DEF SummaryInv, KeyHunt
<1>2. SummaryInv /\ [Next]_vars => [\A t \in Reader :
          pc'[t] = "idle" /\ summary'[t].error = "not_configured" /\ pc[t] # "idle" =>
              ~begun[t].findable \/ begun[t].faults # faults]_vars
  BY <1>1
<1> QED BY SummaryInvInit, SummaryInvStep, <1>2, PTL DEF Spec, LateKeyIsUsed
=============================================================================
