-------------------------- MODULE NarrativeSummary --------------------------
(***************************************************************************)
(* GET /secret-requests/{id}/summary: handlers that read a request and its *)
(* events in two statements while the request moves on, compute the facts, *)
(* and ask one of two LLM providers for prose.  The Anthropic provider is  *)
(* one object per process, which loads its key and makes its client on     *)
(* first use, without a lock.                                              *)
(*                                                                         *)
(* The request is AuditedLifecycle, which the lifecycle's handlers         *)
(* implement: a reader cannot tell them apart.                             *)
(***************************************************************************)
EXTENDS Naturals, Sequences

CONSTANTS
    Reader,         \* handler threads
    RequestId,
    Caller,         \* who creates and approves, e-mails that differ by case being one
    Owner,          \* the caller who owns the service
    None,
    MaxFaults       \* bound: calls that fail

ASSUME OwnerAssumption == Owner \in Caller /\ MaxFaults \in Nat
ASSUME NoneAssumption == None \notin {"key", "200", "500", "not_configured"}

VARIABLES
    status, trail, minted,      \* of AuditedLifecycle
    localstack,     \* settings.aws_endpoint_url is set
    keyIn,          \* where an API key can be found: "env", "secret", "nowhere"
    apiKey,         \* _api_key: "key" or None
    client,         \* _client: "client" or None
    pc,             \* where a thread stands in generate_summary
    req,            \* the request it summarises
    seen,           \* what it has read
    key,            \* api_key, the thread's own copy
    begun,          \* what its call began with
    summary,        \* its last answer
    faults

requestVars == <<status, trail, minted>>
providerVars == <<localstack, keyIn, apiKey, client>>
readerVars == <<pc, req, seen, key, begun, summary>>
vars == <<requestVars, providerVars, readerVars, faults>>

Lifecycle == INSTANCE AuditedLifecycle

-----------------------------------------------------------------------------

NothingSeen == [status |-> None, told |-> 0, mismatch |-> FALSE]
NothingBegun == [findable |-> FALSE, faults |-> 0]
NoSummary == [code |-> None, of |-> None, seen |-> NothingSeen, source |-> None, error |-> None]

\* A key that _load_anthropic_api_key finds unless Secrets Manager fails.
Findable == keyIn = "env" \/ (keyIn = "secret" /\ ~localstack)

Init ==
    /\ Lifecycle!Init
    /\ localstack \in BOOLEAN
    /\ keyIn \in {"env", "secret", "nowhere"}
    /\ apiKey \in IF keyIn = "env" THEN {"key"}
                  ELSE IF Findable THEN {"key", None}
                  ELSE {None}
    /\ client = None
    /\ pc = [t \in Reader |-> "idle"]
    /\ req = [t \in Reader |-> None]
    /\ seen = [t \in Reader |-> NothingSeen]
    /\ key = [t \in Reader |-> None]
    /\ begun = [t \in Reader |-> NothingBegun]
    /\ summary = [t \in Reader |-> NoSummary]
    /\ faults = 0

\* The request moves on.
LifecycleStep ==
    /\ Lifecycle!Next
    /\ UNCHANGED <<providerVars, readerVars, faults>>

\* The key's secret is given a value after the application started.
StoreKey ==
    /\ keyIn = "nowhere"
    /\ keyIn' = "secret"
    /\ UNCHANGED <<requestVars, localstack, apiKey, client, readerVars, faults>>

Fault == faults < MaxFaults /\ faults' = faults + 1

Goto(t, step) == pc' = [pc EXCEPT ![t] = step]

Answer(t, code, source, error) ==
    /\ Goto(t, "idle")
    /\ summary' = [summary EXCEPT ![t] =
          [code |-> code, of |-> req[t], seen |-> seen[t], source |-> source, error |-> error]]
    /\ req' = [req EXCEPT ![t] = None]
    /\ seen' = [seen EXCEPT ![t] = NothingSeen]
    /\ key' = [key EXCEPT ![t] = None]
    /\ begun' = [begun EXCEPT ![t] = NothingBegun]
    /\ UNCHANGED requestVars

-----------------------------------------------------------------------------
(* generate_summary, up to the facts *)

Begin(t, r) ==
    /\ pc[t] = "idle"
    /\ Goto(t, "reading")
    /\ req' = [req EXCEPT ![t] = r]
    /\ begun' = [begun EXCEPT ![t] = [findable |-> Findable, faults |-> faults]]
    /\ summary' = [summary EXCEPT ![t] = NoSummary]
    /\ UNCHANGED <<requestVars, providerVars, seen, key, faults>>

RequestMissing(t) ==
    /\ pc[t] = "reading"
    /\ status[req[t]] = "ABSENT"
    /\ Answer(t, "404", None, None)
    /\ UNCHANGED <<providerVars, faults>>

ReadRequest(t) ==
    /\ pc[t] = "reading"
    /\ status[req[t]] # "ABSENT"
    /\ Goto(t, "listing")
    /\ seen' = [seen EXCEPT ![t].status = status[req[t]]]
    /\ UNCHANGED <<requestVars, providerVars, req, key, begun, summary, faults>>

Pending(r) == {i \in 1 .. Len(trail[r]) : trail[r][i].status = "PENDING"}

\* Mutant of RequestedByOwner: the newest event is taken for the first.
NewestByOwner(r) == trail[r] # <<>> /\ trail[r][Len(trail[r])].actor = Owner

\* The actor of the first PENDING event, or "unknown", which owns nothing.
RequestedByOwner(r) ==
    \E i \in Pending(r) : trail[r][i].actor = Owner /\ \A j \in Pending(r) : i <= j

\* The events, and the facts computed from them.
ListEvents(t) ==
    /\ pc[t] = "listing"
    /\ Goto(t, "facts")
    /\ seen' = [seen EXCEPT ![t].told = Len(trail[req[t]]),
                            ![t].mismatch = ~RequestedByOwner(req[t])]
    /\ UNCHANGED <<requestVars, providerVars, req, key, begun, summary, faults>>

DatabaseFails(t) ==
    /\ pc[t] \in {"reading", "listing"}
    /\ Fault
    /\ Answer(t, "500", None, "database")
    /\ UNCHANGED providerVars

\* LLMProviderConfig: either provider, whatever happens to the table.
ChooseProvider(t) ==
    /\ pc[t] = "facts"
    /\ \E provider \in {"bedrock", "anthropic_api"} : Goto(t, provider)
    /\ UNCHANGED <<requestVars, providerVars, req, seen, key, begun, summary, faults>>

-----------------------------------------------------------------------------
(* BedrockNarrativeProvider *)

AnswerStub(t) ==
    /\ pc[t] = "bedrock"
    /\ localstack
    /\ Answer(t, "200", "stub", None)
    /\ UNCHANGED <<providerVars, faults>>

\* boto3.client raises outside the try.
BedrockClientFails(t) ==
    /\ pc[t] = "bedrock"
    /\ ~localstack
    /\ Fault
    /\ Answer(t, "500", None, "bedrock_client")
    /\ UNCHANGED providerVars

Converse(t) ==
    /\ pc[t] = "bedrock"
    /\ ~localstack
    /\ \/ Answer(t, "200", "bedrock", None) /\ UNCHANGED faults
       \/ Fault /\ Answer(t, "200", None, "failed")
    /\ UNCHANGED providerVars

-----------------------------------------------------------------------------
(* AnthropicAPINarrativeProvider *)

\* _get_client finds a client, or _require_api_key looks at _api_key.
LookForClient(t) ==
    /\ pc[t] = "anthropic_api"
    /\ Goto(t, IF client # None THEN "send" ELSE "require")
    /\ UNCHANGED <<requestVars, providerVars, req, seen, key, begun, summary, faults>>

RequireKey(t) ==
    /\ pc[t] = "require"
    /\ key' = [key EXCEPT ![t] = apiKey]
    /\ Goto(t, IF apiKey # None THEN "make" ELSE "load")
    /\ UNCHANGED <<requestVars, providerVars, req, seen, begun, summary, faults>>

\* Mutant of LoadKey: where the key is, instead of the key.
LoadPlace(t) ==
    /\ pc[t] = "load"
    /\ Findable
    /\ Goto(t, "store")
    /\ key' = [key EXCEPT ![t] = keyIn]
    /\ UNCHANGED <<requestVars, providerVars, req, seen, begun, summary, faults>>

\* _load_anthropic_api_key returns None on any failure.
LoadKey(t) ==
    /\ pc[t] = "load"
    /\ Goto(t, "store")
    /\ \/ key' = [key EXCEPT ![t] = IF Findable THEN "key" ELSE None] /\ UNCHANGED faults
       \/ keyIn # "env" /\ ~localstack /\ Fault /\ UNCHANGED key
    /\ UNCHANGED <<requestVars, providerVars, req, seen, begun, summary>>

\* A thread that found nothing may overwrite a key that another has just stored.
StoreKeyRead(t) ==
    /\ pc[t] = "store"
    /\ apiKey' = key[t]
    /\ Goto(t, "make")
    /\ UNCHANGED <<requestVars, localstack, keyIn, client, req, seen, key, begun, summary,
                   faults>>

\* The thread's own copy of the key is what counts.
MakeClient(t) ==
    /\ pc[t] = "make"
    /\ key[t] # None
    /\ client' = "client"
    /\ Goto(t, "send")
    /\ UNCHANGED <<requestVars, localstack, keyIn, apiKey, req, seen, key, begun, summary,
                   faults>>

\* Mutant of KeyMissing: the shared key is looked at again.
SharedKeyMissing(t) ==
    /\ pc[t] = "make"
    /\ apiKey = None
    /\ Answer(t, "200", None, "not_configured")
    /\ UNCHANGED <<providerVars, faults>>

\* A NarrativeError of _require_api_key, caught and raised again.
KeyMissing(t) ==
    /\ pc[t] = "make"
    /\ key[t] = None
    /\ Answer(t, "200", None, "not_configured")
    /\ UNCHANGED <<providerVars, faults>>

\* Mutant of SendFails: only anthropic.APIError becomes a NarrativeError.
SendEscapes(t) ==
    /\ pc[t] = "send"
    /\ Fault
    /\ \E code \in {"200", "500"} : Answer(t, code, None, "failed")
    /\ UNCHANGED providerVars

Send(t) ==
    /\ pc[t] = "send"
    /\ Answer(t, "200", "anthropic_api", None)
    /\ UNCHANGED <<providerVars, faults>>

\* The client cannot be made, the API refuses, or its answer is not as expected.
SendFails(t) ==
    /\ pc[t] \in {"make", "send"}
    /\ pc[t] = "make" => key[t] # None
    /\ Fault
    /\ Answer(t, "200", None, "failed")
    /\ UNCHANGED providerVars

-----------------------------------------------------------------------------

Next ==
    \/ LifecycleStep
    \/ StoreKey
    \/ \E t \in Reader :
          \/ \E r \in RequestId : Begin(t, r)
          \/ RequestMissing(t) \/ ReadRequest(t) \/ ListEvents(t) \/ DatabaseFails(t)
          \/ ChooseProvider(t)
          \/ AnswerStub(t) \/ BedrockClientFails(t) \/ Converse(t)
          \/ LookForClient(t) \/ RequireKey(t) \/ LoadKey(t) \/ StoreKeyRead(t)
          \/ MakeClient(t) \/ KeyMissing(t) \/ Send(t) \/ SendFails(t)

Spec == Init /\ [][Next]_vars

-----------------------------------------------------------------------------
(* Properties *)

Step == {"idle", "reading", "listing", "facts", "bedrock", "anthropic_api", "require",
         "load", "store", "make", "send"}
Seen == [status : {"PENDING", "PROVISIONING", "PROVISIONED", "FAILED", None},
         told : 0 .. 4, mismatch : BOOLEAN]

SummaryTypeOK ==
    /\ localstack \in BOOLEAN
    /\ keyIn \in {"env", "secret", "nowhere"}
    /\ apiKey \in {"key", None} /\ client \in {"client", None}
    /\ pc \in [Reader -> Step]
    /\ req \in [Reader -> RequestId \cup {None}]
    /\ seen \in [Reader -> Seen]
    /\ key \in [Reader -> {"key", None}]
    /\ begun \in [Reader -> [findable : BOOLEAN, faults : 0 .. MaxFaults]]
    /\ \A t \in Reader :
          /\ summary[t].code \in {"200", "404", "500", None}
          /\ summary[t].of \in RequestId \cup {None}
          /\ summary[t].seen \in Seen
    /\ faults \in 0 .. MaxFaults

\* A summary's facts are those of its request however it moved on between the
\* two reads: the mismatch flag compares its creator with the owner, and the
\* timeline goes at least as far as the status that is called final.
SummaryTellsTheRequest ==
    \A t \in Reader :
        summary[t].code = "200" =>
            LET told == summary[t].seen.told
                events == trail[summary[t].of]
            IN  /\ told \in 1 .. Len(events)
                /\ \E i \in 1 .. told : events[i].status = summary[t].seen.status
                /\ summary[t].seen.mismatch <=> events[1].actor # Owner

\* A key that can be found when a call begins is found: unless something fails
\* meanwhile, the call is not answered "not configured", though threads load the
\* key at the same time and one that began before the key was there stores that
\* it found none.  _require_api_key says so; DECISIONS.md:590 and 605 still say that
\* the key is loaded once, at startup, and that a later one needs a restart.
LateKeyIsUsed ==
    [][\A t \in Reader :
          pc'[t] = "idle" /\ summary'[t].error = "not_configured" /\ pc[t] # "idle" =>
              ~begun[t].findable \/ begun[t].faults # faults]_vars

\* The Anthropic provider never costs a caller the facts: whatever fails once
\* they are computed, and whatever other threads do to the shared client, the
\* answer has them; only Bedrock's client is made where nothing catches it.
FactsSurviveTheAPI ==
    \A t \in Reader :
        summary[t].code = "500" => summary[t].error \in {"database", "bedrock_client"}

-----------------------------------------------------------------------------
(* What the documents say and the code does not do *)

\* api/v1/routes/secret_requests.py, get_secret_request_summary: facts are always
\* present regardless of LLM availability.
FactsAlwaysPresent ==
    \A t \in Reader : summary[t].code = "500" => summary[t].error = "database"
=============================================================================
