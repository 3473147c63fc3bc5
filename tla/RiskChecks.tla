----------------------------- MODULE RiskChecks -----------------------------
(***************************************************************************)
(* The naming facts of a summary, and the name a request's secret gets,    *)
(* over names as sequences of characters: what decides is what slashes,    *)
(* hyphens and a newline in them do.                                       *)
(***************************************************************************)
EXTENDS Naturals, Sequences

CONSTANTS
    Letter, Digit,      \* a-z, 0-9
    OtherChar,          \* capitals, slashes, newlines, ...
    Slash, Newline,
    Environment         \* "dev", "staging", "prod", character by character

Hyphen == "-"
Word == Letter \cup Digit
Char == Word \cup {Hyphen} \cup OtherChar

ASSUME CharAssumption ==
    {Slash, Newline} \subseteq OtherChar /\ Slash # Newline
    /\ OtherChar \cap (Word \cup {Hyphen}) = {}
ASSUME EnvironmentAssumption == Environment \subseteq Seq(Letter)

\* Mutant of Matches: the pattern is not anchored at the end.
MatchesStart(name, n) == n > 0 /\ name[1] \in Letter

\* [a-z][a-z0-9]*(-[a-z0-9]+)* for the first n characters of a name.
Matches(name, n) ==
    /\ n > 0
    /\ name[1] \in Letter
    /\ \A i \in 1 .. n : name[i] \in Word \cup {Hyphen}
    /\ \A i \in 1 .. n : name[i] = Hyphen => i < n /\ name[i + 1] # Hyphen

\* The final $ of the pattern also matches before a newline that ends the name.
NameMatches(name) ==
    \/ Matches(name, Len(name))
    \/ name # <<>> /\ name[Len(name)] = Newline /\ Matches(name, Len(name) - 1)

Embeds(name, env) ==
    \E i \in 0 .. Len(name) - Len(env) : \A j \in 1 .. Len(env) : name[i + j] = env[j]

\* check_naming_convention returns no violation.
Compliant(name, env) == NameMatches(name) /\ ~Embeds(name, env)

\* platform/{service}/{environment}/{logical name}, without the common beginning
SecretName(service, env, name) == service \o <<Slash>> \o env \o <<Slash>> \o name
=============================================================================
