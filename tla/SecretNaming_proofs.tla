-------------------------- MODULE SecretNaming_proofs -------------------------
(***************************************************************************)
(* Which service a compliant request is for can be read off the name of    *)
(* its secret, whatever the alphabet and however long the names: the last  *)
(* two slashes are those that SecretName put there.                        *)
(***************************************************************************)
EXTENDS SecretNaming, ServiceCatalog_proofs, SequenceTheorems

Slashless(s) == \A i \in 1 .. Len(s) : s[i] # Slash

\* A sequence is split in one way at a slash with none behind it.
LEMMA SplitAtLastSlash ==
    ASSUME NEW a \in Seq(Char), NEW b \in Seq(Char), NEW x \in Seq(Char), NEW y \in Seq(Char),
           Slashless(x), Slashless(y), a \o <<Slash>> \o x = b \o <<Slash>> \o y
    PROVE  a = b
<1> DEFINE l == a \o <<Slash>> \o x
           r == b \o <<Slash>> \o y
<1>1. Slash \in Char
  BY CharAssumption DEF Char
<1>2. Len(l) = Len(a) + 1 + Len(x) /\ Len(r) = Len(b) + 1 + Len(y)
  BY <1>1
<1>3. /\ l[Len(a) + 1] = Slash /\ \A i \in 1 .. Len(a) : l[i] = a[i]
      /\ \A i \in 1 .. Len(x) : l[Len(a) + 1 + i] = x[i]
  BY <1>1
<1>4. /\ r[Len(b) + 1] = Slash /\ \A i \in 1 .. Len(b) : r[i] = b[i]
      /\ \A i \in 1 .. Len(y) : r[Len(b) + 1 + i] = y[i]
  BY <1>1
<1>5. l = r
  OBVIOUS
<1> HIDE DEF l, r
<1>6. ~(Len(a) > Len(b))
  <2> SUFFICES ASSUME Len(a) > Len(b) PROVE FALSE
    OBVIOUS
  <2>1. Len(a) - Len(b) \in 1 .. Len(y)
    BY <1>2, <1>5
  <2>2. r[Len(b) + 1 + (Len(a) - Len(b))] = y[Len(a) - Len(b)]
    BY <1>4, <2>1
  <2>3. Len(b) + 1 + (Len(a) - Len(b)) = Len(a) + 1
    OBVIOUS
  <2> QED BY <1>3, <1>5, <2>1, <2>2, <2>3 DEF Slashless
<1>7. ~(Len(b) > Len(a))
  <2> SUFFICES ASSUME Len(b) > Len(a) PROVE FALSE
    OBVIOUS
  <2>1. Len(b) - Len(a) \in 1 .. Len(x)
    BY <1>2, <1>5
  <2>2. l[Len(a) + 1 + (Len(b) - Len(a))] = x[Len(b) - Len(a)]
    BY <1>3, <2>1
  <2>3. Len(a) + 1 + (Len(b) - Len(a)) = Len(b) + 1
    OBVIOUS
  <2> QED BY <1>4, <1>5, <2>1, <2>2, <2>3 DEF Slashless
<1>8. Len(a) = Len(b)
  BY <1>6, <1>7
<1>9. \A i \in 1 .. Len(a) : a[i] = b[i]
  BY <1>3, <1>4, <1>5, <1>8
<1> QED BY <1>8, <1>9, SeqEqual

LEMMA WordsHaveNoSlash == Slash \notin Word \cup {Hyphen} /\ Slash # Newline
  BY CharAssumption

LEMMA EnvironmentIsSlashless ==
    ASSUME NEW env \in Environment PROVE env \in Seq(Char) /\ Slashless(env)
<1>1. env \in Seq(Letter)
  BY EnvironmentAssumption
<1>2. \A i \in 1 .. Len(env) : env[i] \in Letter
  BY <1>1
<1>3. env \in Seq(Char)
  BY <1>1, <1>2 DEF Char, Word
<1> QED BY <1>2, <1>3, WordsHaveNoSlash DEF Slashless, Word

\* The naming check lets no slash pass, not even beside a newline at the end.
LEMMA CompliantIsSlashless ==
    ASSUME NEW env, NEW name \in Seq(Char), Compliant(name, env)
    PROVE  Slashless(name)
<1>1. CASE Matches(name, Len(name))
  BY <1>1, WordsHaveNoSlash DEF Matches, Slashless
<1>2. CASE name # <<>> /\ name[Len(name)] = Newline /\ Matches(name, Len(name) - 1)
  <2>1. \A i \in 1 .. Len(name) : i \in 1 .. Len(name) - 1 \/ i = Len(name)
    OBVIOUS
  <2> QED BY <1>2, <2>1, WordsHaveNoSlash DEF Matches, Slashless
<1> QED BY <1>1, <1>2 DEF Compliant, NameMatches

\* Two services can only share a secret name if they share their own.
LEMMA SecretNameTellsTheService ==
    ASSUME NEW n \in Name, NEW m \in Name, NEW p \in Asked, NEW q \in Asked,
           SecretName(n, p[1], p[2]) = SecretName(m, q[1], q[2])
    PROVE  n = m
<1>1. /\ p[1] \in Environment /\ q[1] \in Environment
      /\ p[2] \in Seq(Char) /\ q[2] \in Seq(Char) /\ n \in Seq(Char) /\ m \in Seq(Char)
      /\ Compliant(p[2], p[1]) /\ Compliant(q[2], q[1])
  BY NamesAreSpelled DEF Asked
<1>2. Slashless(p[2]) /\ Slashless(q[2])
  BY <1>1, CompliantIsSlashless
<1>3. p[1] \in Seq(Char) /\ q[1] \in Seq(Char) /\ Slashless(p[1]) /\ Slashless(q[1])
  BY <1>1, EnvironmentIsSlashless
<1>4. <<Slash>> \in Seq(Char)
  BY CharAssumption DEF Char
<1>5. n \o <<Slash>> \o p[1] \in Seq(Char) /\ m \o <<Slash>> \o q[1] \in Seq(Char)
  BY <1>1, <1>3, <1>4
<1>6. n \o <<Slash>> \o p[1] = m \o <<Slash>> \o q[1]
  BY <1>1, <1>2, <1>5, SplitAtLastSlash DEF SecretName
<1> QED BY <1>1, <1>3, <1>6, SplitAtLastSlash

LEMMA ServicesStay == [Next]_vars => services \subseteq services'
  BY DEF Next, vars, Tick, CreateDuplicate, CheckName, CreateStep, InsertService, InsertCollides,
         CommitService, AnswerCreate, DbError, Crash, StartWalk, CountServices, SelectPage

\* A new service shares no secret name with an older one, in any reachable step.
THEOREM NewServicesConfuseNothing == Spec => RegistrationsConfuseNothing
<1>1. CatInv /\ [Next]_vars
      => \A v \in services' \ services : \A u \in services : SecretsOf(u) \cap SecretsOf(v) = {}
  <2> SUFFICES ASSUME CatInv, [Next]_vars, NEW v \in services' \ services, NEW u \in services,
                      NEW s \in SecretsOf(u) \cap SecretsOf(v)
               PROVE  FALSE
    OBVIOUS
  <2>1. CatInv' /\ u \in services'
    BY CatInvStep, ServicesStay
  <2>2. u.name \in Name /\ v.name \in Name /\ u.name # v.name
    BY <2>1 DEF CatInv, Types, Stored, NamesAreUnique
  <2>3. PICK p \in Asked, q \in Asked : s = SecretName(u.name, p[1], p[2]) /\ s = SecretName(v.name, q[1], q[2])
    BY DEF SecretsOf
  <2> QED BY <2>2, <2>3, SecretNameTellsTheService
<1> QED BY CatInvInit, CatInvStep, <1>1, PTL DEF Spec, RegistrationsConfuseNothing
=============================================================================
