---------------------------- MODULE ContainerProofs ----------------------------
(***************************************************************************)
(* The properties of Container, for any number of Opens and calls, any     *)
(* tenants, file IDs and normalizers.  First what the key builder does to  *)
(* texts, then an inductive invariant that says whose each map is and what *)
(* each step of an Open and of a call has established.                     *)
(***************************************************************************)
EXTENDS Container, TLAPS, WellFoundedInduction

(***************************************************************************)
(* Texts and keys                                                          *)
(***************************************************************************)
LEMMA LeastNatural ==
  ASSUME NEW S \in SUBSET Nat, S # {}
  PROVE  \E i \in S : \A j \in S : i <= j
  <1>1. PICK i \in S : \A j \in S : ~(<<j, i>> \in OpToRel(<, Nat))
    BY NatLessThanWellFounded, WFMin
  <1>2. \A j \in S : ~(j < i)
    BY <1>1 DEF OpToRel
  <1> QED BY <1>2

LEMMA Extremes ==
  ASSUME NEW n \in Nat, NEW S \in SUBSET (1..n), S # {}
  PROVE  /\ \E i \in S : \A j \in S : i <= j
         /\ \E i \in S : \A j \in S : j <= i
  <1>1. \E i \in S : \A j \in S : i <= j
    BY LeastNatural
  <1>2. \E i \in S : \A j \in S : j <= i
    <2> DEFINE T == {n - i : i \in S}
    <2>1. T \in SUBSET Nat /\ T # {}
      <3>1. PICK i \in S : TRUE
        OBVIOUS
      <3>2. n - i \in T
        OBVIOUS
      <3>3. \A k \in T : k \in Nat
        OBVIOUS
      <3> QED BY <3>2, <3>3
    <2>2. PICK m \in T : \A k \in T : m <= k
      BY <2>1, LeastNatural
    <2>3. PICK i \in S : m = n - i
      BY <2>2
    <2>4. \A j \in S : n - i <= n - j
      BY <2>2, <2>3
    <2> QED BY <2>4
  <1> QED BY <1>1, <1>2

\* What Trim leaves is a text without the slashes at its ends; nothing if there
\* was nothing but slashes.
LEMMA TrimIsText ==
  ASSUME NEW text \in Seq(STRING)
  PROVE  /\ Trim(text) \in Seq(STRING)
         /\ Tokens(Trim(text)) # {} => Trim(text) # <<>>
         /\ \A i \in DOMAIN Trim(text) : Trim(text)[i] \in Tokens(text)
  <1> DEFINE Kept == {i \in DOMAIN text : text[i] # "/"}
             first == CHOOSE i \in Kept : \A j \in Kept : i <= j
             last == CHOOSE i \in Kept : \A j \in Kept : j <= i
  <1>1. CASE Kept = {}
    BY <1>1 DEF Trim, Tokens
  <1>2. CASE Kept # {}
    <2>1. first \in 1..Len(text) /\ last \in 1..Len(text)
      <3>1. Kept \in SUBSET (1..Len(text)) /\ Len(text) \in Nat
        OBVIOUS
      <3>2. /\ \E i \in Kept : \A j \in Kept : i <= j
            /\ \E i \in Kept : \A j \in Kept : j <= i
        <4> HIDE DEF Kept
        <4> QED BY <1>2, <3>1, Extremes
      <3>3. first \in Kept /\ last \in Kept
        BY <3>2
      <3> QED BY <3>1, <3>3
    <2>2. Trim(text) = SubSeq(text, first, last)
      BY <1>2 DEF Trim
    <2> HIDE DEF first, last, Kept
    <2>3. SubSeq(text, first, last) \in Seq(STRING)
      BY <2>1
    <2>4. \A i \in DOMAIN SubSeq(text, first, last) :
             SubSeq(text, first, last)[i] \in Tokens(text)
      BY <2>1 DEF Tokens
    <2> QED BY <2>2, <2>3, <2>4 DEF Tokens
  <1> QED BY <1>1, <1>2

LEMMA IdentifierIsText ==
  ASSUME NEW t \in Snapshots
  PROVE  Text(Identifier(t)) /\ t.id \in Maps
  <1>1. \A u \in Tenants : Text(u.id) /\ Text(u.code)
    BY TextsAssumption
  <1>2. t.id \in Ids /\ t.code \in {u.code : u \in Tenants}
    BY DEF Snapshots
  <1>3. Text(t.id) /\ Text(t.code)
    BY <1>1, <1>2 DEF Ids
  <1> QED BY <1>2, <1>3 DEF Identifier, Maps

\* An identifier that the builder accepts is one name: a tenant has one directory,
\* at the top.
LEMMA IdentifierIsName ==
  ASSUME NEW text, Text(text), text # <<>>, ValidIdentifier(text)
  PROVE  Len(text) = 1 /\ text[1] \notin Separators \cup Dots
  <1>1. text \in Seq(STRING) /\ Len(text) \in Nat \ {0}
    BY DEF Text
  <1>2. \A i \in 1..Len(text) : text[i] \notin Separators \cup Dots
    BY <1>1 DEF ValidIdentifier, Tokens
  <1>3. Len(text) > 1 => {text[1], text[2]} \cap Separators # {}
    <2>1. \A i \in 1..Len(text) - 1 : {text[i], text[i + 1]} \cap Separators # {}
      BY DEF Text
    <2> QED BY <1>1, <2>1
  <1>4. Len(text) = 1
    <2> SUFFICES ASSUME Len(text) > 1 PROVE FALSE
      BY <1>1
    <2>1. 1 \in 1..Len(text) /\ 2 \in 1..Len(text)
      BY <1>1
    <2>2. text[1] \notin Separators /\ text[2] \notin Separators
      BY <1>2, <2>1
    <2> QED BY <1>3, <2>2
  <1> QED BY <1>2, <1>4

\* One text after another.
LEMMA TwoTexts ==
  ASSUME NEW S, NEW a \in Seq(S), NEW b \in Seq(S)
  PROVE  /\ a \o b \in Seq(S) /\ Len(a \o b) = Len(a) + Len(b)
         /\ Len(a) \in Nat /\ Len(b) \in Nat
         /\ \A i \in 1..Len(a) : (a \o b)[i] = a[i]
         /\ \A i \in Len(a) + 1..Len(a) + Len(b) : (a \o b)[i] = b[i - Len(a)]
  OBVIOUS

\* What the parts of a text may be (the provers do not know "/" to be a STRING).
Parts == STRING \cup Separators

LEMMA TextHasParts ==
  ASSUME NEW text \in Seq(STRING)
  PROVE  text \in Seq(Parts)
  <1>1. \A S, T : S \subseteq T => \A s \in Seq(S) : s \in Seq(T)
    OBVIOUS
  <1> QED BY <1>1 DEF Parts

LEMMA OneName ==
  ASSUME NEW S, NEW name \in S
  PROVE  <<name>> \in Seq(S) /\ Len(<<name>>) = 1 /\ <<name>>[1] = name
  OBVIOUS

LEMMA KeyIsBelowDirectory ==
  ASSUME NEW mode, NEW t \in Snapshots, NEW text \in Files, Buildable(mode, t, text)
  PROVE  LET home == Directory(mode, t)
             key  == Build(mode, t, text)
         IN  /\ Len(home) < Len(key)
             /\ SubSeq(key, 1, Len(home)) = home
             /\ Tokens(key) \cap Dots = {}
             /\ home # <<>> => /\ Len(Identifier(t)) = 1
                              /\ key[1] = Identifier(t)[1] /\ key[2] = "/"
  <1> DEFINE home == Directory(mode, t)
             rest == Trim(text)
  <1>1. rest \in Seq(STRING) /\ rest # <<>> /\ Tokens(rest) \cap Dots = {}
    <2>1. text \in Seq(STRING)
      BY TextsAssumption DEF Text
    <2>2. ValidFile(rest)
      BY DEF Buildable
    <2>3. Tokens(rest) # {} /\ Tokens(rest) \cap Dots = {}
      BY <2>2 DEF ValidFile
    <2> QED BY <2>1, <2>3, TrimIsText
  <1>2. CASE home = <<>>
    <2>1. Build(mode, t, text) = rest
      BY <1>1, <1>2 DEF Build
    <2> HIDE DEF home, rest
    <2> QED BY <1>1, <1>2, <2>1 DEF home
  <1>3. CASE home # <<>>
    <2> DEFINE name == Identifier(t)
    <2>1. Len(name) = 1 /\ name[1] \notin Dots /\ name \in Seq(STRING)
      <3>1. Text(name) /\ name # <<>> /\ ValidIdentifier(name)
        BY <1>3, IdentifierIsText DEF Buildable, Directory
      <3> HIDE DEF name
      <3> QED BY <3>1, IdentifierIsName DEF Text
    <2>2. home = name \o <<"/">> /\ Build(mode, t, text) = home \o rest
      BY <1>3 DEF Directory, Build
    <2> HIDE DEF home, rest, name
    <2>0. name \in Seq(Parts) /\ rest \in Seq(Parts)
      BY <1>1, <2>1, TextHasParts
    <2>3. home \in Seq(Parts) /\ Len(home) = 2 /\ home[1] = name[1] /\ home[2] = "/"
      <3> DEFINE slash == <<"/">>
      <3>1. slash \in Seq(Parts) /\ Len(slash) = 1 /\ slash[1] = "/"
        <4>1. "/" \in Parts
          BY DEF Parts, Separators
        <4> QED BY <4>1, OneName, Zenon
      <3> HIDE DEF slash
      <3>2. home = name \o slash
        BY <2>2 DEF slash
      <3>3. 1 \in 1..Len(name) /\ 2 \in Len(name) + 1..Len(name) + Len(slash)
        BY <2>1, <3>1
      <3>4. /\ name \o slash \in Seq(Parts) /\ Len(name \o slash) = Len(name) + Len(slash)
            /\ \A i \in 1..Len(name) : (name \o slash)[i] = name[i]
            /\ \A i \in Len(name) + 1..Len(name) + Len(slash) :
                  (name \o slash)[i] = slash[i - Len(name)]
        BY <2>0, <3>1, TwoTexts
      <3>5. (name \o slash)[1] = name[1] /\ (name \o slash)[2] = slash[2 - Len(name)]
        BY <3>3, <3>4
      <3> QED BY <2>1, <3>1, <3>2, <3>4, <3>5
    <2> DEFINE key == home \o rest
    <2>4. /\ key \in Seq(Parts) /\ Len(key) = 2 + Len(rest) /\ Len(rest) > 0
          /\ key[1] = name[1] /\ key[2] = "/"
          /\ \A i \in 3..Len(key) : key[i] = rest[i - 2]
      <3>1. Len(rest) \in Nat /\ Len(rest) > 0
        BY <1>1
      <3>2. /\ key \in Seq(Parts) /\ Len(key) = 2 + Len(rest)
            /\ key[1] = home[1] /\ key[2] = home[2]
            /\ \A i \in 3..Len(key) : key[i] = rest[i - 2]
        <4>1. /\ key \in Seq(Parts) /\ Len(key) = Len(home) + Len(rest)
              /\ \A i \in 1..Len(home) : key[i] = home[i]
              /\ \A i \in Len(home) + 1..Len(home) + Len(rest) : key[i] = rest[i - Len(home)]
          <5>1. home \in Seq(Parts) /\ rest \in Seq(Parts)
            BY <2>0, <2>3
          <5> QED BY <5>1, TwoTexts
        <4> HIDE DEF key
        <4> QED BY <2>3, <3>1, <4>1
      <3> QED BY <2>3, <3>1, <3>2
    <2>5. SubSeq(key, 1, 2) = home
      BY <2>3, <2>4
    <2>6. Tokens(key) \cap Dots = {}
      <3>1. \A i \in 1..Len(rest) : rest[i] \notin Dots
        BY <1>1 DEF Tokens
      <3>2. \A i \in 1..Len(key) : key[i] \notin Dots
        <4> SUFFICES ASSUME NEW i \in 1..Len(key) PROVE key[i] \notin Dots
          OBVIOUS
        <4>1. CASE i = 1
          BY <2>1, <2>4, <4>1
        <4>2. CASE i = 2
          BY <2>4, <4>2 DEF Dots
        <4>3. CASE i > 2
          <5>1. i \in 3..Len(key) /\ i - 2 \in 1..Len(rest)
            BY <1>1, <2>4, <4>3
          <5> QED BY <2>4, <3>1, <5>1
        <4> QED BY <4>1, <4>2, <4>3
      <3> HIDE DEF key
      <3> QED BY <2>4, <3>2 DEF Tokens
    <2> HIDE DEF key
    <2> QED BY <1>1, <2>1, <2>2, <2>3, <2>4, <2>5, <2>6 DEF key, home, name
  <1> QED BY <1>2, <1>3

(***************************************************************************)
(* The invariant                                                           *)
(***************************************************************************)
\* What each step of an Open has established.
OpenPhase(c) ==
  /\ step[c] \in {"code", "load", "resolve", "open"} =>
       /\ tenant[c] \in Snapshots /\ asked[c] \in Tenants
       /\ tenant[c].id = asked[c].id
       /\ \E t \in stoodFor[c] : tenant[c].code = t.code
  /\ step[c] = "code" => who[context[c]] \in stoodFor[c]
  /\ step[c] \in {"resolve", "open"} => config[c] \in Configs
  /\ step[c] = "open" => /\ config[c].values = c
                         /\ opened[c] \in Contents
                         /\ c \notin kept => values[c] = opened[c]

OpenPhases == \A c \in Opens : OpenPhase(c)

\* A request that was sent is its container's, with a map of its own.
SentPhase(r) ==
  /\ pc[r] # "idle" => step[Of(r)] = "open"
  /\ sent[r] # None =>
       /\ pc[r] # "idle"
       /\ sent[r].map = r
       /\ Of(r) \notin kept => sent[r].values = opened[Of(r)]
       /\ sent[r].tenant = tenant[Of(r)]
       /\ \E f \in Files : /\ Buildable(config[Of(r)].mode, tenant[Of(r)], f)
                           /\ sent[r].key = Build(config[Of(r)].mode, tenant[Of(r)], f)

SentPhases == \A r \in Requests : SentPhase(r)

\* What is shared is a tenant's map, one of a call, or a container's that a
\* normalizer has kept.
SharedMaps == shared \subseteq Ids \cup Requests \cup kept

IInv == TypeOK /\ OpenPhases /\ SentPhases /\ SharedMaps

LEMMA InitIInv == Init => IInv
  <1> SUFFICES ASSUME Init PROVE IInv
    OBVIOUS
  <1>1. TypeOK
    <2>1. \A r \in Requests : call[r].file \in Files
      BY CallsAssumption DEF Init
    <2>2. 0 \in 0..Len(Normalizers)
      BY NormalizersAssumption
    <2> QED BY <2>1, <2>2 DEF Init, TypeOK, Maps, Steps
  <1>2. OpenPhases /\ SentPhases /\ SharedMaps
    BY DEF Init, OpenPhases, OpenPhase, SentPhases, SentPhase, SharedMaps
  <1> QED BY <1>1, <1>2 DEF IInv

(***************************************************************************)
(* The steps                                                               *)
(***************************************************************************)
LEMMA CallIsOf ==
  ASSUME IInv, NEW r \in Requests
  PROVE  Of(r) \in Opens
  <1>1. call \in [Requests -> [of : Opens, file : Files,
                               kind : {"configuration", "get", "other"}]]
    BY CallsAssumption DEF IInv, TypeOK
  <1> QED BY <1>1 DEF Of

LEMMA ResolvedIsBackend ==
  ASSUME NEW backend, Registered(backend) # {}
  PROVE  Resolved(backend) \in DOMAIN Backends
  <1>1. Len(Backends) \in Nat /\ DOMAIN Backends = 1..Len(Backends)
    BY BackendsAssumption
  <1>2. Registered(backend) \in SUBSET (1..Len(Backends))
    BY <1>1 DEF Registered
  <1>3. \E i \in Registered(backend) : \A j \in Registered(backend) : j <= i
    BY <1>1, <1>2, Extremes
  <1> QED BY <1>1, <1>2, <1>3 DEF Resolved

LEMMA TenantIsSnapshot ==
  ASSUME NEW t \in Tenants
  PROVE  /\ t.id \in Ids /\ t.code \in {u.code : u \in Tenants}
         /\ t \in Snapshots
  <1>1. t.id \in Ids /\ t.code \in {u.code : u \in Tenants}
    BY DEF Ids
  <1>2. t = [id |-> t.id, code |-> t.code]
    BY TextsAssumption
  <1> QED BY <1>1, <1>2 DEF Snapshots

LEMMA SwitchStep ==
  ASSUME IInv, NEW x \in Contexts, Switch(x)
  PROVE  IInv'
  <1>1. TypeOK'
    <2>1. UNCHANGED <<values, shared, context, step, tenant, config, asked, opened, call, pc,
                      passed, file, sent, kept>>
      BY DEF Switch, reqs
    <2>2. PICK t \in Tenants :
            /\ who' = [who EXCEPT ![x] = t]
            /\ stoodFor' = [c \in Opens |-> IF context[c] = x /\ step[c] = "code"
                                            THEN stoodFor[c] \cup {t} ELSE stoodFor[c]]
      BY DEF Switch
    <2>3. who' \in [Contexts -> Tenants]
      BY <2>2 DEF IInv, TypeOK
    <2>4. \A c \in Opens : stoodFor[c] \in SUBSET Tenants
      BY DEF IInv, TypeOK
    <2>5. stoodFor' \in [Opens -> SUBSET Tenants]
      BY <2>2, <2>4
    <2> QED BY <2>1, <2>3, <2>5 DEF IInv, TypeOK
  <1>2. OpenPhases'
    <2>1. PICK t \in Tenants :
            /\ who' = [who EXCEPT ![x] = t]
            /\ stoodFor' = [c \in Opens |-> IF context[c] = x /\ step[c] = "code"
                                            THEN stoodFor[c] \cup {t} ELSE stoodFor[c]]
      BY DEF Switch
    <2>2. UNCHANGED <<values, context, step, tenant, config, asked, opened, kept>>
      BY DEF Switch
    <2>3. ASSUME NEW c \in Opens PROVE OpenPhase(c)'
      <3>1. OpenPhase(c) /\ context[c] \in Contexts
        BY DEF IInv, OpenPhases, TypeOK
      <3>2. stoodFor[c] \subseteq stoodFor'[c]
        BY <2>1
      <3>3. step[c] = "code" => who'[context[c]] \in stoodFor'[c]
        <4>1. CASE context[c] = x
          BY <2>1, <3>1, <4>1 DEF IInv, TypeOK
        <4>2. CASE context[c] # x
          BY <2>1, <3>1, <4>2 DEF IInv, TypeOK, OpenPhase
        <4> QED BY <4>1, <4>2
      <3> QED BY <2>2, <3>1, <3>2, <3>3 DEF OpenPhase
    <2> QED BY <2>3 DEF OpenPhases
  <1>3. SentPhases' /\ SharedMaps'
    <2>1. UNCHANGED <<shared, step, tenant, config, opened, kept, call, pc, sent>>
      BY DEF Switch, reqs
    <2> QED BY <2>1 DEF IInv, SentPhases, SentPhase, SharedMaps, Of
  <1> QED BY <1>1, <1>2, <1>3 DEF IInv

\* No container's map is shared, unless it was kept, so that its contents stay.
LEMMA WriteStep ==
  ASSUME IInv, NEW m \in Maps, Write(m)
  PROVE  IInv'
  <1>1. TypeOK'
    BY DEF IInv, TypeOK, Write, opens, reqs
  <1>2. m \notin Opens \ kept
    BY DistinctAssumption DEF IInv, SharedMaps, Write
  <1>3. OpenPhases'
    <2>1. \A c \in Opens \ kept : values'[c] = values[c]
      <3>1. PICK content \in Contents : values' = [values EXCEPT ![m] = content]
        BY DEF Write
      <3> QED BY <1>2, <3>1 DEF IInv, TypeOK, Maps
    <2>2. UNCHANGED <<who, step, tenant, asked, stoodFor, context, config, opened, kept>>
      BY DEF Write, opens
    <2>3. ASSUME NEW c \in Opens PROVE OpenPhase(c)'
      <3>1. OpenPhase(c)
        BY DEF IInv, OpenPhases
      <3> QED BY <2>1, <2>2, <3>1 DEF OpenPhase
    <2> QED BY <2>3 DEF OpenPhases
  <1>4. SentPhases' /\ SharedMaps'
    BY DEF IInv, SentPhases, SentPhase, SharedMaps, Write, opens, reqs, Of
  <1> QED BY <1>1, <1>3, <1>4 DEF IInv

\* A step of one Open leaves the others, and every request, alone.
LEMMA OpenFrame ==
  ASSUME IInv, NEW c \in Opens, OpenStep(c)
  PROVE  /\ step[c] \in {"idle", "code", "load", "resolve"}
         /\ \A d \in Opens \ {c} :
              /\ step'[d] = step[d] /\ tenant'[d] = tenant[d] /\ config'[d] = config[d]
              /\ asked'[d] = asked[d] /\ stoodFor'[d] = stoodFor[d]
              /\ opened'[d] = opened[d] /\ values'[d] = values[d]
         /\ UNCHANGED <<who, shared, context, reqs, kept>>
  <1>1. SnapshotID(c) \/ SnapshotCode(c) \/ Load(c) \/ LoadFails(c) \/ ResolveFails(c)
          \/ Return(c)
    BY DEF OpenStep
  <1>2. /\ step[c] \in {"idle", "code", "load", "resolve"}
        /\ UNCHANGED <<who, shared, context, reqs, kept>>
    BY <1>1, Zenon DEF SnapshotID, SnapshotCode, Load, LoadFails, ResolveFails, Return, app
  <1>3. \A d \in Opens \ {c} :
          /\ step'[d] = step[d] /\ tenant'[d] = tenant[d] /\ asked'[d] = asked[d]
          /\ stoodFor'[d] = stoodFor[d]
    BY <1>1, Zenon DEF IInv, TypeOK, SnapshotID, SnapshotCode, Load, LoadFails, ResolveFails,
         Return, Advance
  <1>4. \A d \in Opens \ {c} :
          config'[d] = config[d] /\ opened'[d] = opened[d] /\ values'[d] = values[d]
    BY <1>1, Zenon DEF IInv, TypeOK, SnapshotID, SnapshotCode, Load, LoadFails, ResolveFails,
         Return, app, Maps
  <1> QED BY <1>2, <1>3, <1>4

LEMMA OpenStepSent ==
  ASSUME IInv, NEW c \in Opens, OpenStep(c)
  PROVE  SentPhases' /\ SharedMaps'
  <1>1. \A r \in Requests : pc[r] # "idle" => Of(r) \in Opens \ {c}
    BY OpenFrame, CallIsOf DEF IInv, SentPhases, SentPhase
  <1>2. SentPhases'
    BY <1>1, OpenFrame DEF IInv, SentPhases, SentPhase, reqs, Of
  <1>3. SharedMaps'
    BY OpenFrame DEF IInv, SharedMaps
  <1> QED BY <1>2, <1>3

\* For the Open that takes the step, what it establishes; for the others, nothing new.
LEMMA OpenStepPhases ==
  ASSUME IInv, NEW c \in Opens, OpenStep(c)
  PROVE  OpenPhases'
  <1>1. ASSUME NEW d \in Opens \ {c} PROVE OpenPhase(d)'
    BY OpenFrame DEF IInv, OpenPhases, OpenPhase
  <1>2. OpenPhase(c)'
    <2>0. OpenPhase(c)
      BY DEF IInv, OpenPhases
    <2>1. CASE SnapshotID(c)
      <3>1. who[context[c]] \in Tenants
        BY DEF IInv, TypeOK
      <3>2. who[context[c]] \in Snapshots
        BY <3>1, TenantIsSnapshot
      <3>3. /\ tenant'[c] = who[context[c]] /\ asked'[c] = who[context[c]]
            /\ stoodFor'[c] = {who[context[c]]} /\ step'[c] = "code"
            /\ UNCHANGED <<who, context>>
        BY <2>1 DEF IInv, TypeOK, SnapshotID, Advance, app
      <3> QED BY <3>1, <3>2, <3>3 DEF OpenPhase
    <2>2. CASE SnapshotCode(c)
      <3> DEFINE now == who[context[c]]
      <3>1. now \in Tenants /\ tenant[c] \in Snapshots /\ asked[c] \in Tenants
        BY <2>0, <2>2 DEF IInv, TypeOK, OpenPhase, SnapshotCode
      <3>2. tenant'[c] = [id |-> tenant[c].id, code |-> now.code]
        BY <2>2, <3>1 DEF IInv, TypeOK, SnapshotCode, Snapshots
      <3>3. tenant'[c] \in Snapshots
        <4>1. now.code \in {u.code : u \in Tenants} /\ tenant[c].id \in Ids
          BY <3>1, TenantIsSnapshot DEF Snapshots
        <4> HIDE DEF now
        <4> QED BY <3>2, <4>1 DEF Snapshots
      <3>4. tenant[c].id = asked[c].id /\ now \in stoodFor[c]
        BY <2>0, <2>2 DEF OpenPhase, SnapshotCode
      <3>5. step'[c] = "load" /\ UNCHANGED <<asked, stoodFor>>
        BY <2>2 DEF IInv, TypeOK, SnapshotCode, Advance
      <3> HIDE DEF now
      <3> QED BY <3>1, <3>2, <3>3, <3>4, <3>5 DEF OpenPhase
    <2>3. CASE Load(c)
      <3>1. PICK backend \in BackendNames, mode \in Modes :
              config' = [config EXCEPT ![c] = [backend |-> backend, mode |-> mode,
                                               values |-> tenant[c].id]]
        BY <2>3 DEF Load
      <3>2. tenant[c].id \in Maps
        BY <2>0, <2>3 DEF OpenPhase, Load, Snapshots, Maps
      <3>3. config'[c] \in Configs
        BY <3>1, <3>2 DEF IInv, TypeOK, Configs
      <3> QED BY <2>0, <2>3, <3>3 DEF IInv, TypeOK, OpenPhase, Load, Advance, app
    <2>4. CASE LoadFails(c) \/ ResolveFails(c)
      BY <2>4 DEF IInv, TypeOK, OpenPhase, LoadFails, ResolveFails, Advance
    <2>5. CASE Return(c)
      <3>1. config[c] \in Configs /\ c \in Maps
        BY <2>0, <2>5 DEF OpenPhase, Return, Maps
      <3>2. config'[c] \in Configs /\ config'[c].values = c
        BY <2>5, <3>1 DEF IInv, TypeOK, Return, Configs
      <3>3. values'[c] = opened'[c] /\ opened'[c] \in Contents /\ UNCHANGED kept
        BY <2>5, <3>1 DEF IInv, TypeOK, Return, Configs
      <3> QED BY <2>0, <2>5, <3>2, <3>3 DEF IInv, TypeOK, OpenPhase, Return, Advance
    <2> QED BY <2>1, <2>2, <2>3, <2>4, <2>5 DEF OpenStep
  <1> QED BY <1>1, <1>2 DEF OpenPhases

\* An Open that returns has found its backend.
LEMMA OpenStepType ==
  ASSUME IInv, NEW c \in Opens, OpenStep(c)
  PROVE  TypeOK'
  <1>0. OpenPhase(c)
    BY DEF IInv, OpenPhases
  <1>1. CASE SnapshotID(c)
    <2>1. who[context[c]] \in Tenants /\ who[context[c]] \in Snapshots
      BY TenantIsSnapshot DEF IInv, TypeOK
    <2> QED BY <1>1, <2>1 DEF IInv, TypeOK, SnapshotID, Advance, Steps, app, reqs
  <1>2. CASE SnapshotCode(c)
    <2>1. tenant'[c] \in Snapshots
      <3>1. OpenPhase(c)' /\ step'[c] = "load"
        BY <1>2, OpenStepPhases DEF IInv, TypeOK, OpenPhases, SnapshotCode, Advance
      <3> QED BY <3>1 DEF OpenPhase
    <2> QED BY <1>2, <2>1 DEF IInv, TypeOK, SnapshotCode, Advance, Steps, app, reqs
  <1>3. CASE Load(c)
    <2>1. config'[c] \in Configs
      BY <1>3, OpenStepPhases DEF IInv, TypeOK, OpenPhases, OpenPhase, Load, Advance
    <2> QED BY <1>3, <2>1 DEF IInv, TypeOK, Load, Advance, Steps, app, reqs
  <1>4. CASE LoadFails(c) \/ ResolveFails(c)
    BY <1>4 DEF IInv, TypeOK, LoadFails, ResolveFails, Advance, Steps, app, reqs
  <1>5. CASE Return(c)
    <2>1. config[c] \in Configs /\ c \in Maps
      BY <1>0, <1>5 DEF OpenPhase, Return, Maps
    <2>2. config'[c] \in Configs /\ config'[c].backend = config[c].backend
      BY <1>5, <2>1 DEF IInv, TypeOK, Return, Configs
    <2>3. values[config[c].values] \in Contents
      BY <2>1 DEF IInv, TypeOK, Configs
    <2>4. \A d \in Opens : step'[d] = "open" => Registered(config'[d].backend) # {}
      <3>1. \A d \in Opens : step[d] = "open" => Registered(config[d].backend) # {}
        BY DEF IInv, TypeOK
      <3>2. \A d \in Opens \ {c} : step'[d] = step[d] /\ config'[d] = config[d]
        BY OpenFrame
      <3>3. Registered(config[c].backend) # {}
        BY <1>5 DEF Return
      <3> QED BY <2>2, <3>1, <3>2, <3>3
    <2>5. /\ step' \in [Opens -> Steps] /\ config' \in [Opens -> Configs \cup {None}]
          /\ values' \in [Maps -> Contents] /\ opened' \in [Opens -> Contents \cup {None}]
      BY <1>5, <2>2, <2>3 DEF IInv, TypeOK, Return, Advance, Steps
    <2>6. UNCHANGED <<who, shared, context, tenant, asked, stoodFor, reqs, kept>>
      BY <1>5 DEF Return
    <2> QED BY <2>4, <2>5, <2>6 DEF IInv, TypeOK, reqs
  <1> QED BY <1>1, <1>2, <1>3, <1>4, <1>5 DEF OpenStep

LEMMA OpenPreserves ==
  ASSUME IInv, NEW c \in Opens, OpenStep(c)
  PROVE  IInv'
  BY OpenStepType, OpenStepPhases, OpenStepSent DEF IInv

\* A request's step leaves Opens, other requests and every container's map alone.
LEMMA RequestFrame ==
  ASSUME IInv, NEW r \in Requests, RequestStep(r)
  PROVE  /\ UNCHANGED <<who, call, opens>>
         /\ step[Of(r)] = "open"
         /\ \A q \in Requests \ {r} : pc'[q] = pc[q] /\ sent'[q] = sent[q]
         /\ pc'[r] # "idle"
         /\ \A c \in Opens : values'[c] = values[c]
         /\ kept \subseteq kept' /\ shared' \subseteq shared \cup {r} \cup kept'
  <1>1. /\ Configuration(r) \/ Start(r) \/ Normalize(r) \/ NormalizeFails(r) \/ BuildFails(r)
            \/ Send(r) \/ Answer(r)
        /\ r \notin Opens
    BY DistinctAssumption DEF RequestStep
  <1>2. pc[r] # "idle" => step[Of(r)] = "open"
    BY DEF IInv, SentPhases, SentPhase
  <1>3. UNCHANGED <<who, call, opens>> /\ step[Of(r)] = "open"
    BY <1>1, <1>2, Zenon DEF Configuration, Start, Normalize, NormalizeFails, BuildFails, Send,
         Answer, Ready, Lend, app
  <1>4. /\ \A q \in Requests \ {r} : pc'[q] = pc[q] /\ sent'[q] = sent[q]
        /\ pc'[r] # "idle"
    BY <1>1 DEF IInv, TypeOK, Configuration, Start, Normalize, NormalizeFails, BuildFails, Send,
         Answer, Ready, Goto
  <1>5. \A c \in Opens : values'[c] = values[c]
    BY <1>1, Zenon DEF IInv, TypeOK, Configuration, Start, Normalize, NormalizeFails, BuildFails,
         Send, Answer, Lend, app, Maps
  <1>6. kept \subseteq kept' /\ shared' \subseteq shared \cup {r} \cup kept'
    <2>1. CASE Normalize(r) \/ NormalizeFails(r)
      <3>1. PICK n : Lend(r, n)
        BY <2>1 DEF Normalize, NormalizeFails
      <3>2. config[Of(r)].values = Of(r)
        BY <1>3, CallIsOf DEF IInv, OpenPhases, OpenPhase
      <3> QED BY <3>1, <3>2 DEF Lend
    <2>2. CASE ~(Normalize(r) \/ NormalizeFails(r))
      BY <1>1, <2>2 DEF Configuration, Start, BuildFails, Send, Answer, app
    <2> QED BY <2>1, <2>2
  <1> QED BY <1>3, <1>4, <1>5, <1>6

LEMMA RequestStepPhases ==
  ASSUME IInv, NEW r \in Requests, RequestStep(r)
  PROVE  OpenPhases' /\ SharedMaps'
  <1>1. ASSUME NEW c \in Opens PROVE OpenPhase(c)'
    <2>1. OpenPhase(c)
      BY DEF IInv, OpenPhases
    <2> QED BY <2>1, RequestFrame DEF OpenPhase, opens
  <1>2. SharedMaps'
    BY RequestFrame DEF IInv, SharedMaps
  <1> QED BY <1>1, <1>2 DEF OpenPhases

\* The copy that a call makes of its container's configuration.
LEMMA Copied ==
  ASSUME IInv, NEW c \in Opens, step[c] = "open"
  PROVE  /\ values[config[c].values] \in Contents
         /\ c \notin kept => values[config[c].values] = opened[c]
         /\ config[c] \in Configs /\ tenant[c] \in Snapshots
         /\ Registered(config[c].backend) # {}
  <1>1. OpenPhase(c) /\ c \in Maps
    BY DEF IInv, OpenPhases, Maps
  <1> QED BY <1>1 DEF IInv, TypeOK, OpenPhase

LEMMA Sent ==
  ASSUME IInv, NEW r \in Requests, Send(r)
  PROVE  \E from \in Contents :
           /\ Of(r) \notin kept => from = opened[Of(r)]
           /\ sent' = [sent EXCEPT ![r] = FileRequest(r, tenant[Of(r)], r, from)]
           /\ FileRequest(r, tenant[Of(r)], r, from) \in FileRequests
           /\ values' = [values EXCEPT ![r] = from]
  <1> DEFINE from == values[config[Of(r)].values]
  <1>1. Of(r) \in Opens /\ step[Of(r)] = "open"
    BY CallIsOf DEF IInv, SentPhases, SentPhase, Send, Ready
  <1>2. /\ from \in Contents
        /\ Of(r) \notin kept => from = opened[Of(r)]
        /\ config[Of(r)] \in Configs /\ tenant[Of(r)] \in Snapshots
        /\ Resolved(config[Of(r)].backend) \in DOMAIN Backends
    BY <1>1, Copied, ResolvedIsBackend
  <1>3. /\ sent' = [sent EXCEPT ![r] = FileRequest(r, tenant[Of(r)], r, from)]
        /\ values' = [values EXCEPT ![r] = from]
    BY DEF Send
  <1>4. config[Of(r)].mode \in Modes /\ file[r] \in Files /\ r \in Maps
    BY <1>2 DEF Configs, IInv, TypeOK, Maps
  <1>5. Build(config[Of(r)].mode, tenant[Of(r)], file[r])
          \in {Build(mode, t, f) : mode \in Modes, t \in Snapshots, f \in Files}
    BY <1>2, <1>4
  <1> HIDE DEF from
  <1>6. FileRequest(r, tenant[Of(r)], r, from) \in FileRequests
    BY <1>2, <1>4, <1>5 DEF FileRequest, FileRequests
  <1> QED BY <1>2, <1>3, <1>6

LEMMA RequestStepSent ==
  ASSUME IInv, NEW r \in Requests, RequestStep(r)
  PROVE  SentPhases'
  <1>1. /\ UNCHANGED <<step, tenant, config, opened, call>> /\ kept \subseteq kept'
        /\ \A q \in Requests : Of(q)' = Of(q)
    BY RequestFrame DEF opens, Of
  <1>2. ASSUME NEW q \in Requests \ {r} PROVE SentPhase(q)'
    BY <1>1, RequestFrame DEF IInv, SentPhases, SentPhase
  <1>3. SentPhase(r)'
    <2>1. CASE Send(r)
      <3>1. PICK from \in Contents :
              /\ Of(r) \notin kept => from = opened[Of(r)]
              /\ sent'[r] = FileRequest(r, tenant[Of(r)], r, from)
        BY <2>1, Sent DEF IInv, TypeOK
      <3>2. Buildable(config[Of(r)].mode, tenant[Of(r)], file[r]) /\ file[r] \in Files
        BY <2>1 DEF Send, IInv, TypeOK
      <3> QED BY <1>1, <3>1, <3>2, RequestFrame DEF SentPhase, FileRequest
    <2>2. CASE ~Send(r)
      <3>1. sent' = sent
        BY <2>2, Zenon DEF RequestStep, Configuration, Start, Normalize, NormalizeFails,
             BuildFails, Answer
      <3> QED BY <1>1, <3>1, RequestFrame DEF IInv, SentPhases, SentPhase
    <2> QED BY <2>1, <2>2
  <1> QED BY <1>2, <1>3 DEF SentPhases

LEMMA NormalizersAre ==
  /\ Len(Normalizers) \in Nat
  /\ \A i \in 1..Len(Normalizers) : \A f \in Files :
       Normalizers[i].file[f] \in Files \cup {None}
  <1> DEFINE Normalizer == [container : BOOLEAN, file : [Files -> Files \cup {None}],
                         keeps : BOOLEAN]
  <1>1. Normalizers \in Seq(Normalizer)
    BY NormalizersAssumption
  <1>2. \A n \in Normalizer : \A f \in Files : n.file[f] \in Files \cup {None}
    OBVIOUS
  <1> HIDE DEF Normalizer
  <1> QED BY <1>1, <1>2

LEMMA RequestStepType ==
  ASSUME IInv, NEW r \in Requests, RequestStep(r)
  PROVE  TypeOK'
  <1>0. r \in Maps
    BY DEF Maps
  <1>6. ASSUME NormalizeFails(r) \/ Normalize(r) \/ UNCHANGED <<shared, kept>>
        PROVE  shared' \in SUBSET Maps /\ kept' \in SUBSET Opens
    <2>1. CASE UNCHANGED <<shared, kept>>
      BY <2>1 DEF IInv, TypeOK
    <2>2. CASE Normalize(r) \/ NormalizeFails(r)
      <3>1. PICK n : Lend(r, n)
        BY <2>2 DEF Normalize, NormalizeFails
      <3>2. Of(r) \in Opens /\ config[Of(r)] \in Configs
        BY <2>2, CallIsOf, Copied, RequestFrame
      <3>3. config[Of(r)].values \in Maps
        BY <3>2 DEF Configs
      <3> QED BY <3>1, <3>2, <3>3 DEF Lend, IInv, TypeOK
    <2> QED BY <1>6, <2>1, <2>2
  <1>1. CASE Configuration(r)
    <2>1. values[config[Of(r)].values] \in Contents
      BY <1>1, CallIsOf, Copied DEF Configuration
    <2> QED BY <1>0, <1>1, <2>1 DEF IInv, TypeOK, Configuration, Goto, opens
  <1>2. CASE Start(r) \/ NormalizeFails(r) \/ BuildFails(r) \/ Answer(r)
    <2>1. UNCHANGED <<who, values, opens, call, passed, file, sent>>
      BY <1>2 DEF Start, NormalizeFails, BuildFails, Answer, Lend, app
    <2>2. pc' \in [Requests -> {"idle", "normalize", "sent", "done", "failed", "not found"}]
      BY <1>2 DEF IInv, TypeOK, Start, NormalizeFails, BuildFails, Answer, Goto
    <2>3. NormalizeFails(r) \/ UNCHANGED <<shared, kept>>
      BY <1>2 DEF Start, BuildFails, Answer, app
    <2>4. shared' \in SUBSET Maps /\ kept' \in SUBSET Opens
      BY <1>6, <2>3
    <2> QED BY <2>1, <2>2, <2>4 DEF IInv, TypeOK, opens
  <1>3. CASE Normalize(r)
    <2>1. /\ passed[r] \in 0..Len(Normalizers) /\ passed[r] < Len(Normalizers)
          /\ Len(Normalizers) \in Nat /\ file[r] \in Files
      BY <1>3, NormalizersAre DEF IInv, TypeOK, Normalize
    <2>2. passed[r] + 1 \in 0..Len(Normalizers) /\ passed[r] + 1 \in 1..Len(Normalizers)
      BY <2>1
    <2>3. Normalizers[passed[r] + 1].file[file[r]] \in Files \ {None}
      BY <1>3, <2>1, <2>2, NormalizersAre, DistinctAssumption DEF Normalize
    <2>4. UNCHANGED <<who, values>>
      BY <1>3 DEF Normalize, Lend
    <2> QED BY <1>3, <1>6, <2>2, <2>3, <2>4 DEF IInv, TypeOK, Normalize, opens
  <1>4. CASE Send(r)
    <2>1. PICK from \in Contents :
            /\ sent' = [sent EXCEPT ![r] = FileRequest(r, tenant[Of(r)], r, from)]
            /\ FileRequest(r, tenant[Of(r)], r, from) \in FileRequests
            /\ values' = [values EXCEPT ![r] = from]
      BY <1>4, Sent
    <2>2. sent' \in [Requests -> FileRequests \cup {None}] /\ values' \in [Maps -> Contents]
      BY <2>1 DEF IInv, TypeOK
    <2>3. /\ shared' \in SUBSET Maps
          /\ pc' \in [Requests -> {"idle", "normalize", "sent", "done", "failed", "not found"}]
      BY <1>0, <1>4 DEF IInv, TypeOK, Send, Goto
    <2>4. UNCHANGED <<who, opens, call, passed, file, kept>>
      BY <1>4 DEF Send
    <2> QED BY <2>2, <2>3, <2>4 DEF IInv, TypeOK, opens
  <1> QED BY <1>1, <1>2, <1>3, <1>4 DEF RequestStep

LEMMA RequestPreserves ==
  ASSUME IInv, NEW r \in Requests, RequestStep(r)
  PROVE  IInv'
  BY RequestStepType, RequestStepPhases, RequestStepSent DEF IInv

LEMMA Stutter == ASSUME IInv, UNCHANGED vars PROVE IInv'
  <1>1. UNCHANGED <<who, values, shared, context, step, tenant, config, asked, stoodFor,
                    opened, call, pc, passed, file, sent, kept>>
    BY DEF vars, app, opens, reqs
  <1>2. TypeOK' /\ SharedMaps'
    BY <1>1 DEF IInv, TypeOK, SharedMaps
  <1>3. OpenPhases'
    BY <1>1 DEF IInv, OpenPhases, OpenPhase
  <1>4. SentPhases'
    BY <1>1 DEF IInv, SentPhases, SentPhase, Of
  <1> QED BY <1>2, <1>3, <1>4 DEF IInv

LEMMA Inductive == IInv /\ [Next]_vars => IInv'
  BY SwitchStep, WriteStep, OpenPreserves, RequestPreserves, Stutter DEF Next

(***************************************************************************)
(* Theorems                                                                *)
(***************************************************************************)
LEMMA Invariant == Spec => []IInv
  <1>1. Init => IInv
    BY InitIInv
  <1>2. IInv /\ [Next]_vars => IInv'
    BY Inductive
  <1> QED BY <1>1, <1>2, PTL DEF Spec

\* Types; a container that was opened has a registered backend, and so do requests.
THEOREM TypeCorrect == Spec => []TypeOK
  <1>1. IInv => TypeOK
    BY DEF IInv
  <1> QED BY Invariant, <1>1, PTL

\* A container and its requests keep the configuration it was opened with, however
\* many Opens, calls and writers there are, unless a normalizer has kept its map.
THEOREM SnapshotsHoldTheorem == Spec => []SnapshotsHold
  <1>1. IInv => SnapshotsHold
    <2> SUFFICES ASSUME IInv PROVE SnapshotsHold
      OBVIOUS
    <2>1. \A c \in Opens \ kept : step[c] = "open" => values[config[c].values] = opened[c]
      BY Copied
    <2>2. \A r \in Requests :
            sent[r] # None /\ Of(r) \notin kept => sent[r].values = opened[Of(r)]
      BY DEF IInv, SentPhases, SentPhase
    <2> QED BY <2>1, <2>2 DEF SnapshotsHold
  <1> QED BY Invariant, <1>1, PTL

\* A container's map is the container's own, made by Return.  Others can write to it
\* only if a normalizer that was lent it has kept it; no backend gets it, nor a map
\* of another request.
THEOREM MapsArePrivateTheorem == Spec => []MapsArePrivate
  <1>1. IInv => MapsArePrivate
    <2> SUFFICES ASSUME IInv PROVE MapsArePrivate
      OBVIOUS
    <2>1. \A c \in Opens : step[c] = "open" => config[c].values = c
      BY DEF IInv, OpenPhases, OpenPhase
    <2>2. \A r \in Requests : sent[r] # None => sent[r].map = r
      BY DEF IInv, SentPhases, SentPhase
    <2>3. \A c \in Opens : c \in shared => c \in kept
      BY DistinctAssumption DEF IInv, SharedMaps
    <2>4. \A r \in Requests, c \in Opens : r # c
      BY DistinctAssumption
    <2> QED BY <2>1, <2>2, <2>3, <2>4 DEF MapsArePrivate
  <1> QED BY Invariant, <1>1, PTL

\* Requests carry the ID their container was opened for, and the code of whom the
\* context stood for while Open looked at it.
THEOREM TenantIsWholeTheorem == Spec => []TenantIsWhole
  <1>1. IInv => TenantIsWhole
    <2> SUFFICES ASSUME IInv, NEW r \in Requests, sent[r] # None
                 PROVE  /\ sent[r].tenant.id = asked[Of(r)].id
                        /\ \E t \in stoodFor[Of(r)] : sent[r].tenant.code = t.code
      BY DEF TenantIsWhole
    <2>1. Of(r) \in Opens /\ step[Of(r)] = "open" /\ sent[r].tenant = tenant[Of(r)]
      BY CallIsOf DEF IInv, SentPhases, SentPhase
    <2>2. OpenPhase(Of(r))
      BY <2>1 DEF IInv, OpenPhases
    <2> QED BY <2>1, <2>2 DEF OpenPhase
  <1> QED BY Invariant, <1>1, PTL

\* What each request's key is made of: KeyIsBelowDirectory applies to it.
LEMMA SentKey ==
  ASSUME IInv, NEW r \in Requests, sent[r] # None
  PROVE  LET home == Directory(config[Of(r)].mode, sent[r].tenant)
             key  == sent[r].key
         IN  /\ Len(home) < Len(key)
             /\ SubSeq(key, 1, Len(home)) = home
             /\ Tokens(key) \cap Dots = {}
             /\ home # <<>> => /\ Len(Identifier(sent[r].tenant)) = 1
                              /\ key[1] = Identifier(sent[r].tenant)[1] /\ key[2] = "/"
  <1>1. Of(r) \in Opens /\ step[Of(r)] = "open" /\ sent[r].tenant = tenant[Of(r)]
    BY CallIsOf DEF IInv, SentPhases, SentPhase
  <1>2. tenant[Of(r)] \in Snapshots
    BY <1>1, Copied
  <1>3. PICK f \in Files : /\ Buildable(config[Of(r)].mode, tenant[Of(r)], f)
                           /\ sent[r].key = Build(config[Of(r)].mode, tenant[Of(r)], f)
    BY DEF IInv, SentPhases, SentPhase
  <1> QED BY <1>1, <1>2, <1>3, KeyIsBelowDirectory

\* No key of a request leaves the tenant's directory.
THEOREM KeysStayHomeTheorem == Spec => []KeysStayHome
  <1>1. IInv => KeysStayHome
    BY SentKey DEF KeysStayHome
  <1> QED BY Invariant, <1>1, PTL

\* Tenants known by different identifiers have no key in common and none that is
\* below the other's directory: an identifier is a single name.
THEOREM TenantsStayApartTheorem == Spec => []TenantsStayApart
  <1>1. IInv => TenantsStayApart
    <2> SUFFICES ASSUME IInv, NEW r \in Requests, NEW s \in Requests,
                        sent[r] # None, sent[s] # None,
                        Directory(config[Of(r)].mode, sent[r].tenant) # <<>>,
                        Directory(config[Of(s)].mode, sent[s].tenant) # <<>>,
                        Identifier(sent[r].tenant) # Identifier(sent[s].tenant)
                 PROVE  /\ sent[r].key[1] # sent[s].key[1]
                        /\ sent[r].key[2] = "/" /\ sent[s].key[2] = "/"
      BY DEF TenantsStayApart
    <2> DEFINE one == Identifier(sent[r].tenant)
               other == Identifier(sent[s].tenant)
    <2>1. /\ Len(one) = 1 /\ sent[r].key[1] = one[1] /\ sent[r].key[2] = "/"
          /\ Len(other) = 1 /\ sent[s].key[1] = other[1] /\ sent[s].key[2] = "/"
      BY SentKey
    <2>2. one \in Seq(STRING) /\ other \in Seq(STRING)
      <3>1. \A q \in Requests : sent[q] # None => sent[q].tenant \in Snapshots
        BY CallIsOf, Copied DEF IInv, SentPhases, SentPhase
      <3> QED BY <3>1, IdentifierIsText DEF Text
    <2> HIDE DEF one, other
    <2>3. one[1] # other[1]
      BY <2>1, <2>2 DEF one, other
    <2> QED BY <2>1, <2>3
  <1> QED BY Invariant, <1>1, PTL
================================================================================
