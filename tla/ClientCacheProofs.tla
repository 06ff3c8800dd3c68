--------------------------- MODULE ClientCacheProofs ---------------------------
(***************************************************************************)
(* The properties of ClientCache, for any number of calls and whatever     *)
(* their configurations.  What makes them inductive: a client is only put  *)
(* under the key of the configuration it has been built from.              *)
(***************************************************************************)
EXTENDS ClientCache, TLAPS

Builders == \A c \in Calls : pc[c] = "store" => c \in built
Filed    == \A e \in clients : e.client \in Calls /\ e.key = KeyOf(e.client)
Owners   == \A c \in Calls : got[c] # None => Valid(c) /\ Entry(c, got[c]) \in clients
Distinct == \A e, f \in clients : e.key = f.key => e = f
Accepted == \A c \in Calls : pc[c] \in {"build", "store"} => Valid(c)
IInv     == TypeOK /\ Builders /\ Filed /\ Owners /\ Distinct /\ Accepted

\* No provider builds its client from a field that is not in its key.
LEMMA KeyCoversUses == \A p \in Providers : p.uses \subseteq p.key
  BY DEF Providers, AWS, S3, MinIO, KS3, Aliyun, Azure, OBS

\* What a step leaves of the configurations, and of what they mean: all of it.
LEMMA MeaningsStay ==
  ASSUME UNCHANGED <<provider, config>>, NEW c
  PROVE  /\ \A f : Meaning(c, f)' = Meaning(c, f)
         /\ Valid(c)' = Valid(c)
  <1>1. \A f : Meaning(c, f)' = Meaning(c, f)
    BY DEF Meaning, Default
  <1> QED BY <1>1 DEF Valid, Paired

LEMMA KeysStay ==
  ASSUME UNCHANGED <<provider, config>>
  PROVE  /\ \A c \in Calls : KeyOf(c)' = KeyOf(c)
         /\ \A c, client \in Calls : Entry(c, client)' = Entry(c, client)
  <1>1. \A c \in Calls : KeyOf(c)' = KeyOf(c)
    BY MeaningsStay DEF KeyOf, Settings
  <1> QED BY <1>1 DEF Entry

LEMMA InitIInv == Init => IInv
  BY ConfigurationsAssumption
     DEF Init, IInv, TypeOK, Builders, Filed, Owners, Distinct, Accepted

\* Clients that are kept or handed out stay well typed while the map only gains
\* entries and every call builds at most its own.
LEMMA TypesStay ==
  ASSUME IInv, UNCHANGED <<provider, config>>,
         built' \in SUBSET Calls, built \subseteq built',
         clients' \subseteq clients \cup {Entry(c, client) : c \in Calls, client \in built},
         pc' \in [Calls -> {"load", "build", "store", "done"}],
         got' \in [Calls -> built' \cup {None}]
  PROVE  TypeOK'
  <1>1. ASSUME NEW e \in clients' PROVE \E c \in Calls, client \in built' : e = Entry(c, client)'
    <2>1. PICK c \in Calls, client \in built : e = Entry(c, client)
      BY <1>1 DEF IInv, TypeOK
    <2>2. client \in Calls /\ client \in built'
      BY <2>1
    <2>3. Entry(c, client)' = Entry(c, client)
      BY <2>1, <2>2, KeysStay
    <2> QED BY <2>1, <2>2, <2>3
  <1>2. (clients \subseteq {Entry(c, client) : c \in Calls, client \in built})'
    BY <1>1
  <1> QED BY <1>2 DEF IInv, TypeOK

\* A call that returns a client of its key, or none, keeps the invariant.
LEMMA ReturnKeepsIInv ==
  ASSUME IInv, NEW c \in Calls, NEW client \in Cached(c) \cup {None},
         client # None => client \in built /\ Valid(c),
         Return(c, client), UNCHANGED <<clients, built>>
  PROVE  IInv'
  <1>1. TypeOK'
    BY TypesStay DEF IInv, TypeOK, Return, Goto
  <1>2. Builders' /\ Filed' /\ Distinct'
    BY KeysStay DEF IInv, TypeOK, Builders, Filed, Distinct, Return, Goto
  <1>3. Owners'
    <2>1. ASSUME NEW d \in Calls, got'[d] # None
          PROVE  (Valid(d) /\ Entry(d, got[d]) \in clients)'
      <3>1. got'[d] \in Calls /\ Valid(d) /\ Entry(d, got'[d]) \in clients
        BY <2>1 DEF IInv, TypeOK, Owners, Return, Goto, Cached
      <3>2. Valid(d)' = Valid(d)
        BY MeaningsStay DEF Return, Goto
      <3>3. KeyOf(d)' = KeyOf(d)
        BY KeysStay DEF Return, Goto
      <3> QED BY <3>1, <3>2, <3>3 DEF Entry
    <2> QED BY <2>1 DEF Owners
  <1>4. Accepted'
    BY MeaningsStay DEF IInv, TypeOK, Accepted, Return, Goto
  <1> QED BY <1>1, <1>2, <1>3, <1>4 DEF IInv

\* A client that the map keeps has been built.
LEMMA CachedIsBuilt == IInv => \A c \in Calls : Cached(c) \subseteq built
  BY DEF IInv, TypeOK, Cached, Entry

\* A step that neither returns nor files anything.
LEMMA NothingFiled ==
  ASSUME IInv, UNCHANGED <<provider, config, clients, got>>,
         built' \in SUBSET Calls, built \subseteq built',
         pc' \in [Calls -> {"load", "build", "store", "done"}], Builders',
         \A c \in Calls : pc'[c] \in {"build", "store"} => Valid(c)
  PROVE  IInv'
  <1>1. TypeOK'
    BY TypesStay DEF IInv, TypeOK
  <1>2. Filed' /\ Distinct'
    BY KeysStay DEF IInv, Filed, Distinct
  <1>3. Owners'
    <2>1. ASSUME NEW d \in Calls, got'[d] # None
          PROVE  (Valid(d) /\ Entry(d, got[d]) \in clients)'
      <3>1. Valid(d) /\ Entry(d, got[d]) \in clients
        BY <2>1 DEF IInv, Owners
      <3>2. Valid(d)' = Valid(d)
        BY MeaningsStay
      <3>3. KeyOf(d)' = KeyOf(d)
        BY KeysStay
      <3> QED BY <3>1, <3>2, <3>3 DEF Entry
    <2> QED BY <2>1 DEF Owners
  <1>4. Accepted'
    BY MeaningsStay DEF IInv, Accepted
  <1> QED BY <1>1, <1>2, <1>3, <1>4 DEF IInv

LEMMA StepKeepsIInv == ASSUME IInv, NEW c \in Calls, Step(c) PROVE IInv'
  <1>1. CASE Refuse(c)
    BY <1>1, ReturnKeepsIInv DEF Refuse
  <1>2. CASE LoadHit(c)
    BY <1>2, ReturnKeepsIInv, CachedIsBuilt DEF LoadHit
  <1>3. CASE LoadMiss(c)
    BY <1>3, NothingFiled DEF LoadMiss, Goto, IInv, TypeOK, Builders, Accepted
  <1>4. CASE Build(c)
    BY <1>4, NothingFiled DEF Build, Goto, IInv, TypeOK, Builders, Accepted
  <1>5. CASE BuildFails(c)
    BY <1>5, ReturnKeepsIInv DEF BuildFails
  <1>6. CASE LoadOrStore(c)
    <2>1. Valid(c)
      BY <1>6 DEF LoadOrStore, IInv, Accepted
    <2>2. CASE Cached(c) # {}
      BY <1>6, <2>1, <2>2, ReturnKeepsIInv, CachedIsBuilt DEF LoadOrStore
    <2>3. CASE Cached(c) = {}
      <3>1. /\ UNCHANGED <<provider, config, built>> /\ clients' = clients \cup {Entry(c, c)}
            /\ pc' = [pc EXCEPT ![c] = "done"] /\ got' = [got EXCEPT ![c] = c] /\ c \in built
        BY <1>6, <2>3 DEF LoadOrStore, Return, Goto, IInv, Builders
      <3>2. TypeOK'
        BY <3>1, TypesStay DEF IInv, TypeOK
      <3>3. Builders' /\ Filed'
        BY <3>1, KeysStay DEF IInv, TypeOK, Builders, Filed, Entry
      <3>4. \A e \in clients : e.key # KeyOf(c)
        BY <2>3 DEF IInv, TypeOK, Filed, Cached, Entry
      <3>5. Distinct'
        BY <3>1, <3>4 DEF IInv, Distinct, Entry
      <3>6. Owners'
        <4>1. ASSUME NEW d \in Calls, got'[d] # None
              PROVE  (Valid(d) /\ Entry(d, got[d]) \in clients)'
          <5>1. Valid(d) /\ Entry(d, got'[d]) \in clients'
            BY <2>1, <3>1, <4>1 DEF IInv, TypeOK, Owners
          <5>2. Valid(d)' = Valid(d)
            BY <3>1, MeaningsStay
          <5>3. KeyOf(d)' = KeyOf(d)
            BY <3>1, KeysStay
          <5> QED BY <5>1, <5>2, <5>3 DEF Entry
        <4> QED BY <4>1 DEF Owners
      <3>7. Accepted'
        BY <3>1, MeaningsStay DEF IInv, TypeOK, Accepted
      <3> QED BY <3>2, <3>3, <3>5, <3>6, <3>7 DEF IInv
    <2> QED BY <2>2, <2>3
  <1> QED BY <1>1, <1>2, <1>3, <1>4, <1>5, <1>6 DEF Step

LEMMA Stuttering == ASSUME IInv, UNCHANGED vars PROVE IInv'
  BY NothingFiled DEF IInv, TypeOK, Builders, Accepted, vars

LEMMA Inductive == Spec => []IInv
  <1>1. IInv /\ [Next]_vars => IInv'
    BY StepKeepsIInv, Stuttering DEF Next, Finished
  <1> QED BY InitIInv, <1>1, PTL DEF Spec

\* Every reachable state is well typed: a client that is kept or handed out has
\* been built, by every error path of client().
THEOREM TypeCorrect == Spec => []TypeOK
  <1>1. IInv => TypeOK BY DEF IInv
  <1> QED BY Inductive, <1>1, PTL

\* LoadOrStore: calls whose configurations mean the same get one client.
THEOREM ConfigurationsShareOneClient == Spec => []OneClientPerConfiguration
  <1>1. ASSUME IInv, NEW c \in Calls, NEW d \in Calls, got[c] # None, got[d] # None,
               \A f \in provider.key : Meaning(c, f) = Meaning(d, f)
        PROVE  got[c] = got[d]
    <2>1. KeyOf(c) = KeyOf(d)
      BY <1>1 DEF KeyOf, Settings
    <2>2. Entry(c, got[c]) = Entry(d, got[d])
      BY <1>1, <2>1 DEF IInv, Owners, Distinct, Entry
    <2> QED BY <2>2 DEF Entry
  <1>2. IInv => OneClientPerConfiguration
    BY <1>1 DEF OneClientPerConfiguration, IInv, Owners, Distinct
  <1> QED BY Inductive, <1>2, PTL

\* The keys of the seven providers tell apart whatever their clients are built from,
\* and no call whose configuration is refused finds a client.
THEOREM ClientsFit == Spec => []ClientFitsConfiguration
  <1>1. ASSUME IInv, NEW c \in Calls, got[c] # None
        PROVE  /\ Valid(c)
               /\ Settings(got[c], provider.uses) = Settings(c, provider.uses)
    <2>1. Valid(c) /\ Entry(c, got[c]) \in clients /\ got[c] \in Calls
      BY <1>1 DEF IInv, TypeOK, Owners
    <2>2. KeyOf(c) = KeyOf(got[c])
      BY <1>1, <2>1 DEF IInv, Filed, Entry
    <2>3. \A f \in provider.key : Meaning(c, f) = Meaning(got[c], f)
      <3>1. TAKE f \in provider.key
      <3>2. KeyOf(c)[f] = Meaning(c, f) /\ KeyOf(got[c])[f] = Meaning(got[c], f)
        BY <3>1 DEF KeyOf, Settings
      <3> QED BY <2>2, <3>2
    <2>4. provider.uses \subseteq provider.key
      BY <1>1, KeyCoversUses DEF IInv, TypeOK
    <2> QED BY <2>1, <2>3, <2>4 DEF Settings
  <1>2. IInv => ClientFitsConfiguration
    BY <1>1 DEF ClientFitsConfiguration
  <1> QED BY Inductive, <1>2, PTL
================================================================================
