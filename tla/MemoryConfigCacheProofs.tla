----------------------- MODULE MemoryConfigCacheProofs -----------------------
(***************************************************************************)
(* MemoryConfigCache implements VersionedCache, never takes a live entry   *)
(* and sweeps at amortized constant cost, for any number of callers, slots *)
(* and configurations.                                                     *)
(***************************************************************************)
EXTENDS MemoryConfigCache, FiniteSetTheorems, TLAPS

-----------------------------------------------------------------------------
(* The inductive invariant.  The cost of the next sweep, which goes over    *)
(* every entry, is covered by the credit as soon as the sweep is due:       *)
(* between two sweeps the map has grown by at least half of what it holds.  *)

MapFinite == IsFiniteSet(Cached)

CreditCoversSweep ==
  /\ nextSweep >= SweepMinInterval
  /\ credit >= 0
  /\ credit >= 2 * Cardinality(Cached) - nextSweep

\* The code's version is the number of mutations.
VersionCounts == version = mutations /\ token = seen

IInv == TypeOK /\ MapFinite /\ CreditCoversSweep

USE DEF NoVersion, ghosts

-----------------------------------------------------------------------------
(* Sizes of the map.                                                       *)

\* What a sweep leaves is what it finds or the live part of it.
Kept == IF SweepDue THEN Live ELSE Cached

LEMMA KeptFinite ==
  ASSUME MapFinite
  PROVE  /\ IsFiniteSet(Live) /\ Cardinality(Live) \in Nat
         /\ IsFiniteSet(Kept) /\ Cardinality(Kept) \in Nat
         /\ Cardinality(Cached) \in Nat
  <1>1. Live \in SUBSET Cached
    BY DEF Live
  <1>2. IsFiniteSet(Live)
    BY <1>1, FS_Subset DEF MapFinite
  <1> QED
    BY <1>2, FS_CardinalityType DEF MapFinite, Kept

\* Losing entries keeps the map finite and makes it no larger.
LEMMA ShrinkStep ==
  ASSUME MapFinite, Cached' \subseteq Cached
  PROVE  /\ MapFinite'
         /\ Cardinality(Cached') \in Nat
         /\ Cardinality(Cached') <= Cardinality(Cached)
  <1>1. Cached' \in SUBSET Cached
    OBVIOUS
  <1>2. IsFiniteSet(Cached') /\ Cardinality(Cached') <= Cardinality(Cached)
    BY <1>1, FS_Subset DEF MapFinite
  <1>3. Cardinality(Cached') \in Nat
    BY <1>2, FS_CardinalityType
  <1> QED
    BY <1>2, <1>3 DEF MapFinite

LEMMA SetStep ==
  ASSUME TypeOK, MapFinite, NEW p \in Callers, SetLocked(p)
  PROVE  /\ slot[p] \in Slots /\ given[p] \in Entries
         /\ Cached' = Kept \cup {slot[p]}
         /\ Earned(Swept[slot[p]]) = IF slot[p] \in Kept THEN 0 ELSE 2
         /\ MapFinite'
         /\ Cardinality(Cached') =
              IF slot[p] \in Kept THEN Cardinality(Kept) ELSE Cardinality(Kept) + 1
  <1>1. slot[p] \in Slots /\ given[p] \in Entries /\ given[p] # NoEntry
    BY CacheAssumption DEF TypeOK, SetLocked
  <1>2. \A s \in Slots : Swept[s] # NoEntry <=> s \in Kept
    BY DEF Swept, Kept, Cached, Live
  <1>3. entries' = [Swept EXCEPT ![slot[p]] = given[p]] /\ Kept \subseteq Slots
    BY DEF SetLocked, Kept, Cached, Live
  <1>4. Cached' = Kept \cup {slot[p]}
    <2>1. \A s \in Slots : entries'[s] = IF s = slot[p] THEN given[p] ELSE Swept[s]
      BY <1>1, <1>3 DEF Swept
    <2> QED
      BY <1>1, <1>2, <1>3, <2>1 DEF Cached
  <1>5. Earned(Swept[slot[p]]) = IF slot[p] \in Kept THEN 0 ELSE 2
    BY <1>1, <1>2 DEF Earned
  <1>6. /\ IsFiniteSet(Kept \cup {slot[p]})
        /\ Cardinality(Kept \cup {slot[p]}) =
             IF slot[p] \in Kept THEN Cardinality(Kept) ELSE Cardinality(Kept) + 1
    BY KeptFinite, FS_AddElement
  <1> QED
    BY <1>1, <1>4, <1>5, <1>6 DEF MapFinite

LEMMA FillStep ==
  ASSUME TypeOK, MapFinite, NEW p \in Callers, FillLocked(p), token[p] = version
  PROVE  /\ slot[p] \in Slots /\ given[p] \in Entries
         /\ Earned(entries[slot[p]]) = IF slot[p] \in Cached THEN 0 ELSE 2
         /\ MapFinite'
         /\ Cardinality(Cached') =
              IF slot[p] \in Cached THEN Cardinality(Cached) ELSE Cardinality(Cached) + 1
  <1>1. slot[p] \in Slots /\ given[p] \in Entries /\ given[p] # NoEntry
    BY CacheAssumption DEF TypeOK, FillLocked
  <1>2. entries' = [entries EXCEPT ![slot[p]] = given[p]]
    BY DEF FillLocked
  <1>3. Cached' = Cached \cup {slot[p]}
    BY <1>1, <1>2 DEF Cached, TypeOK
  <1>4. Earned(entries[slot[p]]) = IF slot[p] \in Cached THEN 0 ELSE 2
    BY <1>1 DEF Earned, Cached
  <1> QED
    BY <1>1, <1>3, <1>4, FS_AddElement DEF MapFinite

-----------------------------------------------------------------------------
(* Its preservation.                                                       *)

LEMMA InitInv == Init => IInv
  <1> SUFFICES ASSUME Init PROVE IInv
    OBVIOUS
  <1>1. TypeOK
    BY CacheAssumption DEF Init, TypeOK
  <1>2. Cached = {}
    BY DEF Init, Cached
  <1>3. IsFiniteSet(Cached) /\ Cardinality(Cached) = 0
    BY <1>2, FS_EmptySet
  <1> QED
    BY <1>1, <1>3, CacheAssumption DEF Init, IInv, MapFinite, CreditCoversSweep

LEMMA SetInv ==
  ASSUME IInv, NEW p \in Callers, SetLocked(p)
  PROVE  /\ IInv'
         /\ Cardinality(Cached') <= nextSweep'
  <1>1. TypeOK /\ MapFinite /\ CreditCoversSweep
    BY DEF IInv
  <1> DEFINE n == Cardinality(Cached)  k == Cardinality(Kept)
             fresh == IF slot[p] \in Kept THEN 0 ELSE 1
  <1>2. /\ n \in Nat /\ k \in Nat /\ fresh \in {0, 1}
        /\ Cardinality(Live) \in Nat
        /\ ~SweepDue => k = n
        /\ SweepDue => k = Cardinality(Live)
    BY <1>1, KeptFinite DEF Kept
  <1>3. /\ slot[p] \in Slots /\ given[p] \in Entries /\ MapFinite'
        /\ Cardinality(Cached') = k + fresh
        /\ credit' = credit - SweepCost + 2 * fresh
    <2>1. /\ slot[p] \in Slots /\ given[p] \in Entries /\ MapFinite'
          /\ Earned(Swept[slot[p]]) = 2 * fresh
      BY <1>1, SetStep
    <2>2. Cardinality(Cached') = k + fresh
      BY <1>1, <1>2, SetStep
    <2> QED
      BY <2>1, <2>2 DEF SetLocked
  <1>4. /\ nextSweep \in Nat /\ credit \in Int /\ SweepMinInterval \in Nat \ {0}
        /\ nextSweep >= SweepMinInterval /\ credit >= 0 /\ credit >= 2 * n - nextSweep
    BY <1>1, CacheAssumption DEF TypeOK, CreditCoversSweep
  <1>5. /\ nextSweep' \in Nat /\ credit' \in Int
        /\ nextSweep' >= SweepMinInterval
        /\ credit' >= 0
        /\ credit' >= 2 * (k + fresh) - nextSweep'
        /\ k + fresh <= nextSweep'
    <2>1. CASE SweepDue
      <3>1. /\ nextSweep' \in Nat /\ nextSweep' >= 2 * k /\ nextSweep' >= SweepMinInterval
            /\ credit' = credit - n + 2 * fresh
            /\ n >= nextSweep
        BY <1>2, <1>3, <1>4, <2>1 DEF SetLocked, NextSweep, Larger, SweepCost, SweepDue
      <3> QED
        BY ONLY <1>2, <1>4, <3>1
    <2>2. CASE ~SweepDue
      <3>1. nextSweep' = nextSweep /\ credit' = credit + 2 * fresh /\ n < nextSweep
        BY <1>2, <1>3, <1>4, <2>2 DEF SetLocked, NextSweep, SweepCost, SweepDue
      <3> QED
        BY <1>2, <1>4, <2>2, <3>1
    <2> QED
      BY <2>1, <2>2
  <1>6. TypeOK'
    <2>1. entries' \in [Slots -> Entries \cup {NoEntry}]
      BY <1>1, <1>3 DEF SetLocked, Swept, TypeOK
    <2> QED
      BY <1>1, <1>5, <2>1 DEF SetLocked, Idle, TypeOK
  <1> QED
    BY <1>3, <1>5, <1>6 DEF IInv, CreditCoversSweep

LEMMA FillInv ==
  ASSUME IInv, NEW p \in Callers, FillLocked(p)
  PROVE  IInv'
  <1>1. TypeOK /\ MapFinite /\ CreditCoversSweep
    BY DEF IInv
  <1>2. CASE token[p] = version
    <2>1. /\ slot[p] \in Slots /\ given[p] \in Entries /\ MapFinite'
          /\ Cardinality(Cached') =
               IF slot[p] \in Cached THEN Cardinality(Cached) ELSE Cardinality(Cached) + 1
          /\ credit' = credit + IF slot[p] \in Cached THEN 0 ELSE 2
          /\ nextSweep' = nextSweep
      BY <1>1, <1>2, FillStep DEF FillLocked
    <2>2. Cardinality(Cached) \in Nat
      BY <1>1, KeptFinite
    <2>3. CreditCoversSweep' /\ credit' \in Int
      BY <1>1, <2>1, <2>2, CacheAssumption DEF CreditCoversSweep, TypeOK
    <2>4. TypeOK'
      BY <1>1, <1>2, <2>1, <2>3 DEF FillLocked, Idle, TypeOK
    <2> QED
      BY <2>1, <2>3, <2>4 DEF IInv
  <1>3. CASE token[p] # version
    <2>1. UNCHANGED <<entries, nextSweep, credit>> /\ Cached' = Cached
      BY <1>3 DEF FillLocked, Cached
    <2>2. TypeOK'
      BY <1>1, <1>3 DEF FillLocked, Idle, TypeOK
    <2> QED
      BY <1>1, <2>1, <2>2 DEF IInv, MapFinite, CreditCoversSweep
  <1> QED
    BY <1>2, <1>3

LEMMA StepInv == IInv /\ [Next]_vars => IInv'
  <1> SUFFICES ASSUME IInv, [Next]_vars PROVE IInv'
    OBVIOUS
  <1>1. TypeOK /\ MapFinite /\ CreditCoversSweep
    BY DEF IInv
  <1>2. ASSUME UNCHANGED <<entries, nextSweep, credit>>, TypeOK' PROVE IInv'
    BY <1>1, <1>2 DEF IInv, MapFinite, CreditCoversSweep, Cached
  <1>3. ASSUME UNCHANGED <<nextSweep, credit>>, Cached' \subseteq Cached, TypeOK' PROVE IInv'
    <2>1. /\ MapFinite' /\ Cardinality(Cached) \in Nat /\ Cardinality(Cached') \in Nat
          /\ Cardinality(Cached') <= Cardinality(Cached)
      BY <1>1, <1>3, ShrinkStep, KeptFinite
    <2> QED
      BY <1>1, <1>3, <2>1 DEF IInv, CreditCoversSweep, TypeOK
  <1> USE CacheAssumption DEF TypeOK, Entries
  <1>4. CASE Tick
    BY <1>1, <1>2, <1>4 DEF Tick
  <1>5. ASSUME NEW p \in Callers, NEW s \in Slots, ReadLocked(p, s) PROVE IInv'
    BY <1>1, <1>2, <1>5 DEF ReadLocked
  <1>6. ASSUME NEW p \in Callers, NEW s \in Slots, DeleteLocked(p, s) PROVE IInv'
    BY <1>1, <1>3, <1>6 DEF DeleteLocked, Cached
  <1>7. ASSUME NEW p \in Callers, Answer(p) PROVE IInv'
    BY <1>1, <1>2, <1>7 DEF Answer, Idle
  <1>8. ASSUME NEW p \in Callers, Evict(p) PROVE IInv'
    <2>1. entries' \in [Slots -> Entries \cup {NoEntry}] /\ Cached' \subseteq Cached
      BY <1>1, <1>8 DEF Evict, Cached
    <2>2. TypeOK'
      BY <1>1, <1>8, <2>1 DEF Evict, Idle
    <2> QED
      BY <1>3, <1>8, <2>1, <2>2 DEF Evict
  <1>9. ASSUME NEW p \in Callers, NEW s \in Slots, NEW c \in Configs,
               StartSet(p, s, c) \/ StartFill(p, s, c)
        PROVE  IInv'
    BY <1>1, <1>2, <1>9 DEF StartSet, StartFill, StartWrite
  <1>10. ASSUME NEW p \in Callers, SetLocked(p) PROVE IInv'
    BY <1>10, SetInv
  <1>11. ASSUME NEW p \in Callers, FillLocked(p) PROVE IInv'
    BY <1>11, FillInv
  <1>12. CASE UNCHANGED vars
    BY <1>1, <1>2, <1>12 DEF vars
  <1> QED
    BY <1>4, <1>5, <1>6, <1>7, <1>8, <1>9, <1>10, <1>11, <1>12 DEF Next, CallerStep

LEMMA Invariance == Spec => []IInv
  BY InitInv, StepInv, PTL DEF Spec

-----------------------------------------------------------------------------
(* Safety.                                                                 *)

\* Every reachable state is well typed.
THEOREM TypeCorrect == Spec => []TypeOK
  <1>1. IInv => TypeOK
    BY DEF IInv
  <1> QED BY <1>1, Invariance, PTL

\* The sweeps have gone over at most twice the entries that were ever added.
THEOREM SweepCostIsAmortized == Spec => []SweepCostAmortized
  <1>1. IInv => SweepCostAmortized
    BY DEF IInv, CreditCoversSweep, SweepCostAmortized
  <1> QED BY <1>1, Invariance, PTL

\* After a Set the map is within the threshold.
THEOREM EverySetRestoresBound == Spec => SetRestoresBound
  <1>1. IInv /\ [Next]_vars
        => [\A p \in Callers : SetLocked(p) => Cardinality(Cached') <= nextSweep']_vars
    BY SetInv
  <1> QED BY <1>1, Invariance, PTL DEF Spec, SetRestoresBound

\* Only its expiry or a Delete of its own slot takes an entry away.
THEOREM NoLiveEntryIsTaken == Spec => LiveEntriesSurvive
  <1>1. IInv /\ [Next]_vars
        => [\A s \in Slots :
              entries[s] # NoEntry /\ entries'[s] = NoEntry =>
                \/ Expired(entries[s], clock)
                \/ \E p \in Callers : DeleteLocked(p, s)]_vars
    <2> SUFFICES ASSUME IInv, Next, NEW s \in Slots, entries[s] # NoEntry, entries'[s] = NoEntry
                 PROVE  \/ Expired(entries[s], clock)
                        \/ \E p \in Callers : DeleteLocked(p, s)
      OBVIOUS
    <2>1. TypeOK /\ NoEntry \notin Entries
      BY CacheAssumption DEF IInv
    <2>2. ASSUME NEW p \in Callers, NEW t \in Slots, DeleteLocked(p, t) PROVE t = s
      BY <2>1, <2>2 DEF DeleteLocked, TypeOK
    <2>3. ASSUME NEW p \in Callers, Evict(p) PROVE Expired(entries[s], clock)
      BY <2>1, <2>3 DEF Evict, TypeOK
    <2>4. ASSUME NEW p \in Callers, SetLocked(p) PROVE Expired(entries[s], clock)
      <3>1. given[p] \in Entries /\ slot[p] \in Slots
        BY <2>1, <2>4 DEF SetLocked, TypeOK
      <3>2. entries'[s] = IF s = slot[p] THEN given[p] ELSE Swept[s]
        BY <2>4 DEF SetLocked, Swept
      <3> QED
        BY <2>1, <3>1, <3>2 DEF Swept, Live, Cached
    <2>5. ASSUME NEW p \in Callers, FillLocked(p) PROVE FALSE
      <3>1. given[p] \in Entries
        BY <2>1, <2>5 DEF FillLocked, TypeOK
      <3> QED
        BY <2>1, <2>5, <3>1 DEF FillLocked, TypeOK
    <2> QED
      BY <2>2, <2>3, <2>4, <2>5 DEF Next, CallerStep, Tick, ReadLocked, Answer, StartSet,
         StartFill, StartWrite
  <1> QED BY <1>1, Invariance, PTL DEF Spec, LiveEntriesSurvive

-----------------------------------------------------------------------------
(* Refinement.                                                             *)

Held == [s \in Slots |-> ConfigOf(entries[s])]
View == [p \in Callers |-> ConfigOf(found[p])]

LEMMA ConfigOfEntry == \A e \in Entries : ConfigOf(e) = e.config /\ e.config \in Configs
  BY CacheAssumption DEF ConfigOf, Entries

\* What is not touched maps to itself.
LEMMA HeldSame == entries' = entries => Held' = Held
  BY DEF Held, ConfigOf

LEMMA ViewSame == found' = found => View' = View
  BY DEF View, ConfigOf

\* Replacing an entry replaces its configuration.
LEMMA HeldExcept ==
  ASSUME TypeOK, NEW s \in Slots, NEW e, entries' = [entries EXCEPT ![s] = e]
  PROVE  Held' = [Held EXCEPT ![s] = ConfigOf(e)]
  BY DEF TypeOK, Held, ConfigOf

LEMMA ViewExcept ==
  ASSUME TypeOK, NEW p \in Callers, NEW e, found' = [found EXCEPT ![p] = e]
  PROVE  View' = [View EXCEPT ![p] = ConfigOf(e)]
  BY DEF TypeOK, View, ConfigOf

LEMMA ReadRefines ==
  ASSUME TypeOK, NEW p \in Callers, NEW s \in Slots, ReadLocked(p, s)
  PROVE  Contract!Sample(p, s)
  <1>1. View' = [View EXCEPT ![p] = ConfigOf(entries[s])]
    BY ViewExcept DEF ReadLocked
  <1>2. Held' = Held /\ Held[s] = ConfigOf(entries[s])
    BY HeldSame DEF ReadLocked, Held
  <1> QED
    BY <1>1, <1>2 DEF Contract!Sample, ReadLocked, Held, View

LEMMA AnswerRefines ==
  ASSUME TypeOK, NEW p \in Callers, Answer(p)
  PROVE  Contract!Degrade(p) \/ UNCHANGED Contract!vars
  <1>1. Held' = Held /\ UNCHANGED <<mutations, seen>>
    BY HeldSame DEF Answer
  <1>2. CASE Expired(found[p], clock)
    <2>1. View' = [View EXCEPT ![p] = NoEntry]
      BY <1>2, ViewExcept DEF Answer, ConfigOf
    <2> QED
      BY <1>1, <2>1 DEF Contract!Degrade, Held, View
  <1>3. CASE ~Expired(found[p], clock)
    <2>1. View' = View
      BY <1>3, ViewSame DEF Answer
    <2> QED
      BY <1>1, <2>1 DEF Contract!vars, Held, View
  <1> QED
    BY <1>2, <1>3

LEMMA EvictRefines ==
  ASSUME TypeOK, NEW p \in Callers, Evict(p)
  PROVE  (\E s \in Slots : Contract!Lose(s)) \/ UNCHANGED Contract!vars
  <1>1. slot[p] \in Slots /\ View' = View /\ UNCHANGED <<mutations, seen>>
    BY ViewSame DEF Evict, TypeOK
  <1>2. CASE entries[slot[p]] # NoEntry /\ Expired(entries[slot[p]], clock)
    <2>1. Held' = [Held EXCEPT ![slot[p]] = NoEntry]
      BY <1>1, <1>2, HeldExcept DEF Evict, ConfigOf
    <2>2. Held[slot[p]] # NoEntry
      BY <1>1, <1>2, ConfigOfEntry, CacheAssumption DEF Held, TypeOK
    <2> QED
      BY <1>1, <2>1, <2>2 DEF Contract!Lose, Contract!Forget, Held, View
  <1>3. CASE ~(entries[slot[p]] # NoEntry /\ Expired(entries[slot[p]], clock))
    <2>1. entries' = entries
      BY <1>1, <1>3 DEF Evict, TypeOK
    <2> QED
      BY <1>1, <2>1, HeldSame DEF Contract!vars, Held, View
  <1> QED
    BY <1>2, <1>3

LEMMA SetRefines ==
  ASSUME TypeOK, NEW p \in Callers, SetLocked(p)
  PROVE  \E s \in Slots, c \in Configs : Contract!Write(s, c)
  <1>1. /\ slot[p] \in Slots /\ given[p] \in Entries
        /\ given[p].config \in Configs /\ ConfigOf(given[p]) = given[p].config
    BY ConfigOfEntry DEF SetLocked, TypeOK
  <1> DEFINE lost == {s \in Slots \ {slot[p]} : Swept[s] = NoEntry}
  <1>2. \A s \in Slots : entries'[s] = IF s = slot[p] THEN given[p] ELSE Swept[s]
    BY <1>1 DEF SetLocked, Swept
  <1>3. \A s \in Slots : Swept[s] = NoEntry \/ Swept[s] = entries[s]
    BY DEF Swept
  <1>4. Held' = [t \in Slots |-> IF t = slot[p] THEN given[p].config
                                ELSE IF t \in lost THEN NoEntry ELSE Held[t]]
    <2>1. ASSUME NEW t \in Slots
          PROVE  ConfigOf(entries'[t]) = IF t = slot[p] THEN given[p].config
                                         ELSE IF t \in lost THEN NoEntry ELSE Held[t]
      BY <1>1, <1>2, <1>3, <2>1 DEF Held, ConfigOf
    <2>2. Held' = [t \in Slots |-> ConfigOf(entries'[t])]
      BY DEF Held, ConfigOf
    <2> QED
      BY ONLY <2>1, <2>2
  <1>5. View' = View /\ mutations' = mutations + 1 /\ seen' = seen /\ lost \in SUBSET (Slots \ {slot[p]})
    BY ViewSame DEF SetLocked
  <1>6. Contract!Write(slot[p], given[p].config)
    BY <1>4, <1>5 DEF Contract!Write, Contract!Store, Held, View
  <1> QED
    BY <1>1, <1>6

LEMMA FillRefines ==
  ASSUME TypeOK, VersionCounts, NEW p \in Callers, FillLocked(p)
  PROVE  (\E s \in Slots, c \in Configs : Contract!Fill(p, s, c)) \/ Contract!Conflict(p)
  <1>1. /\ slot[p] \in Slots /\ given[p] \in Entries
        /\ given[p].config \in Configs /\ ConfigOf(given[p]) = given[p].config
    BY ConfigOfEntry DEF FillLocked, TypeOK
  <1>2. View' = View /\ seen' = [seen EXCEPT ![p] = Contract!NoVersion]
    BY ViewSame DEF FillLocked, Contract!NoVersion
  <1>3. CASE token[p] = version
    <2>1. Held' = [Held EXCEPT ![slot[p]] = given[p].config]
      BY <1>1, <1>3, HeldExcept DEF FillLocked
    <2>2. Held' = [t \in Slots |-> IF t = slot[p] THEN given[p].config
                                  ELSE IF t \in {} THEN NoEntry ELSE Held[t]]
      BY <1>1, <2>1 DEF Held
    <2>3. mutations' = mutations + 1
      BY <1>3 DEF FillLocked
    <2>4. Contract!Fill(p, slot[p], given[p].config)
      BY <1>2, <1>3, <2>2, <2>3, VersionCounts
      DEF VersionCounts, Contract!Fill, Contract!StoreIfVersion, Contract!Store, Held, View
    <2> QED
      BY <1>1, <2>4
  <1>4. CASE token[p] # version
    <2>1. Held' = Held /\ mutations' = mutations
      BY <1>4, HeldSame DEF FillLocked
    <2> QED
      BY <1>2, <1>4, <2>1 DEF VersionCounts, Contract!Conflict, Held, View
  <1> QED
    BY <1>3, <1>4

LEMMA DeleteRefines ==
  ASSUME TypeOK, NEW p \in Callers, NEW s \in Slots, DeleteLocked(p, s)
  PROVE  Contract!Remove(s)
  <1>1. Held' = [Held EXCEPT ![s] = NoEntry]
    BY HeldExcept DEF DeleteLocked, ConfigOf
  <1>2. View' = View /\ seen' = seen /\ mutations' = mutations + 1
    BY ViewSame DEF DeleteLocked
  <1> QED
    BY <1>1, <1>2 DEF Contract!Remove, Contract!Delete, Held, View

\* MemoryConfigCache is a VersionedConfigCache.
THEOREM CacheImplementsContract == Spec => ImplementsContract
  <1>1. Init => Contract!Init
    BY DEF Init, Contract!Init, ConfigOf, Contract!NoVersion
  <1>3. Init => VersionCounts
    BY DEF Init, VersionCounts
  <1>4. VersionCounts /\ [Next]_vars => VersionCounts'
    BY DEF VersionCounts, Next, CallerStep, Tick, ReadLocked, DeleteLocked, Answer, Evict, StartSet,
       StartFill, StartWrite, SetLocked, FillLocked, vars
  <1>2. IInv /\ VersionCounts /\ [Next]_vars => [Contract!Next]_(Contract!vars)
    <2> SUFFICES ASSUME TypeOK, VersionCounts, [Next]_vars
                 PROVE  Contract!Next \/ UNCHANGED Contract!vars
      BY DEF IInv
    <2>1. ASSUME UNCHANGED <<entries, mutations, found, seen>> PROVE UNCHANGED Contract!vars
      BY <2>1, HeldSame, ViewSame DEF Contract!vars, Held, View
    <2>2. CASE Tick \/ UNCHANGED vars
      BY <2>1, <2>2 DEF Tick, vars
    <2>3. ASSUME NEW p \in Callers, CallerStep(p)
          PROVE  Contract!Next \/ UNCHANGED Contract!vars
      <3>1. ASSUME NEW s \in Slots, ReadLocked(p, s) PROVE Contract!Next
        BY <3>1, ReadRefines DEF Contract!Next
      <3>2. ASSUME NEW s \in Slots, DeleteLocked(p, s) PROVE Contract!Next
        BY <3>2, DeleteRefines DEF Contract!Next
      <3>3. CASE Answer(p)
        BY <3>3, AnswerRefines DEF Contract!Next
      <3>4. CASE Evict(p)
        BY <3>4, EvictRefines DEF Contract!Next
      <3>5. ASSUME NEW s \in Slots, NEW c \in Configs, StartSet(p, s, c) \/ StartFill(p, s, c)
            PROVE  UNCHANGED Contract!vars
        BY <2>1, <3>5 DEF StartSet, StartFill, StartWrite
      <3>6. CASE SetLocked(p)
        BY <3>6, SetRefines DEF Contract!Next
      <3>7. CASE FillLocked(p)
        BY <3>7, VersionCounts, FillRefines DEF Contract!Next
      <3> QED
        BY <2>3, <3>1, <3>2, <3>3, <3>4, <3>5, <3>6, <3>7 DEF CallerStep
    <2> QED
      BY <2>2, <2>3 DEF Next
  <1> QED
    BY <1>1, <1>2, <1>3, <1>4, Invariance, PTL DEF Spec, ImplementsContract, Contract!Spec
=============================================================================
