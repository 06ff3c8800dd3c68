------------------------- MODULE ConfigLoaderProofs -------------------------
(***************************************************************************)
(* ConfigLoader keeps its safety properties for any number of calls,       *)
(* factories, slots and revisions, whatever may fail.                      *)
(***************************************************************************)
EXTENDS ConfigLoader, TLAPS

-----------------------------------------------------------------------------
(* The inductive invariant.                                                *)

\* The table names the leader of each key, and only the leader.
LeaderKnown == \A p \in Opens : pc[p] \in Leading => loads[req[p]] = p /\ leader[p] = p
LoadIsLed   == \A k \in Keys :
                 loads[k] \in Opens => pc[loads[k]] \in Leading /\ req[loads[k]] = k

\* A follower knows its leader and expects what it expects.
FollowersAgree ==
  \A p \in Opens : pc[p] = "wait" /\ loads[req[p]] \in Opens =>
    leader[p] = loads[req[p]] /\ since[p] = since[loads[req[p]]]

\* The source is ahead of the cache, the cache ahead of the calls.
SourceAhead == \A s \in Slots : published[s] <= source[s].rev
SinceBehind == \A p \in Opens : since[p] <= published[Slot(p)]
TokenBehind == \A p \in Opens : token[p] <= version

\* A record on its way to the cache is not newer than the source, and if its
\* version is still current nothing has been published since it was read.
FillSound ==
  \A p \in Opens : pc[p] = "fill" =>
    /\ config[p] \in Nat
    /\ config[p] <= source[Slot(p)].rev
    /\ config[p] = source[Slot(p)].rev => source[Slot(p)].present
    /\ token[p] = version => published[Slot(p)] <= config[p]

\* A result is as new as it has to be as soon as there is one.
ResultSound ==
  \A p \in Opens : pc[p] \in {"fill", "finish", "wake", "done"} /\ err[p] = "none" =>
    config[p] \in Nat /\ since[p] <= config[p]

TableInv == LeaderKnown /\ LoadIsLed /\ NoLostWakeup /\ FollowersAgree

DataInv == SourceAhead /\ SinceBehind /\ TokenBehind /\ CacheCoherent /\ FillSound /\ ResultSound

IInv == TypeOK /\ TableInv /\ DataInv

\* A slot that nothing excuses has an entry, or its leader is about to store one.
Warm ==
  \A k \in Keys \ excused :
    cached[k[2]] # NoEntry \/ \E p \in Opens : pc[p] = "fill" /\ req[p] = k

\* Errors and what they come from: a call has none before its load, a panic ends it,
\* and while a load is led its source is known to lack the record if it does.
NoEarlyError == \A p \in Opens : pc[p] \in {"idle", "read", "join"} => err[p] = "none"
PanicEnds    == \A p \in Opens : err[p] = "panic" => pc[p] = "done"
LackIsKnown  == \A p \in Opens :
                  pc[p] \in Leading /\ ~source[Slot(p)].present => p \in unhealthy

Blamed(p) ==
  \/ canceled[p]
  \/ err[p] = "panic" /\ leader[p] = p
  \/ leader[p] \in Opens /\ (canceled[leader[p]] \/ leader[p] \in unhealthy)

ErrorsHaveCause == \A p \in Opens : err[p] # "none" => Blamed(p)
CtxErrHasCause  ==
  \A p \in Opens : err[p] = "ctx" =>
    canceled[p] \/ (leader[p] \in Opens /\ canceled[leader[p]])

BlameInv == NoEarlyError /\ PanicEnds /\ LackIsKnown /\ ErrorsHaveCause /\ CtxErrHasCause

-----------------------------------------------------------------------------
(* Type correctness.                                                       *)

USE DEF NoVersion, Cache!NoVersion, Keys, Leading, PCs, Slot, world, calls, past, Goto

LEMMA InitTypeOK == Init => TypeOK
  BY LoaderAssumption DEF Init, TypeOK

LEMMA StepTypeOK == TypeOK /\ [Next]_vars => TypeOK'
  <1> SUFFICES ASSUME TypeOK, [Next]_vars PROVE TypeOK'
    OBVIOUS
  <1> USE LoaderAssumption DEF TypeOK
  <1>1. ASSUME NEW s \in Slots, Commit(s) PROVE TypeOK'
    BY <1>1 DEF Commit
  <1>2. ASSUME NEW s \in Slots, Publish(s) PROVE TypeOK'
    <2>1. cached' \in [Slots -> Nat \cup {NoEntry}]
      <3>1. source[s].rev \in Nat /\ cached \in [Slots -> Nat \cup {NoEntry}]
        OBVIOUS
      <3>2. CASE Cache!Store(s, source[s].rev, {})
        BY <3>1, <3>2 DEF Cache!Store
      <3>3. CASE Cache!Delete(s)
        BY <3>1, <3>3 DEF Cache!Delete
      <3> QED BY <1>2, <3>2, <3>3 DEF Publish
    <2>2. version' \in Nat /\ published' \in [Slots -> Nat] /\ pending' \in SUBSET Slots
      BY <1>2 DEF Publish, Cache!Store, Cache!Delete
    <2>3. excused' \in SUBSET Keys
      BY <1>2 DEF Publish, ExcuseAll
    <2> QED
      BY <1>2, <2>1, <2>2, <2>3 DEF Publish
  <1>3. ASSUME NEW s \in Slots, AbandonPublish(s) PROVE TypeOK'
    BY <1>3 DEF AbandonPublish
  <1>4. ASSUME NEW s \in Slots, Expire(s) PROVE TypeOK'
    BY <1>4 DEF Expire, Cache!Forget, ExcuseAll
  <1>5. ASSUME NEW p \in Opens, Open(p) PROVE TypeOK'
    BY <1>5 DEF Open
  <1>6. ASSUME NEW p \in Opens, Cancel(p) PROVE TypeOK'
    BY <1>6 DEF Cancel
  <1>7. ASSUME NEW p \in Opens, ReadHit(p) PROVE TypeOK'
    BY <1>7 DEF ReadHit
  <1>8. ASSUME NEW p \in Opens, ReadMiss(p) PROVE TypeOK'
    BY <1>8 DEF ReadMiss
  <1>9. ASSUME NEW p \in Opens, Join(p) PROVE TypeOK'
    BY <1>9 DEF Join
  <1>10. ASSUME NEW p \in Opens, Lead(p) PROVE TypeOK'
    BY <1>10 DEF Lead, Leads
  <1>11. ASSUME NEW p \in Opens, SampleHit(p) PROVE TypeOK'
    BY <1>11 DEF SampleHit
  <1>12. ASSUME NEW p \in Opens, SampleMiss(p) PROVE TypeOK'
    BY <1>12 DEF SampleMiss
  <1>13. ASSUME NEW p \in Opens, SampleError(p) PROVE TypeOK'
    BY <1>13 DEF SampleError, Excuse
  <1>14. ASSUME NEW p \in Opens, SourceLoads(p) PROVE TypeOK'
    BY <1>14 DEF SourceLoads
  <1>15. ASSUME NEW p \in Opens, SourceRefuses(p) PROVE TypeOK'
    BY <1>15 DEF SourceRefuses, Excuse
  <1>16. ASSUME NEW p \in Opens, SourcePanics(p) PROVE TypeOK'
    BY <1>16 DEF SourcePanics
  <1>17. ASSUME NEW p \in Opens, Fill(p) PROVE TypeOK'
    BY <1>17 DEF Fill, Cache!StoreIfVersion, Cache!Store
  <1>18. ASSUME NEW p \in Opens, FillDefeated(p) PROVE TypeOK'
    BY <1>18 DEF FillDefeated, Excuse
  <1>19. ASSUME NEW p \in Opens, Finish(p) PROVE TypeOK'
    BY <1>19 DEF Finish, Followers
  <1>20. ASSUME NEW p \in Opens, FollowerWakes(p) PROVE TypeOK'
    BY <1>20 DEF FollowerWakes
  <1>21. ASSUME NEW p \in Opens, FollowerLeaves(p) PROVE TypeOK'
    BY <1>21 DEF FollowerLeaves
  <1>22. CASE UNCHANGED vars
    BY <1>22 DEF vars
  <1> QED
    BY <1>1, <1>2, <1>3, <1>4, <1>5, <1>6, <1>7, <1>8, <1>9, <1>10, <1>11, <1>12, <1>13, <1>14, <1>15, <1>16, <1>17, <1>18, <1>19, <1>20, <1>21, <1>22 DEF Next, Step, Terminating

\* Every reachable state is well typed.
THEOREM TypeCorrect == Spec => []TypeOK
  <1> QED BY InitTypeOK, StepTypeOK, PTL DEF Spec

-----------------------------------------------------------------------------
(* The table of loads.                                                     *)

LEMMA InitTable == Init => TableInv
  BY LoaderAssumption DEF Init, TableInv, LeaderKnown, LoadIsLed, NoLostWakeup, FollowersAgree

LEMMA StepTable == TypeOK /\ TypeOK' /\ TableInv /\ [Next]_vars => TableInv'
  <1> SUFFICES ASSUME TypeOK, TypeOK', TableInv, [Next]_vars PROVE TableInv'
    OBVIOUS
  <1> USE LoaderAssumption DEF TypeOK, TableInv, LeaderKnown, LoadIsLed, NoLostWakeup, FollowersAgree
  <1>1. CASE UNCHANGED <<loads, req, pc, since, leader>>
    BY <1>1
  <1>2. ASSUME NEW p \in Opens, Open(p) PROVE TableInv'
    <2>1. pc[p] = "idle" /\ pc' = [pc EXCEPT ![p] = "read"] /\ loads' = loads /\ req' = req
      BY <1>2 DEF Open
    <2>2. leader' = leader /\ \A q \in Opens : q # p => since'[q] = since[q]
      BY <1>2 DEF Open
    <2>3. \A k \in Keys : loads[k] \in Opens => loads[k] # p
      BY <2>1
    <2>4. LeaderKnown' /\ LoadIsLed' /\ NoLostWakeup'
      BY <2>1, <2>2, <2>3
    <2>5. FollowersAgree'
      BY <2>1, <2>2, <2>3
    <2> QED
      BY <2>4, <2>5
  <1>3. ASSUME NEW p \in Opens, ReadHit(p) PROVE TableInv'
    BY <1>3 DEF ReadHit
  <1>4. ASSUME NEW p \in Opens, ReadMiss(p) PROVE TableInv'
    BY <1>4 DEF ReadMiss
  <1>5. ASSUME NEW p \in Opens, Join(p) PROVE TableInv'
    BY <1>5 DEF Join
  <1>6. ASSUME NEW p \in Opens, Lead(p) PROVE TableInv'
    BY <1>6 DEF Lead, Leads
  <1>7. ASSUME NEW p \in Opens, SampleHit(p) PROVE TableInv'
    BY <1>7 DEF SampleHit
  <1>8. ASSUME NEW p \in Opens, SampleMiss(p) PROVE TableInv'
    BY <1>8 DEF SampleMiss
  <1>9. ASSUME NEW p \in Opens, SampleError(p) PROVE TableInv'
    BY <1>9 DEF SampleError
  <1>10. ASSUME NEW p \in Opens, SourceLoads(p) PROVE TableInv'
    BY <1>10 DEF SourceLoads
  <1>11. ASSUME NEW p \in Opens, SourceRefuses(p) PROVE TableInv'
    BY <1>11 DEF SourceRefuses
  <1>12. ASSUME NEW p \in Opens, SourcePanics(p) PROVE TableInv'
    BY <1>12 DEF SourcePanics
  <1>13. ASSUME NEW p \in Opens, Fill(p) PROVE TableInv'
    BY <1>13 DEF Fill, Cache!StoreIfVersion, Cache!Store
  <1>14. ASSUME NEW p \in Opens, FillDefeated(p) PROVE TableInv'
    BY <1>14 DEF FillDefeated
  <1>15. ASSUME NEW p \in Opens, Finish(p) PROVE TableInv'
    BY <1>15 DEF Finish, Followers
  <1>16. ASSUME NEW p \in Opens, FollowerWakes(p) PROVE TableInv'
    BY <1>16 DEF FollowerWakes
  <1>17. ASSUME NEW p \in Opens, FollowerLeaves(p) PROVE TableInv'
    BY <1>17 DEF FollowerLeaves
  <1> QED
    BY <1>1, <1>2, <1>3, <1>4, <1>5, <1>6, <1>7, <1>8, <1>9, <1>10, <1>11, <1>12, <1>13, <1>14, <1>15, <1>16, <1>17
    DEF Next, Step, Terminating, Commit, Publish, AbandonPublish, Expire, Cancel, vars

-----------------------------------------------------------------------------
(* The data.                                                               *)

LEMMA InitData == Init => DataInv
  BY LoaderAssumption DEF Init, DataInv, SourceAhead, SinceBehind, TokenBehind, CacheCoherent,
     FillSound, ResultSound

LEMMA StepData == TypeOK /\ TypeOK' /\ TableInv /\ DataInv /\ [Next]_vars => DataInv'
  <1> SUFFICES ASSUME TypeOK, TypeOK', TableInv, DataInv, [Next]_vars PROVE DataInv'
    OBVIOUS
  <1> USE LoaderAssumption DEF TypeOK, DataInv, SourceAhead, SinceBehind, TokenBehind, CacheCoherent, FillSound, ResultSound
  <1>1. CASE UNCHANGED <<source, published, cached, version, req, pc, token, config, err, since>>
    BY <1>1
  <1>2. ASSUME NEW s \in Slots, Commit(s) PROVE DataInv'
    BY <1>2 DEF Commit
  <1>3. ASSUME NEW s \in Slots, Publish(s) PROVE DataInv'
    \* The new version defeats every fill under way.
    <2>1. /\ version' = version + 1
          /\ published' = [published EXCEPT ![s] = source[s].rev]
          /\ UNCHANGED <<source, req, pc, token, config, err, since>>
      BY <1>3 DEF Publish, Cache!Store, Cache!Delete, calls
    <2>2. \A p \in Opens : token'[p] # version'
      BY <2>1
    <2>3. \A t \in Slots : published[t] <= published'[t]
      BY <2>1
    <2>4. TokenBehind'
      <3>1. version' = version + 1 /\ token' = token
        BY <2>1
      <3>2. version \in Nat /\ token \in [Opens -> Nat \cup {-1}]
        OBVIOUS
      <3> QED
        BY ONLY <3>1, <3>2, TokenBehind DEF TokenBehind
    <2>8. SourceAhead'
      BY <2>1
    <2>5. SinceBehind'
      BY <2>1, <2>3
    <2>6. FillSound' /\ ResultSound'
      BY <2>1, <2>2
    <2>7. CacheCoherent'
      <3>1. /\ \A t \in Slots \ {s} : cached'[t] = cached[t]
            /\ \/ source[s].present /\ cached'[s] = source[s].rev
               \/ cached'[s] = NoEntry
        BY <1>3 DEF Publish, Cache!Store, Cache!Delete
      <3> QED
        BY <2>1, <3>1
    <2> QED
      BY <2>4, <2>5, <2>6, <2>7, <2>8
  <1>4. ASSUME NEW s \in Slots, Expire(s) PROVE DataInv'
    BY <1>4 DEF Expire, Cache!Forget
  <1>5. ASSUME NEW p \in Opens, Open(p) PROVE DataInv'
    BY <1>5 DEF Open
  <1>6. ASSUME NEW p \in Opens, ReadHit(p) PROVE DataInv'
    BY <1>6 DEF ReadHit
  <1>7. ASSUME NEW p \in Opens, ReadMiss(p) PROVE DataInv'
    BY <1>7 DEF ReadMiss
  <1>8. ASSUME NEW p \in Opens, Join(p) PROVE DataInv'
    BY <1>8 DEF Join, TableInv, LoadIsLed
  <1>9. ASSUME NEW p \in Opens, Lead(p) PROVE DataInv'
    BY <1>9 DEF Lead, Leads
  <1>10. ASSUME NEW p \in Opens, SampleHit(p) PROVE DataInv'
    BY <1>10 DEF SampleHit
  <1>11. ASSUME NEW p \in Opens, SampleMiss(p) PROVE DataInv'
    BY <1>11 DEF SampleMiss
  <1>12. ASSUME NEW p \in Opens, SampleError(p) PROVE DataInv'
    BY <1>12 DEF SampleError
  <1>13. ASSUME NEW p \in Opens, SourceLoads(p) PROVE DataInv'
    BY <1>13 DEF SourceLoads
  <1>14. ASSUME NEW p \in Opens, SourceRefuses(p) PROVE DataInv'
    BY <1>14 DEF SourceRefuses
  <1>15. ASSUME NEW p \in Opens, SourcePanics(p) PROVE DataInv'
    BY <1>15 DEF SourcePanics
  <1>16. ASSUME NEW p \in Opens, Fill(p) PROVE DataInv'
    <2>1. /\ pc[p] = "fill" /\ pc' = [pc EXCEPT ![p] = "finish"]
          /\ token[p] = version /\ version' = version + 1
          /\ cached' = [t \in Slots |-> IF t = Slot(p) THEN config[p] ELSE cached[t]]
          /\ UNCHANGED <<source, published, req, token, config, err, since>>
      BY <1>16 DEF Fill, Cache!StoreIfVersion, Cache!Store
    <2>2. SourceAhead' /\ SinceBehind'
      BY <2>1
    <2>6. TokenBehind'
      <3>1. version' = version + 1 /\ token' = token
        BY <2>1
      <3>2. version \in Nat /\ token \in [Opens -> Nat \cup {-1}]
        OBVIOUS
      <3> QED
        BY ONLY <3>1, <3>2, TokenBehind DEF TokenBehind
    <2>3. CacheCoherent'
      BY <2>1
    <2>4. FillSound'
      BY <2>1
    <2>5. ResultSound'
      BY <2>1
    <2> QED
      BY <2>2, <2>3, <2>4, <2>5, <2>6
  <1>17. ASSUME NEW p \in Opens, FillDefeated(p) PROVE DataInv'
    BY <1>17 DEF FillDefeated
  <1>18. ASSUME NEW p \in Opens, Finish(p) PROVE DataInv'
    BY <1>18 DEF Finish, Followers, TableInv, LeaderKnown, LoadIsLed, FollowersAgree, NoLostWakeup
  <1>19. ASSUME NEW p \in Opens, FollowerWakes(p) PROVE DataInv'
    BY <1>19 DEF FollowerWakes
  <1>20. ASSUME NEW p \in Opens, FollowerLeaves(p) PROVE DataInv'
    BY <1>20 DEF FollowerLeaves
  <1> QED
    BY <1>1, <1>2, <1>3, <1>4, <1>5, <1>6, <1>7, <1>8, <1>9, <1>10, <1>11, <1>12, <1>13, <1>14, <1>15, <1>16, <1>17, <1>18, <1>19, <1>20
    DEF Next, Step, Terminating, AbandonPublish, Cancel, vars

LEMMA Invariance == Spec => []IInv
  <1>1. Init => IInv
    BY InitTypeOK, InitTable, InitData DEF IInv
  <1>2. IInv /\ [Next]_vars => IInv'
    BY StepTypeOK, StepTable, StepData DEF IInv
  <1> QED
    BY <1>1, <1>2, PTL DEF Spec

-----------------------------------------------------------------------------
(* The safety properties.                                                  *)

\* No two calls lead a load of one key.
THEOREM SingleFlightHolds == Spec => []SingleFlight
  <1>1. IInv => SingleFlight
    BY DEF IInv, TableInv, LeaderKnown, SingleFlight
  <1> QED BY <1>1, Invariance, PTL

\* No load leaves the table without its followers.
THEOREM NoLostWakeupHolds == Spec => []NoLostWakeup
  <1>1. IInv => NoLostWakeup
    BY DEF IInv, TableInv
  <1> QED BY <1>1, Invariance, PTL

\* No fill overwrites an update or resurrects a deleted entry.
THEOREM CacheCoherentHolds == Spec => []CacheCoherent
  <1>1. IInv => CacheCoherent
    BY DEF IInv, DataInv
  <1> QED BY <1>1, Invariance, PTL

\* No call answers with less than its load had to know.
THEOREM NoStaleResultHolds == Spec => []NoStaleResult
  <1>1. IInv => NoStaleResult
    BY LoaderAssumption DEF IInv, TypeOK, DataInv, ResultSound, NoStaleResult
  <1> QED BY <1>1, Invariance, PTL

-----------------------------------------------------------------------------
(* The source is read again only for a reason.                             *)

LEMMA StepWarm ==
  ASSUME TypeOK, TypeOK', TableInv, FillSound, Warm, ReloadNeedsCause, [Next]_vars
  PROVE  Warm' /\ ReloadNeedsCause'
  <1> USE LoaderAssumption DEF TypeOK, Warm, ReloadNeedsCause
  <1>1. CASE UNCHANGED <<cached, req, pc, excused>>
    BY <1>1
  <1>2. ASSUME NEW s \in Slots, Publish(s) PROVE Warm' /\ ReloadNeedsCause'
    <2>1. UNCHANGED <<req, pc>> /\ \A t \in Slots \ {s} : cached'[t] = cached[t]
      BY <1>2 DEF Publish, Cache!Store, Cache!Delete, calls
    <2>2. excused \subseteq excused'
      BY <1>2 DEF Publish, ExcuseAll
    <2>3. (cached'[s] # NoEntry) \/ \A k \in Keys : k[2] = s => k \in excused'
      BY <1>2 DEF Publish, Cache!Store, ExcuseAll
    <2>4. ReloadNeedsCause'
      BY <2>1, <2>2
    <2>5. ASSUME NEW k \in Keys \ excused'
          PROVE  cached'[k[2]] # NoEntry \/ \E p \in Opens : pc'[p] = "fill" /\ req'[p] = k
      BY <2>1, <2>2, <2>3, <2>5
    <2> QED
      BY <2>4, <2>5
  <1>3. ASSUME NEW s \in Slots, Expire(s) PROVE Warm' /\ ReloadNeedsCause'
    <2>1. UNCHANGED <<req, pc>> /\ \A t \in Slots \ {s} : cached'[t] = cached[t]
      BY <1>3 DEF Expire, Cache!Forget, calls
    <2>2. \A k \in Keys : k \in excused \/ k[2] = s => k \in excused'
      BY <1>3 DEF Expire, ExcuseAll
    <2> QED
      BY <2>1, <2>2
  \* Until the source is read no call of the key is about to store: its leader is p.
  <1>4. ASSUME NEW p \in Opens, SampleMiss(p) PROVE Warm' /\ ReloadNeedsCause'
    <2>1. ~\E q \in Opens : pc[q] = "fill" /\ req[q] = req[p]
      BY <1>4 DEF SampleMiss, TableInv, LeaderKnown
    <2>2. req[p] \in excused
      BY <1>4, <2>1 DEF SampleMiss
    <2> QED
      BY <1>4, <2>2 DEF SampleMiss
  <1>5. ASSUME NEW p \in Opens, SourceLoads(p) PROVE Warm' /\ ReloadNeedsCause'
    <2>1. \A q \in Opens : q # p /\ pc[q] = "load" => req[q] # req[p]
      BY <1>5 DEF SourceLoads, TableInv, LeaderKnown
    <2>2. Warm'
      BY <1>5 DEF SourceLoads
    <2>3. ReloadNeedsCause'
      BY <1>5, <2>1 DEF SourceLoads
    <2> QED
      BY <2>2, <2>3
  <1>6. ASSUME NEW p \in Opens, Fill(p) PROVE Warm' /\ ReloadNeedsCause'
    <2>1. /\ config[p] \in Nat
          /\ cached' = [t \in Slots |-> IF t = Slot(p) THEN config[p] ELSE cached[t]]
          /\ pc[p] = "fill" /\ pc' = [pc EXCEPT ![p] = "finish"] /\ UNCHANGED <<req, excused>>
      BY <1>6 DEF Fill, FillSound, Cache!StoreIfVersion, Cache!Store
    <2> QED
      BY <2>1
  <1>7. ASSUME NEW p \in Opens, FillDefeated(p) PROVE Warm' /\ ReloadNeedsCause'
    BY <1>7 DEF FillDefeated, Excuse
  <1>8. ASSUME NEW p \in Opens, SampleError(p) \/ SourceRefuses(p) PROVE Warm' /\ ReloadNeedsCause'
    <2>1. /\ \E l \in {"load", "finish"} : pc' = [pc EXCEPT ![p] = l]
          /\ pc[p] \in {"sample", "load"}
          /\ excused' = excused \cup {req[p]}
          /\ UNCHANGED <<cached, req>>
      BY <1>8 DEF SampleError, SourceRefuses, Excuse
    <2> QED
      BY <2>1
  <1>9. ASSUME NEW p \in Opens, Finish(p) PROVE Warm' /\ ReloadNeedsCause'
    BY <1>9 DEF Finish, Followers
  <1>10. ASSUME NEW p \in Opens,
                Open(p) \/ ReadHit(p) \/ ReadMiss(p) \/ Join(p) \/ Lead(p) \/ SampleHit(p)
                  \/ SourcePanics(p) \/ FollowerWakes(p) \/ FollowerLeaves(p)
         PROVE  Warm' /\ ReloadNeedsCause'
    BY <1>10 DEF Open, ReadHit, ReadMiss, Join, Lead, Leads, SampleHit, SourcePanics, FollowerWakes,
         FollowerLeaves
  <1> QED
    BY <1>1, <1>2, <1>3, <1>4, <1>5, <1>6, <1>7, <1>8, <1>9, <1>10
    DEF Next, Step, Terminating, Commit, AbandonPublish, Cancel, vars

\* No call reads the source without a reason.
THEOREM ReloadNeedsCauseHolds == Spec => []ReloadNeedsCause
  <1>1. Init => Warm /\ ReloadNeedsCause
    BY DEF Init, Warm, ReloadNeedsCause
  <1>2. IInv /\ IInv' /\ Warm /\ ReloadNeedsCause /\ [Next]_vars => Warm' /\ ReloadNeedsCause'
    BY StepWarm DEF IInv, DataInv
  <1> QED
    BY <1>1, <1>2, Invariance, PTL DEF Spec

-----------------------------------------------------------------------------
(* Errors and their causes.                                                *)

LEMMA StepBlame ==
  ASSUME TypeOK, TypeOK', TableInv, BlameInv, [Next]_vars
  PROVE  BlameInv'
  <1> USE LoaderAssumption DEF TypeOK, BlameInv, NoEarlyError, PanicEnds, LackIsKnown,
          ErrorsHaveCause, CtxErrHasCause, Blamed
  <1>1. CASE UNCHANGED <<source, req, pc, canceled, err, leader, unhealthy>>
    BY <1>1
  <1>2. ASSUME NEW s \in Slots, Commit(s) PROVE BlameInv'
    <2>1. /\ UNCHANGED <<req, pc, canceled, err, leader>> /\ unhealthy \subseteq unhealthy'
          /\ \A t \in Slots \ {s} : source'[t] = source[t]
      BY <1>2 DEF Commit
    <2>2. ~source'[s].present =>
            \A p \in Opens : pc[p] \in Leading /\ Slot(p) = s => p \in unhealthy'
      BY <1>2 DEF Commit
    <2>3. LackIsKnown'
      BY <2>1, <2>2
    <2> QED
      BY <2>1, <2>3
  <1>3. ASSUME NEW p \in Opens, Cancel(p) PROVE BlameInv'
    <2>1. UNCHANGED <<source, req, pc, err, leader, unhealthy>>
      BY <1>3 DEF Cancel
    <2>2. \A q \in Opens : canceled[q] => canceled'[q]
      BY <1>3 DEF Cancel
    <2> QED
      BY <2>1, <2>2
  <1>4. ASSUME NEW p \in Opens, Join(p) PROVE BlameInv'
    BY <1>4 DEF Join
  <1>5. ASSUME NEW p \in Opens, Lead(p) PROVE BlameInv'
    <2>1. /\ pc[p] = "join" /\ pc' = [pc EXCEPT ![p] = "sample"]
          /\ leader' = [leader EXCEPT ![p] = p]
          /\ unhealthy \subseteq unhealthy'
          /\ ~source[Slot(p)].present => p \in unhealthy'
          /\ UNCHANGED <<source, req, canceled, err>>
      BY <1>5 DEF Lead, Leads
    <2> QED
      BY <2>1
  <1>6. ASSUME NEW p \in Opens, SourceRefuses(p) PROVE BlameInv'
    <2>1. PICK e \in {"notFound", "failure", "ctx"} :
            /\ \/ e = "notFound" /\ ~source[Slot(p)].present
               \/ e = "failure"
               \/ e = "ctx" /\ canceled[p]
            /\ err' = [err EXCEPT ![p] = e]
            /\ unhealthy' = IF e = "failure" THEN unhealthy \cup {p} ELSE unhealthy
      BY <1>6 DEF SourceRefuses
    <2>2. /\ pc[p] = "load" /\ pc' = [pc EXCEPT ![p] = "finish"]
          /\ UNCHANGED <<source, req, canceled, leader>>
      BY <1>6 DEF SourceRefuses
    <2>3. leader[p] = p
      BY <2>2 DEF TableInv, LeaderKnown
    <2>4. NoEarlyError' /\ PanicEnds' /\ LackIsKnown'
      BY <2>1, <2>2
    <2>5. canceled[p] \/ p \in unhealthy'
      BY <2>1, <2>2
    <2>6. ErrorsHaveCause'
      BY <2>1, <2>2, <2>3, <2>5
    <2>7. CtxErrHasCause'
      BY <2>1, <2>2
    <2> QED
      BY <2>4, <2>6, <2>7
  <1>7. ASSUME NEW p \in Opens, SourcePanics(p) PROVE BlameInv'
    BY <1>7 DEF SourcePanics, TableInv, LeaderKnown
  \* Whoever gets the leader's error has that leader.
  <1>8. ASSUME NEW p \in Opens, Finish(p) PROVE BlameInv'
    <2>1. /\ pc[p] = "finish" /\ leader[p] = p /\ err[p] # "panic"
          /\ UNCHANGED <<source, req, canceled, leader, unhealthy>>
          /\ pc'  = [q \in Opens |-> IF q = p THEN "done"
                                     ELSE IF q \in Followers(p) THEN "wake" ELSE pc[q]]
          /\ err' = [q \in Opens |-> IF q \in Followers(p) THEN err[p] ELSE err[q]]
      BY <1>8 DEF Finish, TableInv, LeaderKnown
    <2>2. \A q \in Followers(p) : q \in Opens /\ leader[q] = p /\ pc[q] = "wait"
      BY <2>1 DEF Followers, TableInv, LeaderKnown, FollowersAgree
    <2>3. NoEarlyError' /\ PanicEnds' /\ LackIsKnown'
      BY <2>1, <2>2
    <2>4. err[p] # "none" => canceled[p] \/ p \in unhealthy
      BY <2>1
    <2>5. err[p] = "ctx" => canceled[p]
      BY <2>1
    <2>6. ErrorsHaveCause'
      BY <2>1, <2>2, <2>4
    <2>7. CtxErrHasCause'
      BY <2>1, <2>2, <2>5
    <2> QED
      BY <2>3, <2>6, <2>7
  <1>9. ASSUME NEW p \in Opens, FollowerLeaves(p) PROVE BlameInv'
    BY <1>9 DEF FollowerLeaves
  <1>10. ASSUME NEW p \in Opens,
                Open(p) \/ ReadHit(p) \/ ReadMiss(p) \/ SampleHit(p) \/ SampleMiss(p)
                  \/ SampleError(p) \/ SourceLoads(p) \/ Fill(p) \/ FillDefeated(p)
                  \/ FollowerWakes(p)
         PROVE  BlameInv'
    <2>1. /\ UNCHANGED <<source, req, canceled, err, leader, unhealthy>>
          /\ \E l \in PCs : pc' = [pc EXCEPT ![p] = l]
          /\ pc[p] \in Leading \/ pc'[p] \notin Leading
          /\ pc[p] \in {"idle", "read"} \/ pc'[p] \notin {"idle", "read", "join"}
          /\ pc[p] # "done"
      BY <1>10 DEF Open, ReadHit, ReadMiss, SampleHit, SampleMiss, SampleError, SourceLoads, Fill,
         FillDefeated, FollowerWakes, Excuse
    <2> QED
      BY <2>1
  <1> QED
    BY <1>1, <1>2, <1>3, <1>4, <1>5, <1>6, <1>7, <1>8, <1>9, <1>10
    DEF Next, Step, Terminating, Publish, AbandonPublish, Expire, vars

LEMMA Blame == Spec => []BlameInv
  <1>1. Init => BlameInv
    BY DEF Init, BlameInv, NoEarlyError, PanicEnds, LackIsKnown, ErrorsHaveCause, CtxErrHasCause
  <1>2. IInv /\ IInv' /\ BlameInv /\ [Next]_vars => BlameInv'
    BY StepBlame DEF IInv
  <1> QED
    BY <1>1, <1>2, Invariance, PTL DEF Spec

\* No call fails for a context but its own and that of the leader it has joined.
THEOREM CancellationStaysInItsLoadHolds == Spec => []CancellationStaysInItsLoad
  <1>1. BlameInv => CancellationStaysInItsLoad
    BY DEF BlameInv, CtxErrHasCause, CancellationStaysInItsLoad
  <1> QED BY <1>1, Blame, PTL

\* However the cache fails, a call only fails for a context, a panic or the source.
THEOREM CacheOutageNeverFailsOpenHolds == Spec => []CacheOutageNeverFailsOpen
  <1>1. BlameInv => CacheOutageNeverFailsOpen
    BY DEF BlameInv, ErrorsHaveCause, Blamed, CacheOutageNeverFailsOpen
  <1> QED BY <1>1, Blame, PTL
=============================================================================
