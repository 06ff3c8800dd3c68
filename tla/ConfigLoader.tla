---------------------------- MODULE ConfigLoader ----------------------------
(***************************************************************************)
(* cachedConfigSource.Load (config_loader.go:47-103), the read path of     *)
(* every Factory.Open with a cache: look in the cache, join the load that  *)
(* is already running for the slot or lead a new one, look again, read the *)
(* source, fill the cache at the version of the second look, and answer    *)
(* everyone who joined.  Several factories may share one cache; each has   *)
(* its own table of running loads.                                         *)
(*                                                                         *)
(* Around it run the application, which commits a configuration to its     *)
(* source and then calls Set or Delete on the cache as                     *)
(* docs/config-sources.md asks (a crash between the two is possible, two   *)
(* updates of one slot at once are not), the clock, which expires entries, *)
(* and the callers, whose contexts may be cancelled.                       *)
(*                                                                         *)
(* A configuration is the revision of the slot it was read at.  The cache  *)
(* is used through the operators of VersionedCache; that reading an entry  *)
(* which has just expired is a miss is Expire followed by a miss.          *)
(***************************************************************************)
EXTENDS Integers

CONSTANTS
  Opens,           (* calls of Load, each by one Factory.Open             *)
  Factories,       (* cachedConfigSource values                           *)
  Slots,           (* (tenant ID, container key) pairs                    *)
  CacheKinds,      (* may the cache be a VersionedConfigCache? \subseteq BOOLEAN *)
  SourceMayFail,   (* may the source, the cache return errors, the source panic? *)
  CacheMayFail,
  SourceMayPanic,
  MaxRev,          (* bound: revisions of a slot                          *)
  NoEntry,         (* a slot without an entry, a call without a result    *)
  NoCall,          (* no load is running                                  *)
  Orphan           (* a load whose goroutine has panicked                 *)

Keys == Factories \X Slots  \* a configLoadKey, with the table it is in

ASSUME LoaderAssumption ==
  /\ CacheKinds \subseteq BOOLEAN
  /\ {SourceMayFail, CacheMayFail, SourceMayPanic} \subseteq BOOLEAN
  /\ MaxRev \in Nat
  /\ NoEntry \notin Nat
  /\ NoCall \notin Opens
  /\ Orphan \notin Opens
  /\ NoCall # Orphan

VARIABLES
  \* The world outside the factories.
  source,     (* [Slots -> [rev, present]]: the record in the ConfigSource *)
  pending,    (* the slots committed to the source, but not yet to the cache *)
  published,  (* ghost: the revision of the last Set or Delete of a slot  *)
  cached,     (* the entries of the cache                                 *)
  version,    (* and its version                                          *)
  versioned,  (* is it a VersionedConfigCache?                            *)
  \* The calls of Load.
  loads,      (* [Keys -> Opens \cup {NoCall, Orphan}]: s.loads, by leader *)
  req,        (* what each call asks for, and of whom                     *)
  pc,         (* how far it has come                                      *)
  canceled,   (* its context                                              *)
  token,      (* version                                                  *)
  config,     (* call.config: the revision it will return                 *)
  err,        (* call.err                                                 *)
  \* Ghosts about them.
  floor,      (* published when the call was made                         *)
  since,      (* published when the load was created that answers it      *)
  excused,    (* the keys for which the source may be read                *)
  leader,     (* the call that leads the load it has joined, or it itself *)
  unhealthy   (* the leaders whose source had no record, or failed        *)

world == <<source, pending, published, cached, version>>
calls == <<loads, pc, token, config, err>>
past  == <<floor, leader, unhealthy>>
vars  == <<source, pending, published, cached, version, versioned, loads, req, pc,
           canceled, token, config, err, past, since, excused>>

Cache == INSTANCE VersionedCache WITH
           held <- cached, view <- config, Configs <- Nat, Callers <- Opens

NoVersion == Cache!NoVersion

Slot(p) == req[p][2]

Leading == {"sample", "load", "fill", "finish"}

PCs == {"idle", "read", "join", "wait", "wake", "done"} \cup Leading

TypeOK ==
  /\ source    \in [Slots -> [rev : Nat, present : BOOLEAN]]
  /\ pending   \in SUBSET Slots
  /\ published \in [Slots -> Nat]
  /\ cached    \in [Slots -> Nat \cup {NoEntry}]
  /\ version   \in Nat
  /\ versioned \in BOOLEAN
  /\ loads     \in [Keys -> Opens \cup {NoCall, Orphan}]
  /\ req       \in [Opens -> Keys]
  /\ pc        \in [Opens -> PCs]
  /\ canceled  \in [Opens -> BOOLEAN]
  /\ token     \in [Opens -> Nat \cup {NoVersion}]
  /\ config    \in [Opens -> Nat \cup {NoEntry}]
  /\ \A p \in Opens : pc[p] = "fill" => config[p] \in Nat
  /\ err       \in [Opens -> {"none", "notFound", "failure", "ctx", "panic"}]
  /\ floor     \in [Opens -> Nat]
  /\ since     \in [Opens -> Nat]
  /\ excused   \in SUBSET Keys
  /\ leader    \in [Opens -> Opens \cup {NoCall, Orphan}]
  /\ unhealthy \in SUBSET Opens

Init ==
  /\ source    \in [Slots -> [rev : {0}, present : BOOLEAN]]
  /\ pending   = {}
  /\ published = [s \in Slots |-> 0]
  /\ cached    = [s \in Slots |-> NoEntry]
  /\ version   = 0
  /\ versioned \in CacheKinds
  /\ loads     = [k \in Keys |-> NoCall]
  /\ req       \in [Opens -> Keys]
  /\ pc        = [p \in Opens |-> "idle"]
  /\ canceled  = [p \in Opens |-> FALSE]
  /\ token     = [p \in Opens |-> NoVersion]
  /\ config    = [p \in Opens |-> NoEntry]
  /\ err       = [p \in Opens |-> "none"]
  /\ floor     = [p \in Opens |-> 0]
  /\ since     = [p \in Opens |-> 0]
  /\ excused   = Keys
  /\ leader    = [p \in Opens |-> NoCall]
  /\ unhealthy = {}

\* A reason to read the source again for a slot, in every factory or in one.
ExcuseAll(s) == excused' = excused \cup {k \in Keys : k[2] = s}
Excuse(p)    == excused' = excused \cup {req[p]}

-----------------------------------------------------------------------------
(* The application and the cache's clock.                                  *)

\* The source gets a new revision of a slot, or loses it.
Commit(s) ==
  /\ s \notin pending
  /\ source[s].rev < MaxRev
  /\ \E present \in BOOLEAN :
       /\ source' = [source EXCEPT ![s] = [rev |-> @.rev + 1, present |-> present]]
       /\ unhealthy' = unhealthy \cup
            {p \in Opens : pc[p] \in Leading /\ Slot(p) = s /\ ~present}
  /\ pending' = pending \cup {s}
  /\ UNCHANGED <<published, cached, version, versioned, req, canceled, floor,
                 since, excused, leader, calls>>

\* What it committed, the application sets in the cache, or deletes there.
Publish(s) ==
  /\ s \in pending
  /\ \/ /\ source[s].present
        /\ Cache!Store(s, source[s].rev, {})
        /\ UNCHANGED excused
     \/ /\ Cache!Delete(s)
        /\ ExcuseAll(s)
  /\ published' = [published EXCEPT ![s] = source[s].rev]
  /\ pending'   = pending \ {s}
  /\ UNCHANGED <<source, versioned, req, canceled, past, since, calls>>

\* The application crashes first, or the cache refuses.
AbandonPublish(s) ==
  /\ s \in pending
  /\ pending' = pending \ {s}
  /\ UNCHANGED <<source, published, cached, version, versioned, req, canceled,
                 past, since, excused, calls>>

Expire(s) ==
  /\ Cache!Forget(s)
  /\ ExcuseAll(s)
  /\ UNCHANGED <<source, pending, published, versioned, req, canceled, past,
                 since, calls>>

Cancel(p) ==
  /\ pc[p] \notin {"idle", "done"}
  /\ ~canceled[p]
  /\ canceled' = [canceled EXCEPT ![p] = TRUE]
  /\ UNCHANGED <<world, versioned, req, past, since, excused, calls>>

-----------------------------------------------------------------------------
(* Load: the first look in the cache.                                      *)

Goto(p, l) == pc' = [pc EXCEPT ![p] = l]

\* The cache cannot answer: it fails, or sees that the context is cancelled.
CacheFails(p) == CacheMayFail \/ canceled[p]

Open(p) ==
  /\ pc[p] = "idle"
  /\ Goto(p, "read")
  /\ floor' = [floor EXCEPT ![p] = published[Slot(p)]]
  /\ since' = [since EXCEPT ![p] = published[Slot(p)]]
  /\ UNCHANGED <<world, versioned, loads, req, canceled, token, config, err, excused,
                 leader, unhealthy>>

ReadHit(p) ==
  /\ pc[p] = "read"
  /\ cached[Slot(p)] # NoEntry
  /\ config' = [config EXCEPT ![p] = cached[Slot(p)]]
  /\ Goto(p, "done")
  /\ UNCHANGED <<world, versioned, loads, req, canceled, token, err, past, since, excused>>

\* A failing read is a miss.
ReadMiss(p) ==
  /\ pc[p] = "read"
  /\ cached[Slot(p)] = NoEntry \/ CacheFails(p)
  /\ Goto(p, "join")
  /\ UNCHANGED <<world, versioned, loads, req, canceled, token, config, err, past,
                 since, excused>>

-----------------------------------------------------------------------------
(* Load: join or lead, under s.mu.                                         *)

\* A load is running: wait for it.
Join(p) ==
  /\ pc[p] = "join"
  /\ loads[req[p]] # NoCall
  /\ Goto(p, "wait")
  /\ since' = [since EXCEPT ![p] = IF loads[req[p]] = Orphan THEN @
                                   ELSE since[loads[req[p]]]]
  /\ leader' = [leader EXCEPT ![p] = loads[req[p]]]
  /\ UNCHANGED <<world, versioned, loads, req, canceled, token, config, err, floor, excused,
                 unhealthy>>

\* Whoever leads answers for itself, and for the source's record from now on.
Leads(p) ==
  /\ loads' = [loads EXCEPT ![req[p]] = p]
  /\ leader' = [leader EXCEPT ![p] = p]
  /\ since' = [since EXCEPT ![p] = published[Slot(p)]]
  /\ unhealthy' = IF source[Slot(p)].present THEN unhealthy ELSE unhealthy \cup {p}

\* Mutant: without looking the call up under the lock.
LeadUnchecked(p) ==
  /\ pc[p] = "join"
  /\ Leads(p)
  /\ Goto(p, "sample")
  /\ UNCHANGED <<world, versioned, req, canceled, token, config, err, floor, excused>>

\* Mutant: without the second look in the cache.
LeadBlind(p) ==
  /\ pc[p] = "join"
  /\ loads[req[p]] = NoCall
  /\ Leads(p)
  /\ Goto(p, "load")
  /\ token' = [token EXCEPT ![p] = version]
  /\ UNCHANGED <<world, versioned, req, canceled, config, err, floor, excused>>

Lead(p) ==
  /\ pc[p] = "join"
  /\ loads[req[p]] = NoCall
  /\ Leads(p)
  /\ Goto(p, "sample")
  /\ UNCHANGED <<world, versioned, req, canceled, token, config, err, floor, excused>>

-----------------------------------------------------------------------------
(* Load: what the leader does.                                             *)

\* The second look takes the version, too: a load may have ended after the first.
SampleHit(p) ==
  /\ pc[p] = "sample"
  /\ cached[Slot(p)] # NoEntry
  /\ config' = [config EXCEPT ![p] = cached[Slot(p)]]
  /\ Goto(p, "finish")
  /\ UNCHANGED <<world, versioned, loads, req, canceled, token, err, past, since, excused>>

SampleMiss(p) ==
  /\ pc[p] = "sample"
  /\ cached[Slot(p)] = NoEntry
  /\ token' = [token EXCEPT ![p] = version]
  /\ Goto(p, "load")
  /\ UNCHANGED <<world, versioned, loads, req, canceled, config, err, past, since, excused>>

\* Mutant: an error is a result, too.
SampleErrorKept(p) ==
  /\ pc[p] = "sample"
  /\ CacheFails(p)
  /\ err' = [err EXCEPT ![p] = "failure"]
  /\ Goto(p, "finish")
  /\ UNCHANGED <<world, versioned, loads, req, canceled, token, config, past, since, excused>>

\* A failing look is a miss without a version: the error is dropped.
SampleError(p) ==
  /\ pc[p] = "sample"
  /\ CacheFails(p)
  /\ Excuse(p)
  /\ Goto(p, "load")
  /\ UNCHANGED <<world, versioned, loads, req, canceled, token, config, err, past, since>>

\* The source answers with the record of this moment.
SourceLoads(p) ==
  /\ pc[p] = "load"
  /\ source[Slot(p)].present
  /\ config'  = [config EXCEPT ![p] = source[Slot(p)].rev]
  /\ excused' = IF versioned THEN excused \ {req[p]} ELSE excused
  /\ Goto(p, IF versioned THEN "fill" ELSE "finish")
  /\ UNCHANGED <<world, versioned, loads, req, canceled, token, err, past, since>>

\* Mutant: the fill does not ask whether there was an error.
SourceRefusesAndFills(p) ==
  /\ pc[p] = "load"
  /\ \E e \in {"notFound", "failure", "ctx"} :
       /\ \/ e = "notFound" /\ ~source[Slot(p)].present
          \/ e = "failure"  /\ SourceMayFail
          \/ e = "ctx"      /\ canceled[p]
       /\ err' = [err EXCEPT ![p] = e]
       /\ unhealthy' = IF e = "failure" THEN unhealthy \cup {p} ELSE unhealthy
  /\ Excuse(p)
  /\ Goto(p, "fill")
  /\ UNCHANGED <<world, versioned, loads, req, canceled, token, config, floor, since, leader>>

\* Or with an error: no such container, its own, or that of the context.
SourceRefuses(p) ==
  /\ pc[p] = "load"
  /\ \E e \in {"notFound", "failure", "ctx"} :
       /\ \/ e = "notFound" /\ ~source[Slot(p)].present
          \/ e = "failure"  /\ SourceMayFail
          \/ e = "ctx"      /\ canceled[p]
       /\ err' = [err EXCEPT ![p] = e]
       /\ unhealthy' = IF e = "failure" THEN unhealthy \cup {p} ELSE unhealthy
  /\ Excuse(p)
  /\ Goto(p, "finish")
  /\ UNCHANGED <<world, versioned, loads, req, canceled, token, config, floor, since, leader>>

\* It panics: the call stays in the table, and nobody will close its channel.
SourcePanics(p) ==
  /\ pc[p] = "load"
  /\ SourceMayPanic
  /\ loads' = [loads EXCEPT ![req[p]] = Orphan]
  /\ err'   = [err EXCEPT ![p] = "panic"]
  /\ Goto(p, "done")
  /\ UNCHANGED <<world, versioned, req, canceled, token, config, past, since, excused>>

\* Mutant: whatever the version.
FillUnconditionally(p) ==
  /\ pc[p] = "fill"
  /\ Cache!Store(Slot(p), config[p], {})
  /\ Goto(p, "finish")
  /\ UNCHANGED <<source, pending, published, versioned, loads, req, canceled,
                 token, config, err, past, since, excused>>

\* The fill, at the version of the second look ...
Fill(p) ==
  /\ pc[p] = "fill"
  /\ Cache!StoreIfVersion(Slot(p), config[p], token[p])
  /\ Goto(p, "finish")
  /\ UNCHANGED <<source, pending, published, versioned, loads, req, canceled,
                 token, config, err, past, since, excused>>

\* ... which another mutation or an error defeats, with no effect on the load.
FillDefeated(p) ==
  /\ pc[p] = "fill"
  /\ token[p] # version \/ CacheFails(p)
  /\ Excuse(p)
  /\ Goto(p, "finish")
  /\ UNCHANGED <<world, versioned, loads, req, canceled, token, config, err, past, since>>

-----------------------------------------------------------------------------
(* Load: the end.                                                          *)

Followers(p) == {q \in Opens : pc[q] = "wait" /\ req[q] = req[p]}

\* Mutant: the channel is not closed.
FinishAlone(p) ==
  /\ pc[p] = "finish"
  /\ loads' = [loads EXCEPT ![req[p]] = NoCall]
  /\ Goto(p, "done")
  /\ UNCHANGED <<world, versioned, req, canceled, token, config, err, past, since, excused>>

\* Mutant: the call stays in the table.
FinishKeepsCall(p) ==
  /\ pc[p] = "finish"
  /\ pc'     = [q \in Opens |-> IF q = p THEN "done"
                                ELSE IF q \in Followers(p) THEN "wake" ELSE pc[q]]
  /\ config' = [q \in Opens |-> IF q \in Followers(p) THEN config[p] ELSE config[q]]
  /\ err'    = [q \in Opens |-> IF q \in Followers(p) THEN err[p] ELSE err[q]]
  /\ UNCHANGED <<world, versioned, loads, req, canceled, token, past, since, excused>>

\* Under s.mu the call leaves the table and its channel is closed, which hands
\* every follower the result.  The leader's version goes out of use.
Finish(p) ==
  /\ pc[p] = "finish"
  /\ loads'  = [loads EXCEPT ![req[p]] = NoCall]
  /\ token'  = [token EXCEPT ![p] = NoVersion]
  /\ pc'     = [q \in Opens |-> IF q = p THEN "done"
                                ELSE IF q \in Followers(p) THEN "wake" ELSE pc[q]]
  /\ config' = [q \in Opens |-> IF q \in Followers(p) THEN config[p] ELSE config[q]]
  /\ err'    = [q \in Opens |-> IF q \in Followers(p) THEN err[p] ELSE err[q]]
  /\ UNCHANGED <<world, versioned, req, canceled, past, since, excused>>

FollowerWakes(p) ==
  /\ pc[p] = "wake"
  /\ Goto(p, "done")
  /\ UNCHANGED <<world, versioned, loads, req, canceled, token, config, err, past,
                 since, excused>>

\* Mutant: only once it has a result.
FollowerLeavesLate(p) ==
  /\ pc[p] = "wake"
  /\ canceled[p]
  /\ config' = [config EXCEPT ![p] = NoEntry]
  /\ err'    = [err EXCEPT ![p] = "ctx"]
  /\ Goto(p, "done")
  /\ UNCHANGED <<world, versioned, loads, req, canceled, token, past, since, excused>>

\* Mutant: the error of a follower's context becomes the load's.
FollowerFailsLoad(p) ==
  /\ pc[p] \in {"wait", "wake"}
  /\ canceled[p]
  /\ config' = [config EXCEPT ![p] = NoEntry]
  /\ err'    = [q \in Opens |-> IF q = p \/ (pc[p] = "wait" /\ q = loads[req[p]])
                                THEN "ctx" ELSE err[q]]
  /\ Goto(p, "done")
  /\ UNCHANGED <<world, versioned, loads, req, canceled, token, past, since, excused>>

\* With its context cancelled, a follower may leave even if it has a result.
FollowerLeaves(p) ==
  /\ pc[p] \in {"wait", "wake"}
  /\ canceled[p]
  /\ config' = [config EXCEPT ![p] = NoEntry]
  /\ err'    = [err EXCEPT ![p] = "ctx"]
  /\ Goto(p, "done")
  /\ UNCHANGED <<world, versioned, loads, req, canceled, token, past, since, excused>>

-----------------------------------------------------------------------------
Step(p) ==
  \/ ReadHit(p) \/ ReadMiss(p)
  \/ Join(p) \/ Lead(p)
  \/ SampleHit(p) \/ SampleMiss(p) \/ SampleError(p)
  \/ SourceLoads(p) \/ SourceRefuses(p) \/ SourcePanics(p)
  \/ Fill(p) \/ FillDefeated(p)
  \/ Finish(p) \/ FollowerWakes(p) \/ FollowerLeaves(p)

\* Every call has returned, or waits for an orphan.
Terminating ==
  /\ \A p \in Opens : pc[p] = "done" \/ (pc[p] = "wait" /\ loads[req[p]] = Orphan)
  /\ UNCHANGED vars

Next ==
  \/ \E s \in Slots : Commit(s) \/ Publish(s) \/ AbandonPublish(s) \/ Expire(s)
  \/ \E p \in Opens : Open(p) \/ Cancel(p) \/ Step(p)
  \/ Terminating

Spec == Init /\ [][Next]_vars

\* The scheduler runs every goroutine, and caches and sources answer; nothing
\* obliges the application, the clock or the callers.
FairSpec == Spec /\ \A p \in Opens : WF_vars(Step(p))

-----------------------------------------------------------------------------
(* Properties.                                                             *)

\* At most one call per key is between taking the lead and finishing, however
\* the lookups, the releases and the panics fall (config_loader.go:63-75,98-101).
SingleFlight ==
  \A p, q \in Opens :
    pc[p] \in Leading /\ pc[q] \in Leading /\ req[p] = req[q] => p = q

\* A call that waits, waits for a load that is still in the table: no leader
\* finishes without its followers (config_loader.go:64-71,98-101).
NoLostWakeup == \A p \in Opens : pc[p] = "wait" => loads[req[p]] # NoCall

\* An entry is never older than what the application last published for its
\* slot, and never newer than, or deleted by, what the source holds: a fill with
\* a record read before an update cannot overwrite the update or resurrect a
\* deleted entry (config_loader.go:91-94, docs/config-sources.md:225-227).
CacheCoherent ==
  \A s \in Slots : cached[s] # NoEntry =>
    /\ published[s] <= cached[s]
    /\ cached[s] <= source[s].rev
    /\ cached[s] = source[s].rev => source[s].present

\* What a call returns is at least as new as what the application had published
\* when the load that answers it was created - its own load if it leads, the
\* leader's if it joined, the call itself if it hit the cache.
NoStaleResult ==
  \A p \in Opens : pc[p] = "done" /\ err[p] = "none" =>
    config[p] # NoEntry /\ config[p] >= since[p]

\* "Cache read and fill failures never fail Open" (docs/config-sources.md:216), "a
\* cache outage cannot take container opens down while the source is healthy"
\* (config_loader.go:52-53): a call fails because of its own context or because its
\* own call of the source panicked, or else its load is to blame - the leader's
\* context was cancelled, or the source failed, or lacked the record for a time.
CacheOutageNeverFailsOpen ==
  \A p \in Opens : pc[p] = "done" /\ err[p] # "none" =>
    \/ canceled[p]
    \/ err[p] = "panic" /\ leader[p] = p
    \/ leader[p] \in Opens /\ (canceled[leader[p]] \/ leader[p] \in unhealthy)

\* The source is read again for a key only for a reason: the slot lost its
\* entry, or the last read could not be cached.  A call that missed the cache
\* just before another load filled it finds the entry in its second look.
ReloadNeedsCause == \A p \in Opens : pc[p] = "load" => req[p] \in excused

\* A call fails with a context's error only if its own context was cancelled, or
\* that of the one call that led the load it joined: a cancelled leader fails its
\* followers, whose contexts may be in order, but nobody who came after its load, and
\* a cancelled follower fails nobody else (config_loader.go:66-71,88).
CancellationStaysInItsLoad ==
  \A p \in Opens : pc[p] = "done" /\ err[p] = "ctx" =>
    canceled[p] \/ (leader[p] \in Opens /\ canceled[leader[p]])

\* Every call returns, or else waits for a load orphaned by a panic.
OpenReturns ==
  \A p \in Opens :
    pc[p] = "read" ~> (pc[p] = "done" \/ (pc[p] = "wait" /\ loads[req[p]] = Orphan))

\* A call whose context is cancelled returns in any case, even from an orphan.
CanceledOpenReturns == \A p \in Opens : canceled[p] ~> pc[p] = "done"

\* "Subsequent opens see the application update, or reload from the source after
\* deletion" (docs/config-sources.md:227-228): a call made after a Set or Delete
\* returned does not answer with an older configuration.
SubsequentOpensSeeUpdate ==
  \A p \in Opens : pc[p] = "done" /\ err[p] = "none" => config[p] >= floor[p]
=============================================================================
