-------------------------- MODULE MemoryConfigCache --------------------------
(***************************************************************************)
(* store.MemoryConfigCache (config_cache.go:52-199), the in-memory cache   *)
(* of container configurations, at the grain of its lock: each critical    *)
(* section of c.mu is one action, and every clock reading outside the lock *)
(* is an action of its own.  Callers run any operation at any time.        *)
(*                                                                         *)
(* Time is a natural number, the version is the mutation count it is (a    *)
(* uint64 in the code, which nothing wraps).  A caller's Get is its        *)
(* GetWithVersion.  An operation whose context is already cancelled does   *)
(* nothing and is not modelled.                                            *)
(***************************************************************************)
EXTENDS Integers, FiniteSets

CONSTANTS
  Slots,             (* (tenant ID, container key) pairs                  *)
  Configs,           (* container configurations                          *)
  Callers,           (* goroutines                                        *)
  NoEntry,           (* a slot without an entry, a read that missed       *)
  NoSlot,            (* the slot of an idle caller                        *)
  TTL,               (* MemoryConfigCacheOptions.TTL                      *)
  SweepMinInterval,  (* cacheSweepMinInterval, 16 in the code             *)
  MaxClock,          (* bound: time stops here                            *)
  MaxVersion         (* bound: no write starts at this version            *)

\* newMemoryConfigCacheEntry: what the map holds.
Entries == [config : Configs, expiresAt : Nat]

ASSUME CacheAssumption ==
  /\ TTL \in Nat \ {0}
  /\ SweepMinInterval \in Nat \ {0}
  /\ MaxClock \in Nat
  /\ MaxVersion \in Nat
  /\ NoEntry \notin Configs
  /\ NoEntry \notin Entries

VARIABLES
  entries,    (* [Slots -> Entries \cup {NoEntry}]: c.entries             *)
  version,    (* c.version                                                *)
  nextSweep,  (* c.nextSweep                                              *)
  clock,      (* what c.now() returns                                     *)
  pc,         (* where each caller is in its operation                    *)
  slot,       (* the slot of that operation                               *)
  found,      (* the entry its last read answers with                     *)
  given,      (* the entry its write is about to store                    *)
  token,      (* the version of its last read, until it is used           *)
  mutations,  (* ghost: the Sets, Deletes and successful fills so far     *)
  seen,       (* ghost: how many there were at each caller's last read    *)
  credit      (* ghost: two per key added, minus one per entry swept over *)

vars == <<entries, version, nextSweep, clock, pc, slot, found, given, token,
          mutations, seen, credit>>

NoVersion == -1

TypeOK ==
  /\ entries   \in [Slots -> Entries \cup {NoEntry}]
  /\ version   \in Nat
  /\ nextSweep \in Nat
  /\ clock     \in Nat
  /\ pc    \in [Callers -> {"idle", "answer", "evict", "set", "fill"}]
  /\ slot  \in [Callers -> Slots \cup {NoSlot}]
  /\ \A p \in Callers : pc[p] # "idle" => slot[p] \in Slots
  /\ found \in [Callers -> Entries \cup {NoEntry}]
  /\ \A p \in Callers : pc[p] = "answer" => found[p] \in Entries
  /\ given \in [Callers -> Entries \cup {NoEntry}]
  /\ \A p \in Callers : pc[p] \in {"set", "fill"} => given[p] \in Entries
  /\ token \in [Callers -> Nat \cup {NoVersion}]
  /\ mutations \in Nat
  /\ seen  \in [Callers -> Nat \cup {NoVersion}]
  /\ credit \in Int

Init ==
  /\ entries   = [s \in Slots |-> NoEntry]
  /\ version   = 0
  /\ nextSweep = SweepMinInterval
  /\ clock     = 0
  /\ pc    = [p \in Callers |-> "idle"]
  /\ slot  = [p \in Callers |-> NoSlot]
  /\ found = [p \in Callers |-> NoEntry]
  /\ given = [p \in Callers |-> NoEntry]
  /\ token = [p \in Callers |-> NoVersion]
  /\ mutations = 0
  /\ seen  = [p \in Callers |-> NoVersion]
  /\ credit = 0

ghosts == <<mutations, seen, credit>>

Expired(e, now) == e.expiresAt <= now

Cached == {s \in Slots : entries[s] # NoEntry}

\* The operation of p returns.
Idle(p) ==
  /\ pc'   = [pc EXCEPT ![p] = "idle"]
  /\ slot' = [slot EXCEPT ![p] = NoSlot]

-----------------------------------------------------------------------------
(* Reads: GetWithVersion.                                                  *)

\* Mutant: without the early return.
ReadLockedAbsent(p, s) ==
  /\ pc[p] = "idle"
  /\ found' = [found EXCEPT ![p] = entries[s]]
  /\ token' = [token EXCEPT ![p] = version]
  /\ seen'  = [seen EXCEPT ![p] = mutations]
  /\ pc'   = [pc EXCEPT ![p] = "answer"]
  /\ slot' = [slot EXCEPT ![p] = s]
  /\ UNCHANGED <<entries, version, nextSweep, clock, given,
                 mutations, credit>>

\* Under the read lock: the entry and the version.  An absent entry is a miss.
ReadLocked(p, s) ==
  /\ pc[p] = "idle"
  /\ found' = [found EXCEPT ![p] = entries[s]]
  /\ token' = [token EXCEPT ![p] = version]
  /\ seen'  = [seen EXCEPT ![p] = mutations]
  /\ IF entries[s] = NoEntry
     THEN UNCHANGED <<pc, slot>>
     ELSE /\ pc'   = [pc EXCEPT ![p] = "answer"]
          /\ slot' = [slot EXCEPT ![p] = s]
  /\ UNCHANGED <<entries, version, nextSweep, clock, given,
                 mutations, credit>>

\* Without the lock: a live entry is the answer, an expired one is a miss that
\* still has to be evicted.
Answer(p) ==
  /\ pc[p] = "answer"
  /\ IF Expired(found[p], clock)
     THEN /\ found' = [found EXCEPT ![p] = NoEntry]
          /\ pc'    = [pc EXCEPT ![p] = "evict"]
          /\ UNCHANGED slot
     ELSE /\ Idle(p)
          /\ UNCHANGED found
  /\ UNCHANGED <<entries, version, nextSweep, clock, given, token, ghosts>>

\* Mutant: without looking again.
EvictUnchecked(p) ==
  /\ pc[p] = "evict"
  /\ entries' = [entries EXCEPT ![slot[p]] = NoEntry]
  /\ Idle(p)
  /\ UNCHANGED <<version, nextSweep, clock, found, given, token, ghosts>>

\* Under the write lock, before which the entry may have been replaced: evict
\* what is there now, if it has expired.
Evict(p) ==
  /\ pc[p] = "evict"
  /\ entries' = [entries EXCEPT ![slot[p]] =
                   IF @ # NoEntry /\ Expired(@, clock) THEN NoEntry ELSE @]
  /\ Idle(p)
  /\ UNCHANGED <<version, nextSweep, clock, found, given, token, ghosts>>

-----------------------------------------------------------------------------
(* Writes: Set, Delete and SetIfVersion.                                   *)

\* Before the lock: the entry is built, and with it the time it expires.
StartWrite(p, s, c, next) ==
  /\ pc[p] = "idle"
  /\ version < MaxVersion
  /\ given' = [given EXCEPT ![p] = [config |-> c, expiresAt |-> clock + TTL]]
  /\ slot'  = [slot EXCEPT ![p] = s]
  /\ pc'    = [pc EXCEPT ![p] = next]
  /\ UNCHANGED <<entries, version, nextSweep, clock, found, token, ghosts>>

StartSet(p, s, c)  == StartWrite(p, s, c, "set")
StartFill(p, s, c) == StartWrite(p, s, c, "fill")

\* Mutant: one entry too late.
SweepDueLate == Cardinality(Cached) > nextSweep

\* maybeSweepLocked: when it sweeps, what it leaves, and the threshold after it.
SweepDue == Cardinality(Cached) >= nextSweep
Live     == {s \in Cached : ~Expired(entries[s], clock)}
Larger(m, n) == IF m >= n THEN m ELSE n

Swept == [s \in Slots |-> IF SweepDue /\ s \notin Live THEN NoEntry ELSE entries[s]]

\* Mutant: the next sweep is due at once.
NextSweepUndoubled ==
  IF SweepDue THEN Larger(Cardinality(Live), SweepMinInterval) ELSE nextSweep

NextSweep ==
  IF SweepDue THEN Larger(2 * Cardinality(Live), SweepMinInterval) ELSE nextSweep

SweepCost   == IF SweepDue THEN Cardinality(Cached) ELSE 0
Earned(old) == IF old = NoEntry THEN 2 ELSE 0

\* Under the lock, Set: sweep if it is due, then store.
SetLocked(p) ==
  /\ pc[p] = "set"
  /\ nextSweep' = NextSweep
  /\ entries' = [Swept EXCEPT ![slot[p]] = given[p]]
  /\ version' = version + 1
  /\ credit'  = credit - SweepCost + Earned(Swept[slot[p]])
  /\ mutations' = mutations + 1
  /\ given'   = [given EXCEPT ![p] = NoEntry]
  /\ Idle(p)
  /\ UNCHANGED <<clock, found, token, seen>>

\* Mutant: deleting nothing changes nothing.
DeleteLockedIfPresent(p, s) ==
  /\ pc[p] = "idle"
  /\ version < MaxVersion
  /\ entries' = [entries EXCEPT ![s] = NoEntry]
  /\ version' = IF entries[s] = NoEntry THEN version ELSE version + 1
  /\ mutations' = mutations + 1
  /\ UNCHANGED <<nextSweep, clock, pc, slot, found, given, token,
                 seen, credit>>

\* Delete is its critical section alone.
DeleteLocked(p, s) ==
  /\ pc[p] = "idle"
  /\ version < MaxVersion
  /\ entries' = [entries EXCEPT ![s] = NoEntry]
  /\ version' = version + 1
  /\ mutations' = mutations + 1
  /\ UNCHANGED <<nextSweep, clock, pc, slot, found, given, token,
                 seen, credit>>

\* Under the lock, SetIfVersion: store at the version given or do nothing.
\* It does not sweep.
FillLocked(p) ==
  /\ pc[p] = "fill"
  /\ IF token[p] = version
     THEN /\ entries' = [entries EXCEPT ![slot[p]] = given[p]]
          /\ version' = version + 1
          /\ credit'  = credit + Earned(entries[slot[p]])
          /\ mutations' = mutations + 1
     ELSE UNCHANGED <<entries, version, mutations, credit>>
  /\ given' = [given EXCEPT ![p] = NoEntry]
  /\ token' = [token EXCEPT ![p] = NoVersion]
  /\ seen'  = [seen EXCEPT ![p] = NoVersion]
  /\ Idle(p)
  /\ UNCHANGED <<nextSweep, clock, found>>

Tick ==
  /\ clock < MaxClock
  /\ clock' = clock + 1
  /\ UNCHANGED <<entries, version, nextSweep, pc, slot, found, given, token, ghosts>>

-----------------------------------------------------------------------------
CallerStep(p) ==
  \/ \E s \in Slots : ReadLocked(p, s) \/ DeleteLocked(p, s)
  \/ Answer(p)
  \/ Evict(p)
  \/ \E s \in Slots, c \in Configs : StartSet(p, s, c) \/ StartFill(p, s, c)
  \/ SetLocked(p)
  \/ FillLocked(p)

Next == Tick \/ \E p \in Callers : CallerStep(p)

Spec == Init /\ [][Next]_vars

-----------------------------------------------------------------------------
(* Properties.                                                             *)

ConfigOf(e) == IF e = NoEntry THEN NoEntry ELSE e.config

\* The contract of VersionedConfigCache, where a version is the true number of
\* mutations: that the code's own counter tells them apart is to be shown.
Contract == INSTANCE VersionedCache WITH
              version <- mutations,
              token <- seen,
              held <- [s \in Slots |-> ConfigOf(entries[s])],
              view <- [p \in Callers |-> ConfigOf(found[p])]

\* MemoryConfigCache implements VersionedConfigCache (config_cache.go:24-31):
\* whatever the interleaving of critical sections, clock readings and
\* expiries, a read's value and version are of one instant, every Set and
\* Delete changes the version, and a fill never replaces a later mutation.
ImplementsContract == Contract!Spec

\* An entry disappears only once it has expired, or by a Delete of its own
\* slot: no sweep and no eviction decided on an older reading of the map or of
\* the clock takes a live one (GetWithVersion re-checks under the write lock).
LiveEntriesSurvive ==
  [][\A s \in Slots :
       entries[s] # NoEntry /\ entries'[s] = NoEntry =>
         \/ Expired(entries[s], clock)
         \/ \E p \in Callers : DeleteLocked(p, s)]_vars

\* "The sweep cost stays amortized O(1) per write" (config_cache.go:58-60):
\* the entries all sweeps have gone over are at most twice the keys added,
\* although fills grow the map past the threshold without sweeping it.
SweepCostAmortized == credit >= 0

\* A Set restores the bound: whatever fills did to the map since the last
\* sweep, after a Set it holds at most nextSweep entries, of which at most
\* half (or the minimum) may be past their time at the next one.
SetRestoresBound ==
  [][\A p \in Callers : SetLocked(p) => Cardinality(Cached') <= nextSweep']_vars

\* "Abandoned keys cannot accumulate forever" (config_cache.go:58-60): expired
\* entries never outnumber the count at which the next sweep runs.
AbandonedKeysBounded ==
  Cardinality({s \in Cached : Expired(entries[s], clock)}) <= nextSweep
=============================================================================
