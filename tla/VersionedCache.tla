--------------------------- MODULE VersionedCache ---------------------------
(***************************************************************************)
(* What store.VersionedConfigCache promises its callers (the interface and *)
(* its comment, config_cache.go:16-36): a map from slots to configurations *)
(* with one opaque version that every mutation changes, a read that takes  *)
(* value and version at one instant, and a conditional write that stores   *)
(* only if nothing was mutated since.  A slot is the pair (tenant ID,      *)
(* container key) of memoryConfigCacheKey and configLoadKey.               *)
(*                                                                         *)
(* A cache may lose entries whenever it likes (expiry, eviction), and a    *)
(* read that saw an entry may still answer a miss (the entry expired while *)
(* the caller was between reading it and looking at the clock): losing an  *)
(* entry is the one change that leaves the version alone.                  *)
(***************************************************************************)
EXTENDS Integers

CONSTANTS
  Slots,    (* (tenant ID, container key) pairs                           *)
  Configs,  (* container configurations                                   *)
  Callers,  (* goroutines that hold the cache                             *)
  NoEntry   (* a slot without an entry, or a read that missed             *)

\* What a caller holds in place of a version: before its first read, after a
\* failed one ("" in the code) and once it has used the version of its last
\* read, for no version is current twice.
NoVersion == -1

VARIABLES
  held,     (* [Slots -> Configs \cup {NoEntry}]: the entries             *)
  version,  (* how many mutations there have been                         *)
  view,     (* what each caller's last read returned                      *)
  token     (* the version that came with it                              *)

vars == <<held, version, view, token>>

TypeOK ==
  /\ held    \in [Slots -> Configs \cup {NoEntry}]
  /\ version \in Nat
  /\ view    \in [Callers -> Configs \cup {NoEntry}]
  /\ token   \in [Callers -> Nat \cup {NoVersion}]

Init ==
  /\ held    = [s \in Slots |-> NoEntry]
  /\ version = 0
  /\ view    = [p \in Callers |-> NoEntry]
  /\ token   = [p \in Callers |-> NoVersion]

-----------------------------------------------------------------------------
(* Effects on the map and its version.                                     *)

\* An entry is stored; a cache may shed other entries while it is at it.
Store(s, c, lost) ==
  /\ held' = [t \in Slots |-> IF t = s THEN c
                              ELSE IF t \in lost THEN NoEntry ELSE held[t]]
  /\ version' = version + 1

\* A slot is deleted, which changes the version even if it had no entry.
Delete(s) ==
  /\ held' = [held EXCEPT ![s] = NoEntry]
  /\ version' = version + 1

\* An entry is lost without a mutation.
Forget(s) ==
  /\ held[s] # NoEntry
  /\ held' = [held EXCEPT ![s] = NoEntry]
  /\ UNCHANGED version

\* The conditional write stores only at the version it was given.
StoreIfVersion(s, c, v) ==
  /\ v = version
  /\ Store(s, c, {})

-----------------------------------------------------------------------------
(* Steps of the callers.                                                   *)

\* Set and Delete, by the application.
Write(s, c) ==
  /\ \E lost \in SUBSET (Slots \ {s}) : Store(s, c, lost)
  /\ UNCHANGED <<view, token>>

Remove(s) ==
  /\ Delete(s)
  /\ UNCHANGED <<view, token>>

Lose(s) ==
  /\ Forget(s)
  /\ UNCHANGED <<view, token>>

\* GetWithVersion: value and version belong to the same instant ...
Sample(p, s) ==
  /\ view'  = [view EXCEPT ![p] = held[s]]
  /\ token' = [token EXCEPT ![p] = version]
  /\ UNCHANGED <<held, version>>

\* ... but a value that expired meanwhile is reported as a miss.
Degrade(p) ==
  /\ view' = [view EXCEPT ![p] = NoEntry]
  /\ UNCHANGED <<held, version, token>>

\* SetIfVersion stores at the version of the caller's last read, once ...
Fill(p, s, c) ==
  /\ StoreIfVersion(s, c, token[p])
  /\ token' = [token EXCEPT ![p] = NoVersion]
  /\ UNCHANGED view

\* ... and changes nothing at any other.
Conflict(p) ==
  /\ token[p] # version
  /\ token' = [token EXCEPT ![p] = NoVersion]
  /\ UNCHANGED <<held, version, view>>

Next ==
  \/ \E s \in Slots, c \in Configs : Write(s, c)
  \/ \E s \in Slots : Remove(s) \/ Lose(s)
  \/ \E p \in Callers, s \in Slots : Sample(p, s)
  \/ \E p \in Callers : Degrade(p) \/ Conflict(p)
  \/ \E p \in Callers, s \in Slots, c \in Configs : Fill(p, s, c)

Spec == Init /\ [][Next]_vars
=============================================================================
