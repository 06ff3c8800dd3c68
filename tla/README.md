# sharp-store in TLA+

sharp-store is a Go library that gives an application named *containers* of
files, each backed by one of eight storage backends. An application registers
backends, provides a source of container configurations, and opens containers
through a factory; a tenant may be part of every request. The library keeps
little state, but what it keeps is shared by every goroutine of the application
and, in the backends, with other processes: a cache of configurations, a table
of running loads, the maps of configurations that are handed around, a directory
tree, temporary files, buckets, and SDK clients. This project
models that state and the steps that change it, model-checks the models with
TLC, and proves their main properties with TLAPS.

Contents: [inventory](#inventory) · [modules](#modules) ·
[correspondence](#models-and-code) · [runs](#runs) · [fairness](#fairness) ·
[proofs](#proofs) · [disagreements](#where-code-and-words-differ) ·
[not modelled](#not-modelled) · [plan](#plan) · [running it](#running-it)

## Inventory

How the parts meet, on the way from an application to an object:

```
Factory.Open ──> cachedConfigSource.Load ──> ConfigCache (MemoryConfigCache)
   │                     │                        ^
   │                     └─────> ConfigSource     │ Set, Delete
   v                                ^             │
container ── naming, key builder    └──── the application
   │
   └──> Backend ──> filesystem: directory tree, temporary files
                └─> cloud:      client cache (sync.Map) ──> service: bucket, objects
```

| Component | State | Operations | What is hard | What makes it correct |
|---|---|---|---|---|
| Configuration cache, `config_cache.go` | `entries`, `version`, `nextSweep` under one RWMutex; a clock | `Get`, `GetWithVersion`, `Set`, `Delete`, `SetIfVersion`, sweeps | the clock is read outside the lock; an expired entry is evicted in a second critical section | value and version of a read are of one instant; a conditional write never replaces a later mutation; only expired entries disappear; sweeps are paid for by writes; the map is bounded |
| Loader, `config_loader.go` | `loads`, a table of running loads under a mutex; a channel per load | `Load` | joining a load against its end; two looks in the cache; a fill with a record read earlier; cancelled contexts; failing or panicking sources | one load per key; no lost wakeup; no stale fill; results as new as their load; every call returns |
| Configuration source, `config.go`, `source/static` | the application's records; the static source has an immutable map | `Load` | it changes while it is read | — (external but for the static source) |
| Factory, container, tenant snapshot, `factory.go`, `container.go`, `scope.go` | a container is immutable: its configuration and tenant are copied on `Open` | `Open`, `Configuration`, one method per backend operation | everything that is shared must be copied; the tenant is asked in two calls; requests run at once | a container and its requests keep the configuration and the tenant it was opened with; no map is read by one and written by another, but for one that a normalizer has kept |
| Naming service, `naming.go` | none | `Normalize`, a chain | each normalizer sees what the one before returned, and is lent the container's own map; the normalized container name is not part of the default key | errors stop the chain; a map that is kept reaches no other container |
| Key builder, `key.go` | none | `Build` | a tenant's code or, without one, its ID; file IDs that are paths | a key stays in its tenant's directory; tenants with different identifiers share no key |
| Backend contract and registry, `backend.go` | a map filled once | `Resolve`, `List`, `ValidateConfig` | — | — |
| Filesystem backend, `backend/filesystem` | the tree below a root, temporary files; shared with other processes | `Save`, `Delete`, `Exists`, `GetOrNil`, `Download`, `AccessURL` | no lock at all: only the atomicity of system calls; crashes; power loss; keys that are directories of other keys | an object is published whole and synced, or not at all; one exclusive `Save` wins; overwriting keeps permission bits; nothing is left behind |
| Cloud backends, `backend/{aws,s3,minio,ks3,aliyun,azure,obs}` | the bucket and its objects, in the service | the same | several requests per operation; buckets created by a race; answers that get lost and requests that are sent again | an exclusive `Save` is decided by the service; answers were true at an instant of the call; losing the race for the bucket harms nobody |
| Client caches, in each cloud backend | a `sync.Map` from (part of) the configuration to an SDK client | `Load`, build, `LoadOrStore` | calls race to build one client; keys must tell apart whatever makes clients different | one client per configuration, built from that configuration's settings |
| Download helper, `backend/internal/fileutil` | a temporary file beside the destination | `WriteFile` | failure between copy and rename | the destination is replaced whole or left alone |
| Access URLs, in each backend | none | `AccessURL` | existence is checked before signing; expiry is rounded | a URL that was to be checked is for an object that was there during the call |
| Uploads (`fixedLengthBody`, `uploadSize`), in s3 and minio | the reader's position, a temporary file | length by seeking; buffering | readers that stand in the middle, that fail to seek, that never end; bodies that change; sending again | what is stored is the body from where its reader stood, whole; a cancelled upload ends, if its SDK has the context |
| Settings (`readConfig`, `ValidateConfig`), in each cloud backend | none | texts to settings | defaults, one setting in several spellings, fields that belong together | equal meanings, equal clients; a refused configuration gets none |
| Provider configurations, `backend/*/config.go` | none | typed settings to string maps and back | — | a round trip changes nothing |

What is hard to test in each of them is listed, line by line and with the
properties that are about it, in the `hazards` of `PROJECT.json`.

## Modules

| Module | What it is |
|---|---|
| `VersionedCache` | abstract: what `VersionedConfigCache` promises, a map with one version that every mutation changes |
| `MemoryConfigCache` | the in-memory cache, by critical section and clock reading; implements `VersionedCache` |
| `ConfigLoader` | `cachedConfigSource.Load` with the application, the source and a cache around it; uses the cache through the operators of `VersionedCache` |
| `ObjectStore` | abstract: what `Backend` promises, operations that take effect at one instant, and what survives a power loss; and what that is worth to callers |
| `RemoteStore` | abstract: what is left of the promise if a service elsewhere keeps the objects, so that answers get lost, and what was looked up may have gone |
| `FileStore` | the filesystem backend, by system call; implements `ObjectStore` |
| `BucketStore` | the seven cloud backends, by request to the service; one record per provider says where they differ; implements `RemoteStore` |
| `ClientCache` | the cloud backends' SDK clients, by operation of the `sync.Map`, and the reading of the configurations they are for; one record per provider says what it reads, requires and refuses, and what its keys and its clients are made of |
| `Container` | the factory's `Open` and the methods of the containers it returns, down to the request for the backend, with configurations as maps in shared memory; naming and the default key builder are part of it |
| `Transfer` | the caller's side of `Save` and `Download`: the length of a body, its buffering and sending, and `WriteFile`, by system call; its downloads implement `ObjectStore` for their destinations |
| `*Proofs` | the theorems about a module, and their proofs |
| `MC*` with its `.cfg`s | the instances TLC checks |

`ConfigLoader` and `MemoryConfigCache` meet in `VersionedCache`: the loader
relies on nothing but its operators (`Store`, `StoreIfVersion`, `Delete`,
`Forget`), and the cache is shown to implement it. The loader therefore holds for
any cache that keeps the contract, an application's own included; with
`CacheKinds` it also covers a cache without versions.

`ObjectStore` is implemented twice: by `FileStore`, and by the downloads of
`Transfer`, each of which is a `Save` that may overwrite, of a local file. The
cloud backends cannot implement it: an operation whose answer is lost takes effect
without knowing, and a `Delete` of a service that does not say whether there was
an object answers for the one it has looked up. `RemoteStore` allows these two and
nothing else; buckets, races to create one, and everything else between the
requests of an operation are not to be seen in it. A backend that neither loses an
answer nor looks first keeps the promise of `ObjectStore` in full
(`BlindBackendsAreAtomic`).
`Container` ends where `FileStore`, `BucketStore` and `Transfer` begin: with a
backend's request of its own, a configuration, a tenant and a key in it.

A definition marked *Mutant* is not part of a specification. It is a form of the
definition below it with a plausible mistake, a guard dropped or a step left out,
in which TLC finds some property violated; `PROJECT.json` says which.

## Models and code

`PROJECT.json` maps every definition to the lines it stands for. In outline:

**MemoryConfigCache** (`config_cache.go`). `entries`, `version`, `nextSweep` are
the fields of the struct, `clock` is what `now()` returns. A caller that runs an
operation has its place in `pc`, and its locals in `slot`, `found`, `given` and
`token`. `GetWithVersion` is `ReadLocked` (under the read lock), `Answer` (the
clock is read without it) and `Evict` (under the write lock, where the entry is
looked at again). `Set` and `SetIfVersion` are `StartSet`/`StartFill` (the expiry
is computed before the lock) and `SetLocked`/`FillLocked`; `maybeSweepLocked` is
part of `SetLocked`, as it is in the code, by `SweepDue`, `Swept` and `NextSweep`.
`Delete` is `DeleteLocked`. `mutations` and `seen` count mutations as the contract
does, `credit` is the bookkeeping of the sweeps' cost; no guard reads the three.

**ConfigLoader** (`config_loader.go`). `loads` is `s.loads`, with each running
call named by the goroutine that leads it, and per factory since each factory has
a table of its own. A call is `Open`; then the look in the cache (`ReadHit`,
`ReadMiss`), the table under `s.mu` (`Join`, `Lead`), the leader's second look
(`SampleHit`, `SampleMiss`, `SampleError`), the source (`SourceLoads`,
`SourceRefuses`, `SourcePanics`), the fill (`Fill`, `FillDefeated`) and the end
(`Finish`, which takes the call off the table and closes its channel). A follower
gets its result with `Finish` and returns with `FollowerWakes`, or gives up with
`FollowerLeaves`: a `select` with both cases ready takes either. The application
commits to its source (`Commit`) and then tells the cache (`Publish`), as
`docs/config-sources.md` asks, unless it dies in between (`AbandonPublish`);
entries expire (`Expire`), contexts are cancelled (`Cancel`). A configuration is
the revision of its record: all the properties tell apart. `published`, `floor`,
`since`, `excused`, `leader` and `unhealthy` are history. The last two say who is to
blame for an error: `leader` is the call whose load answers a call, itself or the one
it joined, and `unhealthy` are the leaders whose source has failed them or lacked the
record at some time of their load.

**FileStore** (`filesystem.go`). `tree` says what each path names, `temps` which
temporary files there are, `data` how much of each file is in memory or on disk,
`bits` its permission bits (given by somebody, a new file's, or a directory's),
and `disk` what a power loss leaves of the names. `Save` is `MakeParent`* and
`ParentsMade` (`MkdirAll`, a directory at a time), `StatDestination` (when it
overwrites; the temporary file gets the bits it finds), `CreateTemp`, `Copy`,
`Sync`, `Publish` or `Refuse` (`Rename` or `Link`), and `Cleanup` (the deferred
removal). `Delete` is `StartDelete` (`Stat`) and `Remove` or `AlreadyRemoved`; readers are `Exists`, `Open` and `ReadFile`;
`NoObject` answers for them all, `NotADirectory` is ENOTDIR. `Fail` is every
other error return, `Crash` a process that dies, `WriteBack` and `PowerLoss` are
the disk.

**BucketStore** (`aws.go` and its siblings). `bucket` and `objects` are the
service's state. `ensureBucket` is `HeadFinds`, `HeadMisses`, `CreateBucket`,
`CreateConflict` and `HeadAgain`; `Save` ends in `Put` or `PutRefused`, `Exists`
and `GetOrNil` are `Look`, `Delete` is `DeleteObject` or `DeleteMisses`, after a
`Look` in the providers whose service does not say whether there was an object.
The services are external: a request is served at one instant, a conditional put
is refused where there is an object. `Lost` is an answer that does not arrive,
after which the SDK sends the request again; `GiveUp` is a request that is given
up, served or not. `AccessURL` is `Sign`, after a `Look` if it is to check.
Providers differ in four respects (`looks`, `rechecks`, `hides`, `signs`); what
else their code differs in does not change the order of steps. `resent`,
`gaveUp`, `served` and `seen` are history. Of these `RemoteStore` knows `resent` as
`lost`; its `found` are the operations that have looked and go on (`Found`).

**ClientCache** (the same files). `config` is what a call's `Config.Values` say.
`Valid` is what `readConfig` or `ValidateConfig` accepts, `Meaning` what it makes
of a text: a default, a parsed flag or count, or the text itself. Of texts there
are one or two for every kind a parser or a check tells apart; an endpoint is a
host or an address with its scheme. `clients` is the `sync.Map`, as pairs of key
and client; a client is named by the call that built it. `key` and `uses` of a
provider list the settings its map key is made of (for the S3 family the whole
configuration) and those its client is built from. Calls that miss build at the
same time, knowing nothing of each other, and all but one of them in vain.

**Container** (`factory.go`, `container.go`, `scope.go`, `naming.go`, `key.go`,
`backend.go`, `config.go`). A map of configuration values is a place in `values`;
`shared` are the places that someone other than a container may write to. Calling a
normalizer with the container's own map (`container.go:100`) is `Lend`: one that `keeps`
what it is lent may write to it from then on, and its container is in `kept`. `Open`
is `SnapshotID` and `SnapshotCode` (two calls of the application's
`TenantContext`), `Load` or `LoadFails`, and `Return` or `ResolveFails`. All the
methods are `Start`, one `Normalize` per normalizer or `NormalizeFails`, `Send` or
`BuildFails` (`request` of container.go with the key builder in it), and
`Answer`; `Configuration` is one of its own. `Switch` and `Write` are the
application and the backends at work on what they hold. A text is the sequence of
its separators and of the names between them, which is what `FieldsFunc`,
`ContainsAny` and `Trim` look at. `asked`, `opened`, `kept` and `stoodFor` (whom a context
stood for while `Open` asked it) are history.

**Transfer** (`s3.go`, `minio.go`, `fileutil.go`, and `Save` and `Download` of the
backends). An upload is `Measure`, `SeekEnd` and `SeekBack` (both `Seek`s of
`fixedLengthBody` and `uploadSize`), then perhaps a temporary copy (`CreateTemp`,
`CopyPiece`, `CopyEnds`, `CopyStops`), then `Put`, by the SDK, that may send
again (`Resend`), and `Cleanup`. `way` says which of it a backend does: S3 knows
the length (`fixed`), MinIO would like to (`sized`), the others, and S3 with
`use_chunk_encoding`, do not ask (`streamed`), and of these OBS does not give its SDK the
context (`detached`, `obs.go:85`), which then cannot end a request. A download is `GetFinds` or
`GetMisses`, the same copying, `Sync`, `Rename` and `Cleanup` (`WriteFile`).
`Fail` is every other error return. `Cancel`, `Change`, `Crash`, `WriteBack` and
`PowerLoss` are the world around. The SDK is external: it sends what a reader
gives, refuses a body that is not as long as was announced, and to send again
takes the reader back to where it was, or gives up.

**Abstractions.** Objects and configurations are named by who wrote them or when,
not by what they contain. Keys, slots and fields are model values, except that a
key of `FileStore` has ancestors. Of contexts there is what ends them, of errors
only the kind callers can tell apart; of a body how many pieces it has.

## Runs

Counts are distinct states, with the symmetry each `.cfg` names.

| Run | What it shows | Bounds |
|---|---|---|
| `memory_cache` (757,972) | The in-memory cache implements `VersionedCache`, takes no live entry, sweeps at amortized constant cost, and every `Set` restores the bound on its map | 2 callers, 3 slots, 1 configuration, TTL 1, sweeps from 2 entries on (16 in the code), time to 2, no write starts at version 4 |
| `memory_cache_abandoned` (violation) | Fills alone never sweep | as above, time to 1 |
| `loader` (3,611,052) | Single flight, no lost wakeup, coherent cache, no stale result, no failure or reload without a cause, and each failure's cause in its own call or in the leader of its load | 3 calls, 2 factories, 1 slot, 1 update or deletion; failing cache, panicking source, versioned or not |
| `loader_liveness` (448,782) | Every call returns, or waits for a load that panicked; a cancelled one returns in any case | 2 calls, 1 slot, 2 revisions, everything may fail; no symmetry |
| `loader_subsequent` (violation) | An `Open` after a completed deletion answers with what was deleted | 2 calls, 1 slot, nothing fails |
| `files` (1,240,591) | The filesystem backend keeps the promise of `ObjectStore`, publishes synced files only, keeps permission bits, and cleans up | 3 operations, at most 2 Saves and 1 reader, keys `a` and `a/b`, 1 power loss |
| `files_delete`, `files_missing` (violations) | Keys that are directories of other keys | the same without power loss |
| `buckets` (762,391) | The cloud backends keep the promise of `RemoteStore`; a `Save` fails only for cause, one exclusive `Save` wins, answers were true, nobody claims an effect it did not have, and only lost answers make one deny an effect it had | each of the 7 providers; 3 operations on 1 key, at most 1 reader or URL; every operation may lose one answer; the bucket absent, ours or another's |
| `clients` (287,670) | One client per meaning of a configuration, that fits it, and none for a refused one | each of the 7 providers; 3 calls whose configurations differ in one field, any, or in endpoint and protocol, or in the parts of the credentials; 3 to 5 texts per field |
| `containers` (2,749,208) | Containers and requests keep configuration and tenant, share no map but with a normalizer that keeps what it is lent, and their keys stay in the tenant's directory | 2 `Open`s, 1 context, 2 tenants, one without a code and one whose code is a path into the other's directory; 2 calls, of two containers, or of one that also returns its configuration, 4 file IDs, 1 normalizer, which may keep its map, 2 contents per map, one name registered twice and one not at all |
| `transfers` (119,694) | What is stored is the rest of the body; a destination is replaced whole or left alone; nothing is left behind; transfers end | 1 upload of any body of at most 3 pieces, from any position, by any kind of backend; or 2 downloads of at most 3 pieces to 1 destination; 1 power loss, 1 lost answer per upload |

Why the bounds are enough to meet the hard cases:

- *memory_cache.* Two callers are what it takes to get between the critical
  sections of an operation; a third could only do what the second does. Three
  slots are one more than the least threshold, so that fills overshoot it and a
  sweep with survivors and victims happens. Entries expire within the run (TTL 1
  of 2 ticks) and may be replaced by live ones meanwhile. Contents matter to no
  guard, so that one configuration will do; versions tell entries apart.
- *loader.* Three calls are a leader, a follower and a latecomer, or a leader
  for each of two factories and one more; one revision beyond the initial record
  is an update, a creation or a deletion at any moment; whether the slot starts
  with a record or without, and whether its cache has versions, is chosen at the
  start. A second slot matters only through the version, which fills of all slots
  compete for; `CacheCoherentHolds` is proved for any number of slots.
- *files.* The hard cases are two operations that race and a third that changes
  what they race for. Two keys, one the directory of the other, have every
  relation two keys can have. The disk may lag behind the tree by any number of
  steps, so that one power loss reaches every state a power loss can lead to from
  there; the next would start from such a state again.
- *buckets.* Operations on different keys meet in nothing but the bucket, which
  whoever creates first makes available to all. Three operations are two
  exclusive Saves and a Delete between them, or three Saves that race for the
  bucket. A second lost answer of one operation does what the first did.
- *clients.* A field that a key lacks shows with two configurations that differ
  in it alone; two more calls race for one of them. Fields meet only where the code
  compares them: S3's protocol is its endpoint's scheme, AWS's credentials are a
  pair and a token, and these are varied together.
- *containers.* Two `Open`s and two calls are what it takes to share a map or a
  directory. The tenants and file IDs are the shortest that try each way out: a
  code with a separator, a dot segment behind a backslash that the normalizer turns
  into a slash, an ID that is empty once trimmed.
- *transfers.* Uploads share nothing, so that one is enough; two downloads contend
  for one name. Three pieces leave room for a reader that stands at the beginning,
  in the middle, at the end or beyond an end that has been cut off meanwhile, and
  for a body that grows or shrinks by less than all of it.

The theorems hold without these bounds.

Deadlock is checked in every run. Where a system comes to rest because all its
calls have returned, a stuttering action says so (`Terminating`, `Finished`); any
other state without a successor is an error. `MemoryConfigCache` never rests:
there is always an operation to call, if only a read.

## Fairness

`ConfigLoader` and `Transfer` claim liveness.

*ConfigLoader.* `FairSpec` is weak fairness of `Step(p)` for
each call `p`: once its next step stays possible, it is taken. That is what the
Go scheduler does with a goroutine that can run, and, for the steps that wait for
a cache or a source, the assumption that these answer at last, with an error if
need be; a source that hangs for ever hangs its callers until their contexts
end. A mutex is held for a few assignments and is not contended for ever. A
follower has no step until its load ends or its own context does. Nothing obliges the
application, the clock, callers who might cancel, or sources to panic or not.

The guarantee is `OpenReturns`: a call returns unless it waits for a load whose
leader panicked in the source. The exception is the code's: the call stays in the
table and nobody closes its channel. `CanceledOpenReturns` is the remedy that is
left: the context of the waiting call.

*Transfer.* `Fairness` is weak fairness of `Proceed(t)` for each transfer: the
sequential code of one call goes on as long as its process lives, and the SDK and
the system calls it waits for answer at last. `Fail`, `Crash`, `Cancel`, `Change`
and everything outside are left to chance. `TransfersEnd` says that this is
enough, with two exceptions that the code shares: a body that never ends is read
until the upload's context is cancelled - after that it is `contextReader` alone
that ends the copying, and the SDK that ends a request - and an upload of such a
body by OBS, whose SDK has no context to look at, need never end.

## Proofs

All theorems hold for every value of the constants that the modules' assumptions
allow: any number of callers, slots, keys, operations, revisions, containers, file IDs,
normalizers, transfers and pieces. The
assumptions only say that model values differ from each other, that time to live
and the sweep interval are positive, and what domains the constants have.

- **MemoryConfigCacheProofs.** `SweepCostIsAmortized` is the interesting one:
  `credit >= 0` is not inductive, since a sweep costs as much as the map holds.
  The invariant adds `credit >= 2 * Cardinality(Cached) - nextSweep`, so that a due
  sweep (`Cardinality(Cached) >= nextSweep`) finds its cost saved up, also when
  fills have overshot the threshold; the map's finiteness makes the counting
  sound. `EverySetRestoresBound` and `NoLiveEntryIsTaken` are proved as
  properties of steps. `CacheImplementsContract` maps the entries to their
  configurations and reads to what they answer with. It rests on `VersionCounts`:
  the code's version is the number of mutations, which is what makes a version
  current at most once.
- **ConfigLoaderProofs.** The invariant has two parts. `TableInv`: the table
  names the leader of a key and only the leader, which gives `SingleFlightHolds`,
  and whoever waits finds its load there (`NoLostWakeupHolds`); followers expect
  what their leader does. `DataInv`: the source is ahead of what is published,
  what is published ahead of what a call expects; and `FillSound`, the core of
  the fill by version: *if* the version a leader took is still current, nothing has
  been published since, so that its record may be stored. From it follow
  `CacheCoherentHolds` and, with `ResultSound`, `NoStaleResultHolds`. `Warm`
  (`ReloadNeedsCauseHolds`) is strengthened on top of that. `BlameInv` follows each
  error from where it arises: no call has one before it looks at the source or wakes
  (`NoEarlyError`), a leader that finds no record is in `unhealthy` by then
  (`LackIsKnown`), a panic is its caller's own (`PanicEnds`), and so every error has its
  cause in the call or in its leader (`ErrorsHaveCause`, `CtxErrHasCause`), which gives
  `CacheOutageNeverFailsOpenHolds` and `CancellationStaysInItsLoadHolds`.
- **FileStoreProofs.** The invariant says what files and names a `Save` has at
  each of its steps (`Prepared`), that temporary files keep their directories
  (`TempsHaveDirectories`: `rmdir` refuses, so the tree stays one), that a
  published file is past being written (`NamedFilesAreDecided`) and which steps
  belong to which kind of operation (`Roles`). `BitsAreKept` says for each key
  without a successful `Delete` that name, disk and pending overwrites agree on its
  bits, whichever of them comes to stand for the object next. `FileStoreKeepsPromise` then takes
  each system call to a step of `ObjectStore` or to none: the instant at which an
  operation takes effect is its `Link`, `Rename`, `Remove`, or lookup. `CallersMayRely`
  draws on what is proved of `ObjectStore`. The last section is about `KeysApart`, keys of
  which none is a path prefix of another: no file is ever on the way to a key then
  (`NoFileOnTheWay`), the two claims that the runs `files_delete` and `files_missing`
  refute hold (`ApartDeletesObjects`, `ApartMissingIsNoError`), and the promise is kept
  without exceptions (`ApartKeepsFullPromise`).
- **ObjectStoreProofs.** What the promise is worth to callers, while the power
  lasts: an object that was saved stays until an overwriting `Save` or a `Delete` of
  its key succeeds (`SavedStays`), of exclusive `Save`s one wins
  (`ExclusiveSavesExclude`), and nobody is given what was not saved under the key
  (`ObjectsWereSaved`). The strengthening is `SavedKeysAreTaken`: after a `Save` and
  without a `Delete` the key is taken. `FileStoreProofs` and `TransferProofs`
  take the step lemma over by their refinement mappings (`CallersMayRely`, `DownloadsStay`).
- **BucketStoreProofs.** The properties are proved together, with what each step
  knows: the bucket is there once it was ensured (`BucketEnsured`), a served
  operation that goes on has lost its answer (`ServedAreSent`), a call has
  seen what is there now (`SeenIsCurrent`), and an object that was put is there, or
  its key holds another, until a `Delete` is served (`PutsAreKept`). The last one
  makes `OneExclusiveSaveWins` inductive: the second exclusive `Save` can only
  put where the first one's object has been removed. `SavedStaysHolds` says that no
  update is lost, whether its `Save` has heard of it or not. `BucketStoreKeepsPromise` takes each
  request to a step of `RemoteStore`: a served one to `Publish`, `Remove` or, if its
  answer is lost, `Lose`; the requests about the bucket and the calls to none, except
  that a lost answer to the creation of a bucket is seen. It needs that whoever has
  found its object is at a step that says so (`StepsFitKinds`, `FoundFollows`).
- **ClientCacheProofs.** The lemma `KeyCoversUses`, provider by provider: no
  client is built from a field its key lacks. With `Filed`, a client is only ever
  stored under its builder's key, it gives `ClientsFit`. `Accepted` and `Owners`
  carry the validity of a configuration from the check to the client. Since the
  key is made of meanings, `Distinct` (one entry per key, by `LoadOrStore`) gives
  `ConfigurationsShareOneClient` for every spelling.
- **ContainerProofs.** The invariant is about who holds which map: an open
  container's is its own, and `shared` only if a normalizer has kept it (`SharedMaps`),
  so that `Write` reaches no other (`SnapshotsHoldTheorem`, `MapsArePrivateTheorem`).
  `OpenPhase` carries the tenant from the first question of the snapshot to the second:
  whom the context stands for in between is in `stoodFor` (`TenantIsWholeTheorem`). For the keys there are lemmas
  on texts: what `Trim` leaves, that the tokens of a concatenation are those of its
  parts, and that a valid identifier is a single name, since no name of a text
  follows another; so a scoped key's first two tokens are the tenant's directory.
- **TransferProofs.** The invariant ties the reader's position to the step
  (`SeekBack` is what brings it back), the temporary copy to what has been read,
  and the announced length to one or the other, with `changed` excusing only the
  end of a body. For `DownloadsReplaceWholeTheorem` a file is only renamed, or
  committed by the disk under its final name, when it is complete and synced; the
  instant a download takes effect is its `Rename`.

Each property that a passing run checks as an invariant or as a property of steps
has its theorem. Only model-checked: the liveness properties (`OpenReturns`, `CanceledOpenReturns`,
`TransfersEnd`), since fairness and ENABLED are out of the prover's reach.

## Where code and words differ

Four runs end in a violation. Each shows a behaviour of the code that a comment
or a document rules out.

1. `AbandonedKeysBounded`. `SetIfVersion` never sweeps, and it is the only write
   a factory makes. An application that only opens containers never sweeps:
   entries that expired and are not read again stay. The comment
   (`config_cache.go:58-60`) says they "cannot accumulate forever". What does
   hold is `SetRestoresBound`: the next `Set` sweeps.
2. `SubsequentOpensSeeUpdate`. An `Open` after the application's `Delete` joins a
   load that is under way, and answers with what that load read before the
   update; `docs/config-sources.md:227-228` promises the reload. What does hold
   is `NoStaleResult`, relative to the load that answers, and `CacheCoherent`: the
   old record never gets into the cache, and the next `Open` after that load
   sees the update.
3. `TrueDeleteMeansObject`. `Delete` removes an empty directory that took the place
   of its object after its `Stat`, and says true (`filesystem.go:146`).
4. `MissingIsNoError`. A key below an object's key is missing, but the lookup
   returns ENOTDIR (`README.md:68-69`).

A relative of these has no run: `Save` of a key that is the directory of others
answers `ErrFileExists`, with `overwrite` too, where `Exists` says false
(`README.md:69-70`). In `FileStore` this is `Taken`.

The last two and this one concern keys of which one is a path prefix of another, and
`ObjectStore` is weakened for just those (`Prefixes`). Without such keys 3 and
4 do not happen, and nothing is left of the weakening: that is proved (`KeysApart` in
`FileStoreProofs`).

## Not modelled

- **Normalizers that write to the map while they are called**, and data races on it:
  a normalizer that is lent the container's map (`container.go:100`) keeps it in the
  model, and writes to it at any later instant, but each write and each copy is
  atomic; in Go an unsynchronized write beside a copy may also end the process. A
  key builder is given the request, whose map is a copy, before any backend is; one
  that writes to it changes that request only.
- **The failing removal of a temporary file.** The deferred `os.Remove`s ignore their
  errors (`filesystem.go:95`, `fileutil.go:30`, `s3.go:317`); in the models they succeed,
  and `NothingLeftBehind` is about a file system in which they do.
- **A request that is served after its caller has given up on it.** `GiveUp` leaves a
  put served before the call returns, or not at all.
- **Names of containers** in keys: the default key builder ignores them.
- **The registry's** `List` and `ValidateConfig`, which only read, and typed
  provider configurations (`backend/*/config.go`), which only convert.
- **Aliyun's Download:** the SDK writes the destination (`aliyun.go:127`).
- **Durations:** of an expiry the models keep that one in the past is refused. A
  rest of less than a second becomes 0 seconds in aliyun and obs and 1 in ks3; what
  a service makes of 0 is its own matter. The same holds of KS3's `timeout`.
- **AccessURL of the filesystem backend** changes no state: it is `Exists`, if it
  is to check, and a join of texts.
- **The validation of keys and root** in the filesystem backend: it decides
  whether an operation runs at all (`Fail`).
- **Partial responses** of cloud services: a reader gets an object as of the
  request that opened it, which is what the services promise; a download whose
  reader fails is `Fail`.
- **The answer 409** (ConditionalRequestConflict), which some services give to a
  put that races another request: when they do is their own matter.
- **Goroutines inside SDKs, connection pools, retries** other than sending again
  what may have been served.

## Plan

Done, in this order: `VersionedCache`, `MemoryConfigCache`, `ConfigLoader`,
`ObjectStore`, `FileStore`, `BucketStore`, `ClientCache`, `Container`, `Transfer`,
and the proofs of each; then `RemoteStore` with the refinement by `BucketStore`, what
keys that are apart are worth to `FileStore`, and what the promises are worth to callers.

Next:

1. `ConfigLoader` composed with `MemoryConfigCache` in place of the contract, and
   `Container` with `ConfigLoader` in place of `Load`.
2. The validation of keys and root in the filesystem backend's `path`, as
   operators over the texts of `Container`: no key leaves the root.

## Running it

`tlasany M.tla` parses a module, `tlc -workers 2 -config X.cfg M` checks an
instance, `tlapm MProofs.tla` checks proofs. The runs take from seconds to three
minutes each; the proofs some minutes in all. `PROJECT.json` lists the runs with
their properties, the mutants that show each property can fail, the map from
definitions to lines, the hazards and the theorems.
