------------------------------- MODULE Container -------------------------------
(***************************************************************************)
(* Factory.Open and the containers it returns (factory.go, container.go):  *)
(* Open takes a snapshot of the tenant, loads the tenant's configuration,  *)
(* resolves its backend in the registry and keeps a copy; every operation  *)
(* of the container normalizes the names it is given, builds the object's  *)
(* key (naming.go, key.go) and hands the backend a request of its own.     *)
(* Any number of them run at once, while the application goes on using     *)
(* what it shares with them: its TenantContext values, which may come to   *)
(* stand for someone else, and the Values maps it holds.  Its normalizers  *)
(* are called with the container's own map, which some may keep.           *)
(*                                                                         *)
(* A map is a place with contents, so that sharing one differs from having *)
(* a copy.  A name, a file ID or a key is a text: the sequence of its      *)
(* separators and of the names between them.                               *)
(***************************************************************************)
EXTENDS Naturals, Sequences

CONSTANTS Opens,        \* calls of Open, and the containers they return
          Requests,     \* calls of the containers' methods
          Contexts,     \* the application's TenantContext values
          Tenants,      \* whom they may stand for: an ID and a code each
          Contents,     \* what a Values map may contain
          BackendNames, \* the backends a configuration may name
          Backends,     \* the names of NewBackendRegistry's arguments, in order
          Files,        \* file IDs
          Calls,        \* the calls to look at, all of them or some
          Normalizers,  \* NamingServiceSet.normalizers; none is identityNamingService
          None

Separators == {"/", "\\"}
Dots       == {".", ".."}
Ids        == {t.id : t \in Tenants}
Maps       == Ids \cup Opens \cup Requests  \* a tenant's, a container's, a request's
Modes      == {"scoped", "shared"}

\* A text's names are as long as they can be: none follows another.
Text(text) == /\ text \in Seq(STRING)
              /\ \A i \in 1..Len(text) - 1 : {text[i], text[i + 1]} \cap Separators # {}

ASSUME TextsAssumption ==
         /\ \A f \in Files : Text(f)
         /\ Tenants \subseteq [id : Seq(STRING), code : Seq(STRING)]
         /\ \A t \in Tenants : Text(t.id) /\ Text(t.code)
ASSUME NormalizersAssumption ==
         Normalizers \in Seq([container : BOOLEAN, file : [Files -> Files \cup {None}],
                              keeps : BOOLEAN])
ASSUME BackendsAssumption == Backends \in Seq(BackendNames)
ASSUME CallsAssumption ==
         Calls \subseteq [Requests -> [of : Opens, file : Files,
                                      kind : {"configuration", "get", "other"}]]
ASSUME DistinctAssumption ==
         /\ None \notin Files \cup Maps
         /\ Ids \cap Opens = {} /\ Ids \cap Requests = {} /\ Opens \cap Requests = {}

VARIABLES
  \* The application.
  who,      \* the tenant each context stands for
  values,   \* the contents of every map
  shared,   \* the maps that others than the container may write to
  \* The calls of Open.
  context,  \* the context each is given
  step,     \* how far it has come
  tenant,   \* its tenantContextSnapshot
  config,   \* its ContainerConfig: backend, mode, and the map of values
  \* The calls of the containers' methods.
  call,     \* what each is: its container, its kind and its file ID
  pc,       \* how far it has come
  passed,   \* how many normalizers its names have been through
  file,     \* the file ID by now
  sent,     \* the FileRequest the backend has got, or None
  \* History.
  asked,    \* the tenant an Open was called with
  stoodFor, \* the tenants its context stood for during the snapshot
  opened,   \* the contents of an Open's configuration when it returned
  kept      \* the containers whose map a normalizer has kept

app   == <<who, values, shared>>
opens == <<context, step, tenant, config, asked, stoodFor, opened>>
reqs  == <<call, pc, passed, file, sent>>
vars  == <<app, opens, reqs, kept>>

Steps == {"idle", "code", "load", "resolve", "failed", "open"}
Of(r) == call[r].of

Init == /\ who \in [Contexts -> Tenants]
        /\ \E content \in Contents : values = [m \in Maps |-> content]
        /\ shared = Ids
        /\ context \in [Opens -> Contexts]
        /\ step = [c \in Opens |-> "idle"]
        /\ tenant = [c \in Opens |-> None]
        /\ config = [c \in Opens |-> None]
        /\ call \in Calls
        /\ pc = [r \in Requests |-> "idle"]
        /\ passed = [r \in Requests |-> 0]
        /\ file = [r \in Requests |-> call[r].file]
        /\ sent = [r \in Requests |-> None]
        /\ asked = [c \in Opens |-> None]
        /\ stoodFor = [c \in Opens |-> {}]
        /\ opened = [c \in Opens |-> None]
        /\ kept = {}

(***************************************************************************)
(* The application and the backends                                        *)
(***************************************************************************)
\* A context comes to stand for another tenant.
Switch(x) == \E t \in Tenants :
  /\ who' = [who EXCEPT ![x] = t]
  /\ stoodFor' = [c \in Opens |-> IF context[c] = x /\ step[c] = "code"
                                  THEN stoodFor[c] \cup {t} ELSE stoodFor[c]]
  /\ UNCHANGED <<values, shared, context, step, tenant, config, asked, opened, reqs, kept>>

\* Whoever holds a map writes to it: the application to what its source or its
\* cache hands out and to what Configuration returned, a backend to its request's,
\* a normalizer to what it has kept.
Write(m) == /\ m \in shared
            /\ values' \in {[values EXCEPT ![m] = content] : content \in Contents}
            /\ UNCHANGED <<who, shared, opens, reqs, kept>>

(***************************************************************************)
(* Factory.Open                                                            *)
(***************************************************************************)
Advance(c, s) == step' = [step EXCEPT ![c] = s]

\* snapshotTenant asks the context for its ID first ...
SnapshotID(c) == /\ step[c] = "idle"
                 /\ asked' = [asked EXCEPT ![c] = who[context[c]]]
                 /\ tenant' = [tenant EXCEPT ![c] = who[context[c]]]
                 /\ stoodFor' = [stoodFor EXCEPT ![c] = {who[context[c]]}]
                 /\ Advance(c, "code")
                 /\ UNCHANGED <<app, context, config, opened, reqs, kept>>

\* ... and then for its code.
SnapshotCode(c) == /\ step[c] = "code"
                   /\ tenant' = [tenant EXCEPT ![c] = [@ EXCEPT !.code = who[context[c]].code]]
                   /\ Advance(c, "load")
                   /\ UNCHANGED <<app, context, config, asked, stoodFor, opened, reqs, kept>>

\* The tenant's configuration of this moment.  Its map may be one that the cache
\* or the source keeps.
Load(c) == /\ step[c] = "load"
           /\ \E backend \in BackendNames, mode \in Modes :
                config' = [config EXCEPT ![c] = [backend |-> backend, mode |-> mode,
                                                 values |-> tenant[c].id]]
           /\ Advance(c, "resolve")
           /\ UNCHANGED <<app, context, tenant, asked, stoodFor, opened, reqs, kept>>

LoadFails(c) == /\ step[c] = "load"
                /\ Advance(c, "failed")
                /\ UNCHANGED <<app, context, tenant, config, asked, stoodFor, opened, reqs,
                               kept>>

\* Of backends with one name, NewBackendRegistry keeps the last.
Registered(backend) == {i \in DOMAIN Backends : Backends[i] = backend}
Resolved(backend) == CHOOSE i \in Registered(backend) : \A j \in Registered(backend) : j <= i

ResolveFails(c) == /\ step[c] = "resolve"
                   /\ Registered(config[c].backend) = {}
                   /\ Advance(c, "failed")
                   /\ UNCHANGED <<app, context, tenant, config, asked, stoodFor, opened, reqs,
                               kept>>

\* Mutant: the container keeps the map it was given.
ReturnUncloned(c) ==
  /\ step[c] = "resolve"
  /\ Registered(config[c].backend) # {}
  /\ opened' = [opened EXCEPT ![c] = values[config[c].values]]
  /\ Advance(c, "open")
  /\ UNCHANGED <<app, context, tenant, config, asked, stoodFor, reqs, kept>>

\* Mutant: a backend that is not registered is not noticed.
ReturnUnresolved(c) ==
  /\ step[c] = "resolve"
  /\ values' = [values EXCEPT ![c] = values[config[c].values]]
  /\ config' = [config EXCEPT ![c] = [@ EXCEPT !.values = c]]
  /\ opened' = [opened EXCEPT ![c] = values[config[c].values]]
  /\ Advance(c, "open")
  /\ UNCHANGED <<who, shared, context, tenant, asked, stoodFor, reqs, kept>>

\* The backend is there; the container gets a copy of the configuration.
Return(c) == /\ step[c] = "resolve"
             /\ Registered(config[c].backend) # {}
             /\ values' = [values EXCEPT ![c] = values[config[c].values]]
             /\ config' = [config EXCEPT ![c] = [@ EXCEPT !.values = c]]
             /\ opened' = [opened EXCEPT ![c] = values[config[c].values]]
             /\ Advance(c, "open")
             /\ UNCHANGED <<who, shared, context, tenant, asked, stoodFor, reqs, kept>>

(***************************************************************************)
(* defaultKeyBuilder.Build                                                 *)
(***************************************************************************)
\* strings.Trim(text, "/")
Trim(text) ==
  LET Kept == {i \in DOMAIN text : text[i] # "/"}
  IN  IF Kept = {} THEN <<>>
      ELSE SubSeq(text, CHOOSE i \in Kept : \A j \in Kept : i <= j,
                        CHOOSE i \in Kept : \A j \in Kept : j <= i)

Tokens(text) == {text[i] : i \in DOMAIN text}

\* A tenant is known by its code, or by its ID if it has none.
Identifier(t) == IF t.code # <<>> THEN t.code ELSE t.id

\* Mutant: dot segments pass.
ValidFileAnything(text) == Tokens(text) \ {"\\"} # {}

ValidFile(text) == Tokens(text) \ {"\\"} # {} /\ Tokens(text) \cap Dots = {}

\* Mutant: separators pass.
ValidIdentifierAnything(text) == TRUE

ValidIdentifier(text) == Tokens(text) \cap (Separators \cup Dots) = {}

\* The key's prefix: the directory of a tenant, if it has one.
Directory(mode, t) == IF mode = "scoped" /\ Identifier(t) # <<>>
                        THEN Identifier(t) \o <<"/">> ELSE <<>>

Buildable(mode, t, text) ==
  /\ ValidFile(Trim(text))
  /\ Directory(mode, t) # <<>> => ValidIdentifier(Identifier(t))

Build(mode, t, text) == Directory(mode, t) \o Trim(text)

(***************************************************************************)
(* The container's methods                                                 *)
(***************************************************************************)
Goto(r, s) == pc' = [pc EXCEPT ![r] = s]

\* Configuration returns a copy, which is the caller's from now on.
Configuration(r) == /\ pc[r] = "idle" /\ call[r].kind = "configuration"
                    /\ step[Of(r)] = "open"
                    /\ values' = [values EXCEPT ![r] = values[config[Of(r)].values]]
                    /\ shared' = shared \cup {r}
                    /\ Goto(r, "done")
                    /\ UNCHANGED <<who, opens, call, passed, file, sent, kept>>

Start(r) == /\ pc[r] = "idle" /\ call[r].kind # "configuration"
            /\ step[Of(r)] = "open"
            /\ Goto(r, "normalize")
            /\ UNCHANGED <<app, opens, call, passed, file, sent, kept>>

\* NamingServiceSet.Normalize calls a normalizer with the container's configuration,
\* whose map is the container's own; nothing prevents the normalizer from keeping it.
Lend(r, n) == /\ \/ UNCHANGED <<shared, kept>>
                 \/ /\ n.keeps
                    /\ shared' = shared \cup {config[Of(r)].values}
                    /\ kept' = kept \cup {Of(r)}
              /\ UNCHANGED <<who, values>>

\* It accepts the container's name and turns the file ID into another one ...
Normalize(r) == /\ pc[r] = "normalize" /\ passed[r] < Len(Normalizers)
                /\ LET n == Normalizers[passed[r] + 1]
                   IN  /\ n.container /\ n.file[file[r]] # None
                       /\ file' = [file EXCEPT ![r] = n.file[file[r]]]
                       /\ Lend(r, n)
                /\ passed' = [passed EXCEPT ![r] = @ + 1]
                /\ UNCHANGED <<opens, call, pc, sent>>

\* ... or refuses one of them.
NormalizeFails(r) == /\ pc[r] = "normalize" /\ passed[r] < Len(Normalizers)
                     /\ LET n == Normalizers[passed[r] + 1]
                        IN  /\ ~n.container \/ n.file[file[r]] = None
                            /\ Lend(r, n)
                     /\ Goto(r, "failed")
                     /\ UNCHANGED <<opens, call, passed, file, sent>>

Ready(r) == pc[r] = "normalize" /\ passed[r] = Len(Normalizers)

BuildFails(r) == /\ Ready(r)
                 /\ ~Buildable(config[Of(r)].mode, tenant[Of(r)], file[r])
                 /\ Goto(r, "failed")
                 /\ UNCHANGED <<app, opens, call, passed, file, sent, kept>>

\* What request(r) puts together, with values `from` for a tenant `t`.
FileRequest(r, t, map, from) ==
  [backend |-> Resolved(config[Of(r)].backend), tenant |-> t, map |-> map, values |-> from,
   key |-> Build(config[Of(r)].mode, t, file[r])]

\* Mutant: the request shares the container's map.
SendUncloned(r) ==
  /\ Ready(r)
  /\ Buildable(config[Of(r)].mode, tenant[Of(r)], file[r])
  /\ LET m == config[Of(r)].values
     IN  /\ sent' = [sent EXCEPT ![r] = FileRequest(r, tenant[Of(r)], m, values[m])]
         /\ shared' = shared \cup {m}
  /\ Goto(r, "sent")
  /\ UNCHANGED <<who, values, opens, call, passed, file, kept>>

\* Mutant: the tenant is that of the moment.
SendLive(r) ==
  /\ Ready(r)
  /\ LET t == who[context[Of(r)]]
         from == values[config[Of(r)].values]
     IN  /\ Buildable(config[Of(r)].mode, t, file[r])
         /\ sent' = [sent EXCEPT ![r] = FileRequest(r, t, r, from)]
         /\ values' = [values EXCEPT ![r] = from]
  /\ shared' = shared \cup {r}
  /\ Goto(r, "sent")
  /\ UNCHANGED <<who, opens, call, passed, file, kept>>

\* The request gets a copy of the configuration, the snapshot of the tenant and
\* its key, and is the backend's from now on.
Send(r) == /\ Ready(r)
           /\ Buildable(config[Of(r)].mode, tenant[Of(r)], file[r])
           /\ LET from == values[config[Of(r)].values]
              IN  /\ sent' = [sent EXCEPT ![r] = FileRequest(r, tenant[Of(r)], r, from)]
                  /\ values' = [values EXCEPT ![r] = from]
           /\ shared' = shared \cup {r}
           /\ Goto(r, "sent")
           /\ UNCHANGED <<who, opens, call, passed, file, kept>>

\* The backend answers, with an error or not; Get makes an error of a missing object's
\* nil reader.
Answer(r) == /\ pc[r] = "sent"
             /\ \/ Goto(r, "done")
                \/ call[r].kind = "get" /\ Goto(r, "not found")
             /\ UNCHANGED <<app, opens, call, passed, file, sent, kept>>

OpenStep(c) == \/ SnapshotID(c) \/ SnapshotCode(c) \/ Load(c) \/ LoadFails(c)
               \/ ResolveFails(c) \/ Return(c)

RequestStep(r) == \/ Configuration(r) \/ Start(r) \/ Normalize(r) \/ NormalizeFails(r)
                  \/ BuildFails(r) \/ Send(r) \/ Answer(r)

Next == \/ \E x \in Contexts : Switch(x)
        \/ \E m \in Maps : Write(m)
        \/ \E c \in Opens : OpenStep(c)
        \/ \E r \in Requests : RequestStep(r)

Spec == Init /\ [][Next]_vars

(***************************************************************************)
(* Properties                                                              *)
(***************************************************************************)
Snapshots == [id : Ids, code : {t.code : t \in Tenants}]
Configs   == [backend : BackendNames, mode : Modes, values : Maps]

FileRequests == [backend : DOMAIN Backends, tenant : Snapshots, map : Maps, values : Contents,
                 key : {Build(mode, t, f) : mode \in Modes, t \in Snapshots, f \in Files}]

\* Types; the backend of a container that has been opened is registered.
TypeOK == /\ who \in [Contexts -> Tenants]
          /\ values \in [Maps -> Contents]
          /\ shared \in SUBSET Maps
          /\ context \in [Opens -> Contexts]
          /\ step \in [Opens -> Steps]
          /\ tenant \in [Opens -> Snapshots \cup {None}]
          /\ config \in [Opens -> Configs \cup {None}]
          /\ \A c \in Opens : step[c] = "open" => Registered(config[c].backend) # {}
          /\ call \in Calls
          /\ pc \in [Requests -> {"idle", "normalize", "sent", "done", "failed", "not found"}]
          /\ passed \in [Requests -> 0..Len(Normalizers)]
          /\ file \in [Requests -> Files]
          /\ sent \in [Requests -> FileRequests \cup {None}]
          /\ asked \in [Opens -> Tenants \cup {None}]
          /\ stoodFor \in [Opens -> SUBSET Tenants]
          /\ opened \in [Opens -> Contents \cup {None}]
          /\ kept \in SUBSET Opens

\* A container keeps the configuration it was opened with, and its requests carry
\* it, whatever the application writes to the maps of its source, of its cache and
\* of Configuration's results, and whatever backends do to the requests they got -
\* unless a normalizer has kept the map it was lent (container.go:100).
SnapshotsHold ==
  /\ \A c \in Opens \ kept : step[c] = "open" => values[config[c].values] = opened[c]
  /\ \A r \in Requests :
       sent[r] # None /\ Of(r) \notin kept => sent[r].values = opened[Of(r)]

\* Who can race with a container's operations for its map: nobody but a normalizer
\* of the application that has kept it.  No backend is given a container's map, nor
\* that of another request, also where a normalizer has kept the container's.
MapsArePrivate ==
  /\ \A c \in Opens : step[c] = "open" /\ config[c].values \in shared => c \in kept
  /\ \A r \in Requests, c \in Opens :
       sent[r] # None /\ step[c] = "open" => sent[r].map # config[c].values
  /\ \A r, s \in Requests :
       r # s /\ sent[r] # None /\ sent[s] # None => sent[r].map # sent[s].map

\* Requests are made for the tenant that the container was opened for, whoever its
\* TenantContext stands for by then.  Open asks for the ID and for the code in two
\* calls: the ID is that of the first, and the code that of a tenant the context
\* stood for between the two, which is another only if the context has changed.
TenantIsWhole ==
  \A r \in Requests : sent[r] # None =>
    /\ sent[r].tenant.id = asked[Of(r)].id
    /\ \E t \in stoodFor[Of(r)] : sent[r].tenant.code = t.code

\* The key of a request is below the directory of the tenant, or anywhere for a
\* shared configuration, and has no segment that leads out of it again.
KeysStayHome ==
  \A r \in Requests : sent[r] # None =>
    LET home == Directory(config[Of(r)].mode, sent[r].tenant)
        key  == sent[r].key
    IN  /\ Len(home) < Len(key)
        /\ SubSeq(key, 1, Len(home)) = home
        /\ Tokens(key) \cap Dots = {}

\* "An object cannot select a neighboring tenant directory" (docs/providers.md:
\* 124-126): the keys of scoped requests for tenants with different identifiers
\* begin with different names, so that neither is, or leads into, the other's.
TenantsStayApart ==
  \A r, s \in Requests :
    /\ sent[r] # None /\ Directory(config[Of(r)].mode, sent[r].tenant) # <<>>
    /\ sent[s] # None /\ Directory(config[Of(s)].mode, sent[s].tenant) # <<>>
    /\ Identifier(sent[r].tenant) # Identifier(sent[s].tenant)
    => /\ sent[r].key[1] # sent[s].key[1]
       /\ sent[r].key[2] = "/" /\ sent[s].key[2] = "/"
================================================================================
