------------------------------ MODULE ClientCache ------------------------------
(***************************************************************************)
(* How a cloud backend shares its SDK clients: every operation of every    *)
(* container of the provider asks for the client of its configuration, and *)
(* one that is not there yet is built and put into a sync.Map that nothing *)
(* is ever removed from.  The steps are the operations of the map; calls   *)
(* run between them.  A client is named by the call that built it.         *)
(*                                                                         *)
(* A configuration is the map of texts a container is set up with, "" for  *)
(* a key that is missing.  The provider refuses it, or reads it: defaults  *)
(* are filled in, and flags and counts are parsed, so that one setting can *)
(* be spelled in several ways.  Of a provider it matters what it reads,    *)
(* requires and refuses, which settings the key of the map is made of, and *)
(* which ones the client is built from.                                    *)
(***************************************************************************)
CONSTANTS Calls, Fields, Texts, None,
          Configurations   \* what the calls are configured with: all, or some

ASSUME NoneAssumption == None \notin Calls
ASSUME ConfigurationsAssumption == Configurations \subseteq [Calls -> [Fields -> Texts]]

VARIABLES provider,  \* the provider whose backend is in use
          config,    \* each call's configuration
          clients,   \* the sync.Map: pairs of a key and a client
          built,     \* the calls that have built a client
          pc,
          got        \* the client that each call returns, or None

vars == <<provider, config, clients, built, pc, got>>

\* The texts that a parser or a check of the code tells apart, one or two of each kind.
Flags      == {"create", "force_path_style", "use_chunk_encoding", "secure"}
Truths     == {"1", "true"}
Falsehoods == {"", "0", "false"}
Counts     == {"max_connections", "timeout"}
Numbers    == {"", "0", "1", "+1"}
Hosts      == {"a", "b"}
Addresses  == {"http://a", "https://a"}
Scheme(address) == IF address = "http://a" THEN "http" ELSE "https"

\* Mutant: a key that forgets a field the client is built from.
KS3KeyedByAccess ==
  [key      |-> {"bucket", "endpoint", "access_key", "secret_key", "create"},
   uses     |-> {"endpoint", "access_key", "secret_key", "protocol", "user_agent",
                 "max_connections", "timeout"},
   reads    |-> {"bucket", "endpoint", "access_key", "secret_key", "protocol", "user_agent",
                 "max_connections", "timeout", "create"},
   required |-> {"bucket", "endpoint", "access_key", "secret_key"},
   refused |-> Addresses, looks |-> TRUE, fails |-> FALSE]

\* The S3 family keys its clients by the whole configuration, the others by what
\* identifies an account.  `refused`: endpoints of the wrong form; `looks`: the context
\* is looked at first; `fails`: the client's constructor may return an error.
AWS == LET all == {"bucket", "region", "access_key", "secret_key", "session_token", "create"}
       IN  [reads |-> all, key |-> all, required |-> {"bucket"},
            uses  |-> {"region", "access_key", "secret_key", "session_token"},
            refused |-> {}, looks |-> FALSE, fails |-> TRUE]
S3 == LET all == {"bucket", "endpoint", "access_key", "secret_key", "force_path_style",
                  "use_chunk_encoding", "protocol", "create"}
      IN  [reads |-> all, key |-> all,
           required |-> {"bucket", "endpoint", "access_key", "secret_key"},
           uses  |-> {"endpoint", "access_key", "secret_key", "force_path_style",
                      "use_chunk_encoding"},
           refused |-> Hosts, looks |-> TRUE, fails |-> FALSE]
MinIO == LET all == {"bucket", "endpoint", "access_key", "secret_key", "region", "secure",
                     "create"}
         IN  [reads |-> all, key |-> all,
              required |-> {"bucket", "endpoint", "access_key", "secret_key"},
              uses  |-> {"endpoint", "access_key", "secret_key", "region", "secure"},
              refused |-> Addresses, looks |-> FALSE, fails |-> TRUE]
KS3 == LET all == {"bucket", "endpoint", "access_key", "secret_key", "protocol", "user_agent",
                   "max_connections", "timeout", "create"}
       IN  [reads |-> all, key |-> all,
            required |-> {"bucket", "endpoint", "access_key", "secret_key"},
            uses  |-> {"endpoint", "access_key", "secret_key", "protocol", "user_agent",
                       "max_connections", "timeout"},
            refused |-> Addresses, looks |-> TRUE, fails |-> FALSE]
Aliyun == LET account == {"endpoint", "access_key", "secret_key"}
          IN  [reads |-> account \cup {"bucket", "create"}, key |-> account, uses |-> account,
               required |-> account \cup {"bucket"},
               refused |-> {}, looks |-> TRUE, fails |-> TRUE]
Azure == LET account == {"connection_string"}
         IN  [reads |-> account \cup {"bucket", "create"}, key |-> account, uses |-> account,
              required |-> account \cup {"bucket"},
              refused |-> {}, looks |-> TRUE, fails |-> TRUE]
OBS == LET account == {"endpoint", "access_key", "secret_key"}
       IN  [reads |-> account \cup {"bucket", "create"}, key |-> account, uses |-> account,
            required |-> account \cup {"bucket"},
            refused |-> {}, looks |-> TRUE, fails |-> TRUE]
Providers == {AWS, S3, MinIO, KS3, Aliyun, Azure, OBS}

ASSUME FieldsAssumption == \A p \in Providers : p.reads \subseteq Fields

Count(text) == CASE text = "" -> "0" [] text = "+1" -> "1" [] OTHER -> text

\* What stands in for a missing text; the S3 backend takes its endpoint's scheme.
Default(c, f) == CASE f = "region"                    -> "us-east-1"
                   [] f = "protocol" /\ provider = S3 -> Scheme(config[c]["endpoint"])
                   [] f = "protocol" /\ provider # S3 -> "https"
                   [] OTHER                           -> ""

\* What the backend makes of a call's text.
Meaning(c, f) == CASE f \in Flags  -> IF config[c][f] \in Truths THEN "true" ELSE "false"
                   [] f \in Counts -> Count(config[c][f])
                   [] f \notin Flags \cup Counts ->
                        IF config[c][f] = "" THEN Default(c, f) ELSE config[c][f]

\* Static credentials are complete, or absent; a session token belongs to them.
Paired(c) == /\ (config[c]["access_key"] = "") <=> (config[c]["secret_key"] = "")
             /\ config[c]["session_token"] # "" => config[c]["access_key"] # ""

\* Whether the backend accepts a call's configuration.
Valid(c) ==
  /\ \A f \in provider.required : config[c][f] # ""
  /\ \A f \in provider.reads \cap Flags : config[c][f] \in Truths \cup Falsehoods
  /\ \A f \in provider.reads \cap Counts : config[c][f] \in Numbers
  /\ \A f \in provider.reads \cap {"endpoint"} : config[c][f] \notin provider.refused
  /\ \A f \in provider.reads \cap {"protocol"} : Meaning(c, f) \in {"http", "https"}
  /\ "session_token" \in provider.reads => Paired(c)

Settings(c, fields) == [f \in fields |-> Meaning(c, f)]

\* Mutant: the key is made of the texts, not of what they mean.
KeyOfTexts(c) == [f \in provider.key |-> config[c][f]]

KeyOf(c) == Settings(c, provider.key)
Entry(c, client) == [key |-> KeyOf(c), client |-> client]
Cached(c) == {client \in Calls : Entry(c, client) \in clients}

Init == /\ provider \in Providers
        /\ config \in Configurations
        /\ clients = {} /\ built = {}
        /\ pc = [c \in Calls |-> "load"]
        /\ got = [c \in Calls |-> None]

Goto(c, step) == pc' = [pc EXCEPT ![c] = step] /\ UNCHANGED <<provider, config>>
Return(c, client) == Goto(c, "done") /\ got' = [got EXCEPT ![c] = client]

\* The backend refuses the configuration, or the context has ended.
Refuse(c) == /\ pc[c] = "load" /\ (~Valid(c) \/ provider.looks)
             /\ Return(c, None)
             /\ UNCHANGED <<clients, built>>

LoadHit(c) == /\ pc[c] = "load" /\ Valid(c)
              /\ \E client \in Cached(c) : Return(c, client)
              /\ UNCHANGED <<clients, built>>

LoadMiss(c) == /\ pc[c] = "load" /\ Valid(c) /\ Cached(c) = {}
               /\ Goto(c, "build")
               /\ UNCHANGED <<clients, built, got>>

Build(c) == /\ pc[c] = "build"
            /\ built' = built \cup {c}
            /\ Goto(c, "store")
            /\ UNCHANGED <<clients, got>>

\* Mutant: the constructor's error is not looked at.
BuildFailsUnnoticed(c) == /\ pc[c] = "build" /\ provider.fails
                          /\ Goto(c, "store")
                          /\ UNCHANGED <<clients, built, got>>

BuildFails(c) == /\ pc[c] = "build" /\ provider.fails
                 /\ Return(c, None)
                 /\ UNCHANGED <<clients, built>>

\* Mutant: Store instead of LoadOrStore.
StoreAnyway(c) == /\ pc[c] = "store"
                  /\ clients' = {e \in clients : e.key # KeyOf(c)} \cup {Entry(c, c)}
                  /\ Return(c, c)
                  /\ UNCHANGED built

\* LoadOrStore: the first client of a configuration stays; a call that built
\* another one meanwhile drops it.
LoadOrStore(c) == /\ pc[c] = "store"
                  /\ \/ /\ Cached(c) = {}
                        /\ clients' = clients \cup {Entry(c, c)}
                        /\ Return(c, c)
                     \/ /\ \E client \in Cached(c) : Return(c, client)
                        /\ UNCHANGED clients
                  /\ UNCHANGED built

Step(c) == \/ Refuse(c) \/ LoadHit(c) \/ LoadMiss(c)
           \/ Build(c) \/ BuildFails(c) \/ LoadOrStore(c)

Finished == (\A c \in Calls : pc[c] = "done") /\ UNCHANGED vars

Next == (\E c \in Calls : Step(c)) \/ Finished

Spec == Init /\ [][Next]_vars

(***************************************************************************)
(* Properties                                                              *)
(***************************************************************************)
\* Types; only clients that have been built are kept and handed out.
TypeOK == /\ provider \in Providers
          /\ config \in [Calls -> [Fields -> Texts]]
          /\ built \in SUBSET Calls
          /\ clients \subseteq {Entry(c, client) : c \in Calls, client \in built}
          /\ pc \in [Calls -> {"load", "build", "store", "done"}]
          /\ got \in [Calls -> built \cup {None}]

\* Calls whose configurations mean the same get one client, however they are
\* spelled and however the calls race to build it: a configuration's connection
\* pool is never split, and each client that was handed out is the one the map keeps.
OneClientPerConfiguration ==
  /\ \A c \in Calls : got[c] # None => Entry(c, got[c]) \in clients
  /\ \A e, f \in clients : e.key = f.key => e = f
  /\ \A c, d \in Calls :
       /\ got[c] # None /\ got[d] # None
       /\ \A f \in provider.key : Meaning(c, f) = Meaning(d, f)
       => got[c] = got[d]

\* The client a call gets, whoever built it, has been built from just the
\* settings of the call's own configuration: the key of the map tells apart
\* whatever makes two clients different, credentials above all.  And a call whose
\* configuration the backend refuses gets none, even where its key is a valid one's.
ClientFitsConfiguration ==
  \A c \in Calls :
    got[c] # None => /\ Valid(c)
                     /\ Settings(got[c], provider.uses) = Settings(c, provider.uses)
================================================================================
