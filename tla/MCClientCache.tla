---------------------------- MODULE MCClientCache ----------------------------
(***************************************************************************)
(* Three calls: two that race with one configuration, however it is        *)
(* spelled, and one that must stay apart.  Their configurations differ in  *)
(* one field, whichever it is, or in the few that are read together.       *)
(***************************************************************************)
EXTENDS ClientCache, TLC

CONSTANTS c1, c2, c3

MCCalls  == {c1, c2, c3}
MCFields == UNION {p.reads : p \in Providers}
MCTexts  == UNION {Truths, Falsehoods, Numbers, Hosts, Addresses,
                   {"us-east-1", "http", "https", "x", "y", "?"}}

\* What a field is tried with: every kind of text its parser or check tells apart.
TextsOf(f) == CASE f \in Flags      -> {"", "0", "1", "true", "?"}
                [] f \in Counts     -> {"", "0", "1", "+1", "?"}
                [] f = "endpoint"   -> {""} \cup Hosts \cup Addresses
                [] f = "region"     -> {"", "us-east-1", "x"}
                [] f = "protocol"   -> {"", "http", "https", "?"}
                [] OTHER            -> {"", "x", "y"}

Absent == Flags \cup Counts \cup {"region", "protocol", "session_token"}
Base(endpoint) ==
  [f \in MCFields |-> IF f = "endpoint" THEN endpoint ELSE IF f \in Absent THEN "" ELSE "x"]

OneField ==
  UNION {{[c \in MCCalls |-> [Base(e) EXCEPT ![f] = v[c]]] : v \in [MCCalls -> TextsOf(f)]}
         : f \in MCFields, e \in {"a", "https://a"}}
Schemes ==
  {[c \in MCCalls |-> [Base(e[c]) EXCEPT !["protocol"] = v[c]]] :
     e \in [MCCalls -> Addresses], v \in [MCCalls -> {"", "https"}]}
Credentials ==
  {[c \in MCCalls |-> [Base("a") EXCEPT !["access_key"] = k[c], !["secret_key"] = s[c],
                                        !["session_token"] = t[c]]] :
     k, s, t \in [MCCalls -> {"", "x"}]}
MCConfigurations == OneField \cup Schemes \cup Credentials

CallSymmetry == Permutations(MCCalls)
================================================================================
