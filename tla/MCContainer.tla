------------------------------ MODULE MCContainer ------------------------------
(***************************************************************************)
(* Two Opens with one context, which stands for a tenant without a code or *)
(* for one whose code is a path into the first one's directory; two calls. *)
(* Among the file IDs is a path out of the directory, written so that only *)
(* the normalizer makes a path of it.                                      *)
(***************************************************************************)
EXTENDS Container, TLC

CONSTANTS c1, c2, r1, r2, x1, v1, v2

MCOpens    == {c1, c2}
MCRequests == {r1, r2}
MCContexts == {x1}
MCContents == {v1, v2}
MCTenants  == {[id |-> <<"t">>, code |-> <<>>], [id |-> <<"v">>, code |-> <<"t", "/", "u">>]}
MCBackendNames == {"filesystem", "s3"}
MCBackends     == <<"filesystem", "filesystem">>

Plain   == <<"/", "a">>
Escape  == <<"\\", "..", "\\", "u">>
Escaped == <<"/", "..", "/", "u">>
Empty   == <<"\\">>
MCFiles == {Plain, Escape, Escaped, Empty}

\* Operations of two containers, and one with any file ID beside a call of
\* Configuration on the same container.
Call == [of : MCOpens, kind : {"configuration", "get", "other"}, file : MCFiles]
TwoContainers(q, p) == /\ q.of # p.of
                       /\ q.kind = "other" /\ p.kind = "other"
                       /\ q.file = Plain /\ p.file = Plain
OneContainer(q, p)  == /\ q.of = p.of
                       /\ q.kind = "get" /\ p.kind = "configuration"
                       /\ q.file # Escaped /\ p.file = Plain
MCCalls == {q \in [MCRequests -> Call] : \E r, s \in MCRequests :
              r # s /\ (TwoContainers(q[r], q[s]) \/ OneContainer(q[r], q[s]))}

\* Slashes for backslashes; an empty name is refused.  It may keep what it is lent.
Slashes == [container |-> TRUE,
            file |-> [f \in MCFiles |-> CASE f = Escape -> Escaped
                                          [] f = Empty  -> None
                                          [] OTHER      -> f],
            keeps |-> TRUE]
MCNormalizers == <<Slashes>>

Symmetry == Permutations(MCOpens) \cup Permutations(MCRequests)
              \cup Permutations(MCContents)
================================================================================
