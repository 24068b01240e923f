------------------------------- MODULE MCTriage -------------------------------
(***************************************************************************)
(* Triage on two tasks, two repositories and three configurations.         *)
(***************************************************************************)
EXTENDS Triage, TLC

CONSTANTS u1, u2, u3

Prefixes == [triage |-> {"issue.triage"}, helper |-> {"issue.triage"},
             review |-> {"pr.review"}]

Agent(type, port, url, allow) ==
    [type |-> type, events |-> Nothing, port |-> port, url |-> url,
     allow_close |-> allow, shadow |-> Nothing]

(***************************************************************************)
(* One container for both repositories, of which one lets it close; in the *)
(* other the key has slipped into the agent's own configuration.           *)
(***************************************************************************)
Shared == << <<[Agent("triage", u1, Nothing, FALSE) EXCEPT !.shadow = TRUE]>>,
             <<Agent("triage", u2, Nothing, TRUE)>> >>

(***************************************************************************)
(* The preferred agent of the first repository has the image that only the *)
(* second one names; until then there is a helper that runs elsewhere.     *)
(***************************************************************************)
Helped == << <<Agent("triage", Nothing, Nothing, FALSE), Agent("helper", Nothing, u3, FALSE)>>,
             <<Agent("review", u2, Nothing, FALSE), Agent("triage", u1, Nothing, FALSE)>> >>

(***************************************************************************)
(* Event types are listed: a reviewer triages, a triager does not.         *)
(***************************************************************************)
Listed == << <<[Agent("triage", u1, Nothing, TRUE) EXCEPT !.events = {}],
               [Agent("review", Nothing, u3, FALSE) EXCEPT !.events = {"issue.triage"}]>>,
             <<>> >>

Samples == {Shared, Helped, Listed}

Reply(kind, comment, close, keyword) ==
    [kind |-> kind, comment |-> comment, close |-> close, keyword |-> keyword]

Answers == {Reply("garbage", FALSE, FALSE, FALSE), Reply("malformed", FALSE, FALSE, FALSE),
            Reply("unknown", FALSE, FALSE, TRUE),
            Reply("decision", TRUE, FALSE, TRUE), Reply("decision", TRUE, TRUE, FALSE)}

AllDecisions == [comment : BOOLEAN, close : BOOLEAN, keyword : BOOLEAN]

Interchangeable == Permutations(Tasks)

=============================================================================
