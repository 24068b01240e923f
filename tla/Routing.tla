------------------------------- MODULE Routing -------------------------------
(***************************************************************************)
(* Who gets an event: Router.route (night_brownie/routers/agent.py) and    *)
(* the collection of agent images at startup (_collect_agent_images in     *)
(* night_brownie/__main__.py), as operators on a configuration.            *)
(*                                                                         *)
(* A configuration is the sequence config.repos; each entry is the         *)
(* sequence of its agent assignments, records with the fields              *)
(*   type        AgentAssignment.type                                      *)
(*   events      config["event_types"], a set, or Nothing                  *)
(*   port        the port, if config has both "image" and "port", else     *)
(*               Nothing                                                   *)
(*   url         config["url"], or Nothing                                 *)
(*   allow_close AgentAssignment.allow_close                               *)
(*   shadow      config["allow_close"], a key nobody is to put there, or   *)
(*               Nothing                                                   *)
(* A place <<r, k>> is the k-th assignment of the r-th repository.         *)
(***************************************************************************)
EXTENDS Integers, Sequences

CONSTANTS
    Nothing,       \* no such key
    Event,         \* the event type _dispatch_event routes, "issue.triage"
    PrefixedBy     \* [agent types -> event types that start with the type's prefix]

Places(config) ==
    UNION {{<<r, k>> : k \in DOMAIN config[r]} : r \in DOMAIN config}

Assignment(config, p) == config[p[1]][p[2]]

Before(p, q) == p[1] < q[1] \/ (p[1] = q[1] /\ p[2] < q[2])

(***************************************************************************)
(* _agent_handles_event: the listed event types, or else the prefix.       *)
(***************************************************************************)
HandlesEvent(a) ==
    IF a.events = Nothing THEN Event \in PrefixedBy[a.type] ELSE Event \in a.events

(***************************************************************************)
(* The registered URL of the type, if its container has been started, or   *)
(* else the configured one.                                                *)
(***************************************************************************)
UrlOf(a, registry) ==
    IF a.type \in DOMAIN registry THEN registry[a.type] ELSE a.url

Candidates(config, r, registry) ==
    {k \in DOMAIN config[r] : /\ HandlesEvent(config[r][k])
                              /\ UrlOf(config[r][k], registry) # Nothing}

(***************************************************************************)
(* The first assignment that handles the event and has a URL.              *)
(***************************************************************************)
Route(config, r, registry) ==
    LET C == Candidates(config, r, registry)
    IN  IF C = {} THEN Nothing ELSE CHOOSE k \in C : \A j \in C : k <= j

\* A faulty AgentSpecs: a type counts as seen before its image is looked at.
FirstOfType(config) ==
    {p \in Places(config) :
        /\ Assignment(config, p).port # Nothing
        /\ \A q \in Places(config) :
              Before(q, p) => Assignment(config, q).type # Assignment(config, p).type}

(***************************************************************************)
(* One container for each agent type, by the first assignment of the type  *)
(* that has an image and a port.                                           *)
(***************************************************************************)
AgentSpecs(config) ==
    {p \in Places(config) :
        /\ Assignment(config, p).port # Nothing
        /\ \A q \in Places(config) :
              Before(q, p) /\ Assignment(config, q).port # Nothing
                  => Assignment(config, q).type # Assignment(config, p).type}

(***************************************************************************)
(* _start_agent_containers: "http://localhost:" and the port for each type.*)
(***************************************************************************)
StartedUrls(config) ==
    [type \in {Assignment(config, p).type : p \in AgentSpecs(config)} |->
        LET spec == CHOOSE p \in AgentSpecs(config) : Assignment(config, p).type = type
        IN  Assignment(config, spec).port]

=============================================================================
