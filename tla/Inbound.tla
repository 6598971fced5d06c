-------------------------------- MODULE Inbound --------------------------------
(***************************************************************************)
(* Inbound calls: the voice webhook (api/routes/twilio_webhooks.py) and    *)
(* InboundCallService.accept (calls/inbound.py), with the operators who    *)
(* change agents, routes and rules meanwhile (agents/service.py,           *)
(* agents/routing.py).                                                     *)
(*                                                                         *)
(* A delivery of the webhook looks the provider's call id up in one        *)
(* transaction, routes in a second one and inserts the call in a third.    *)
(* The second reads three tables in three statements, each of which sees   *)
(* what is committed at that moment, so routing may put together rows that *)
(* were never current at the same time.  The provider is external: it      *)
(* delivers any webhook, twice if it likes, and may see no answer.         *)
(***************************************************************************)
EXTENDS Routing

CONSTANTS
    AgentsAtFirst, \* which agents may be enabled, which disabled, at the start
    Deliveries,    \* requests of the webhook
    Sids,          \* provider call ids
    Contexts,      \* signals a call may come with
    RouteRows,     \* phone routes the operators may create
    RuleRows,      \* routing rules the operators may create
    Dialled,       \* rows of outbound calls already bound to their provider ids
    MaxEdits       \* bound: changes made to agents

ASSUME InboundAssumption ==
    /\ AgentsAtFirst \subseteq [Agents -> {"enabled", "disabled"}]
    /\ \A r \in RuleRows : r.priority \in Int /\ \E s \in Signals : r.signal[s] # Unset
    /\ \A r \in RouteRows \cup RuleRows : r.agent \in Agents
    /\ \A c \in Dialled : c.id \notin Deliveries
    /\ \A c1, c2 \in Dialled : c1.sid = c2.sid => c1 = c2
    /\ MaxEdits \in Nat

VARIABLES
    agents,    \* each agent: enabled, disabled or deleted
    routes,    \* phone_number_routes
    rules,     \* routing_rules
    calls,     \* calls, by the delivery that inserted them
    delivery,  \* where each request stands, and what it has read
    edits,
    since      \* history: what has stood unchanged since each request began to route

vars == <<agents, routes, rules, calls, delivery, edits, since>>

-----------------------------------------------------------------------------
(* Requests *)

Idle == [at |-> "idle", sid |-> Unset, context |-> Unset, routes |-> {}, rules |-> {},
         decision |-> Unset, call |-> Unset]

\* A request ends without a call.
Ends(d, at) == delivery' = [delivery EXCEPT ![d] = [Idle EXCEPT !.at = at]]

\* A request has a result, and forgets what it has read.
Holds(d, at, decision, call) ==
    delivery' = [delivery EXCEPT ![d] =
        [Idle EXCEPT !.at = at, !.sid = delivery[d].sid, !.context = delivery[d].context,
                     !.decision = decision, !.call = call]]

Nothing == [routes |-> {}, rules |-> {}, agents |-> {}]

\* AgentRepository: agents that are not deleted and are enabled.
Selectable == {a \in Agents : agents[a] = "enabled"}

\* get_by_provider_call_id.
Existing(sid) == {c \in calls : c.sid = sid}

Init ==
    /\ agents \in AgentsAtFirst
    /\ routes = {}
    /\ rules = {}
    /\ calls = Dialled
    /\ delivery = [d \in Deliveries |-> Idle]
    /\ edits = 0
    /\ since = [d \in Deliveries |-> Nothing]

-----------------------------------------------------------------------------
(* Operators: AgentService, RoutingService *)

\* AgentService.update and delete; nothing brings a deleted agent back.
EditAgent(a, state) ==
    /\ edits < MaxEdits
    /\ agents[a] # "deleted"
    /\ agents[a] # state
    /\ agents' = [agents EXCEPT ![a] = state]
    /\ since' = [d \in Deliveries |-> [since[d] EXCEPT !.agents = @ \ {a}]]
    /\ edits' = edits + 1
    /\ UNCHANGED <<routes, rules, calls, delivery>>

\* create_phone_route inserts the row.  A statement before has found its agent
\* selectable, but has not locked it, so by now the agent may be disabled or
\* deleted: any agent there is may have a request under way that has passed the
\* check.  The table refuses a second route for a number, and a second fallback.
CreatePhoneRoute(r) ==
    /\ \A q \in routes : q.number # r.number
    /\ routes' = routes \cup {r}
    /\ UNCHANGED <<agents, rules, calls, delivery, edits, since>>

\* create_rule inserts the row, in the same way.
CreateRule(r) ==
    /\ rules' = rules \cup {r}
    /\ UNCHANGED <<agents, routes, calls, delivery, edits, since>>

-----------------------------------------------------------------------------
(* accept *)

\* The row is that of an earlier delivery of the webhook.
SameCall(c, context) == c.number = context.number /\ c.agent # NoAgent

\* The provider calls the webhook, and the first transaction finds the call
\* already there: the request is answered with it.
ArrivesAgain(d, sid, context) ==
    /\ delivery[d] = Idle
    /\ \E c \in Existing(sid) :
          /\ SameCall(c, context)
          /\ delivery' = [delivery EXCEPT ![d] =
                [Idle EXCEPT !.at = "answered", !.sid = sid, !.context = context,
                             !.call = c.id]]
    /\ UNCHANGED <<agents, routes, rules, calls, edits, since>>

\* It finds a row that this call cannot have made: 409.
ArrivesMismatched(d, sid, context) ==
    /\ delivery[d] = Idle
    /\ \E c \in Existing(sid) : ~SameCall(c, context)
    /\ Ends(d, "mismatched")
    /\ UNCHANGED <<agents, routes, rules, calls, edits, since>>

\* It finds nothing.
Arrives(d, sid, context) ==
    /\ delivery[d] = Idle
    /\ Existing(sid) = {}
    /\ delivery' = [delivery EXCEPT ![d] =
          [Idle EXCEPT !.at = "routing", !.sid = sid, !.context = context]]
    /\ since' = [since EXCEPT ![d] = [routes |-> routes, rules |-> rules,
                                      agents |-> Selectable]]
    /\ UNCHANGED <<agents, routes, rules, calls, edits>>

ReadsRoutes(d) ==
    /\ delivery[d].at = "routing"
    /\ delivery' = [delivery EXCEPT ![d].at = "read_routes", ![d].routes = routes]
    /\ UNCHANGED <<agents, routes, rules, calls, edits, since>>

ReadsRules(d) ==
    /\ delivery[d].at = "read_routes"
    /\ delivery' = [delivery EXCEPT ![d].at = "read_rules", ![d].rules = rules]
    /\ UNCHANGED <<agents, routes, rules, calls, edits, since>>

\* resolve reads the agents and decides on what it has read by then.
Decided(d) == Resolve(delivery[d].context, delivery[d].routes, delivery[d].rules, Selectable)

Routed(d) ==
    /\ delivery[d].at = "read_rules"
    /\ Decided(d).agent # NoAgent
    /\ Holds(d, "routed", Decided(d), Unset)
    /\ since' = [since EXCEPT ![d] = Nothing]
    /\ UNCHANGED <<agents, routes, rules, calls, edits>>

\* RoutingNoMatchError, RoutingAmbiguityError: the caller is turned away.
TurnedAway(d) ==
    /\ delivery[d].at = "read_rules"
    /\ Decided(d).agent = NoAgent
    /\ Ends(d, Decided(d).reason)
    /\ since' = [since EXCEPT ![d] = Nothing]
    /\ UNCHANGED <<agents, routes, rules, calls, edits>>

\* Mutant: a call id may be inserted again.
InsertableAnew(d) == TRUE

\* provider_call_id is unique.
Insertable(d) == Existing(delivery[d].sid) = {}

\* Mutant: the call is recorded for the default voice.
RowWithoutAgent(d) ==
    [id |-> d, sid |-> delivery[d].sid, number |-> delivery[d].context.number,
     agent |-> NoAgent]

Row(d) ==
    [id |-> d, sid |-> delivery[d].sid, number |-> delivery[d].context.number,
     agent |-> delivery[d].decision.agent]

Inserts(d) ==
    /\ delivery[d].at = "routed"
    /\ Insertable(d)
    /\ calls' = calls \cup {Row(d)}
    /\ Holds(d, "answered", Unset, d)
    /\ UNCHANGED <<agents, routes, rules, edits, since>>

\* IntegrityError: another request for the call has been faster.  Nothing
\* catches it, and the provider is told that the server failed.
InsertRefused(d) ==
    /\ delivery[d].at = "routed"
    /\ ~Insertable(d)
    /\ Holds(d, "refused", Unset, Unset)
    /\ UNCHANGED <<agents, routes, rules, calls, edits, since>>

\* The database fails a transaction, or the process dies.
Fails(d) ==
    /\ delivery[d].at \in {"routing", "read_routes", "read_rules", "routed"}
    /\ Ends(d, "failed")
    /\ since' = [since EXCEPT ![d] = Nothing]
    /\ UNCHANGED <<agents, routes, rules, calls, edits>>

-----------------------------------------------------------------------------
Next ==
    \/ \E a \in Agents, state \in {"enabled", "disabled", "deleted"} : EditAgent(a, state)
    \/ \E r \in RouteRows : CreatePhoneRoute(r)
    \/ \E r \in RuleRows : CreateRule(r)
    \/ \E d \in Deliveries :
          \/ \E sid \in Sids, context \in Contexts :
                \/ ArrivesAgain(d, sid, context)
                \/ ArrivesMismatched(d, sid, context)
                \/ Arrives(d, sid, context)
          \/ ReadsRoutes(d)
          \/ ReadsRules(d)
          \/ Routed(d)
          \/ TurnedAway(d)
          \/ Inserts(d)
          \/ InsertRefused(d)
          \/ Fails(d)

Spec == Init /\ [][Next]_vars

-----------------------------------------------------------------------------
(* Properties *)

Stages ==
    {"idle", "routing", "read_routes", "read_rules", "routed", "answered", "mismatched",
     "no_match", "ambiguous", "refused", "failed"}

Rows ==
    [id : Deliveries, sid : Sids, number : {c.number : c \in Contexts}, agent : Agents]

Decisions ==
    [agent : Agents, reason : {"exact_phone_number", "routing_rule", "fallback"}]

Requests ==
    [at       : Stages,
     sid      : Sids \cup {Unset},
     context  : Contexts \cup {Unset},
     routes   : SUBSET RouteRows,
     rules    : SUBSET RuleRows,
     decision : Decisions \cup {Unset},
     call     : Deliveries \cup {c.id : c \in Dialled} \cup {Unset}]

\* In particular a call is recorded for an agent that routing has found.
TypeOK ==
    /\ agents \in [Agents -> {"enabled", "disabled", "deleted"}]
    /\ routes \subseteq RouteRows
    /\ rules \subseteq RuleRows
    /\ calls \ Dialled \subseteq Rows
    /\ delivery \in [Deliveries -> Requests]
    /\ \A d \in Deliveries :
          /\ delivery[d].at \in {"routing", "read_routes", "read_rules", "routed"} =>
                delivery[d].sid \in Sids /\ delivery[d].context \in Contexts
          /\ delivery[d].at = "routed" => delivery[d].decision \in Decisions
    /\ edits \in 0 .. MaxEdits
    /\ since \in [Deliveries -> [routes : SUBSET RouteRows, rules : SUBSET RuleRows,
                                agents : SUBSET Agents]]

\* "This file deduplicates Twilio inbound calls" (calls/inbound.py): however many
\* deliveries of a webhook are served at once, the call is recorded once and every
\* delivery that is answered connects the caller to that record, which is one of a
\* call to the number that was dialled and has an agent.  A delivery that loses the
\* race to insert has lost it to a record of its call, not to some other row.
InboundCallIsOne ==
    /\ \A c1, c2 \in calls : c1.sid = c2.sid => c1 = c2
    /\ \A d \in Deliveries :
          /\ delivery[d].at = "answered" =>
                \E c \in calls : /\ c.id = delivery[d].call
                                 /\ c.sid = delivery[d].sid
                                 /\ c.number = delivery[d].context.number
                                 /\ c.agent # NoAgent
          /\ delivery[d].at = "refused" => \E c \in calls : c.sid = delivery[d].sid

\* The request decides in this step.
Decides(d) == delivery[d].at = "read_rules" /\ delivery'[d].at # "failed"
              /\ delivery'[d] # delivery[d]

\* Every signal the row defines is the call's.
Serves(row, context) ==
    \A s \in Signals : row.signal[s] # Unset => row.signal[s] = context[s]

\* Rows whose agent has been selectable since the request began to route.
Standing(d, rows) == {r \in rows : r.agent \in since[d].agents}

\* Routing reads its tables one after the other while they change.  An exact
\* route that has stood all the while, its agent enabled all the while, wins
\* over every rule and over the fallback.
StandingRouteWins ==
    [][\A d \in Deliveries : Decides(d) =>
          \A r \in Standing(d, since[d].routes) :
              r.number = delivery[d].context.number =>
                  delivery'[d].decision = [agent |-> r.agent, reason |-> "exact_phone_number"]]_vars

\* Priority first, then the number of signals, of which there are three.
Weight(rule) == 4 * rule.priority + Cardinality({s \in Signals : rule.signal[s] # Unset})

\* A call that goes to an agent by a rule goes by one that no rule which has stood
\* all the while outranks, in priority first and then in the signals it defines.
StandingRuleIsNotOutranked ==
    [][\A d \in Deliveries :
          Decides(d) /\ delivery'[d].at = "routed"
                     /\ delivery'[d].decision.reason = "routing_rule" =>
              \E r \in rules :
                  /\ r.agent = delivery'[d].decision.agent
                  /\ Serves(r, delivery[d].context)
                  /\ \A q \in Standing(d, since[d].rules) :
                        Serves(q, delivery[d].context) => Weight(q) <= Weight(r)]_vars

\* A caller is turned away for want of a match only if nothing that could serve
\* the call has stood all the while: no route to its number, no rule it matches,
\* no fallback.
RejectionIsEarned ==
    [][\A d \in Deliveries : Decides(d) /\ delivery'[d].at = "no_match" =>
          /\ \A r \in Standing(d, since[d].routes) :
                r.number \notin {Unset, delivery[d].context.number}
          /\ \A r \in Standing(d, since[d].rules) : ~Serves(r, delivery[d].context)]_vars

================================================================================
