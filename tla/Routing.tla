-------------------------------- MODULE Routing --------------------------------
(***************************************************************************)
(* Which agent answers an inbound call: agents/routing.py.                 *)
(*                                                                         *)
(* A signal of a call or of a rule is a value, compared as the code        *)
(* compares it (languages and categories without regard to case), or Unset   *)
(* where the code has None.  A row of either table that is not enabled is  *)
(* never looked at (RoutingRepository.candidates) and is left out.         *)
(***************************************************************************)
EXTENDS Integers, FiniteSets

CONSTANTS
    Agents,    \* agent ids
    NoAgent,   \* routing raised: no agent
    Unset        \* a signal that is None

ASSUME RoutingAssumption == NoAgent \notin Agents

Signals == {"number", "language", "category"}

\* _rule_matches: a signal the rule does not define matches every call; one it
\* defines does not match a call without it.
Matches(rule, context) == \A s \in Signals : rule.signal[s] \in {Unset, context[s]}

Specificity(rule) == Cardinality({s \in Signals : rule.signal[s] # Unset})

\* Mutant: specificity is compared before priority.
OutranksBySpecificity(r, q) ==
    \/ Specificity(r) > Specificity(q)
    \/ Specificity(r) = Specificity(q) /\ r.priority > q.priority

\* The order of (priority, _specificity(rule)).
Outranks(r, q) ==
    \/ r.priority > q.priority
    \/ r.priority = q.priority /\ Specificity(r) > Specificity(q)

\* Mutant: the fallback route counts as an exact one.
ExactOrFallback(context, routes) == {r \in routes : r.number \in {Unset, context.number}}

Exact(context, routes) == {r \in routes : r.number = context.number}

\* Mutant: the fallback is for callers no rule could serve.
FallbackWithoutRules(routes, rules) == {r \in routes : r.number = Unset /\ rules = {}}

Fallback(routes, rules) == {r \in routes : r.number = Unset}

Usable(rows, selectable) == {r \in rows : r.agent \in selectable}

\* RoutingService.resolve, with the rows and the agents it has read: the agent
\* and the reason.  The tables hold at most one route for a number and at most
\* one without (migration 003).
Resolve(context, allRoutes, allRules, selectable) ==
    LET routes   == Usable(allRoutes, selectable)
        rules    == Usable(allRules, selectable)
        exact    == Exact(context, routes)
        matching == {r \in rules : Matches(r, context)}
        best     == {r \in matching : \A q \in matching : ~Outranks(q, r)}
        fallback == Fallback(routes, rules)
        first(rows, reason) == [agent |-> (CHOOSE r \in rows : TRUE).agent, reason |-> reason]
    IN  IF exact # {} THEN first(exact, "exact_phone_number")
        ELSE IF Cardinality({r.agent : r \in best}) > 1
             THEN [agent |-> NoAgent, reason |-> "ambiguous"]
        ELSE IF best # {} THEN first(best, "routing_rule")
        ELSE IF fallback # {} THEN first(fallback, "fallback")
        ELSE [agent |-> NoAgent, reason |-> "no_match"]

================================================================================
