----------------------------- MODULE InboundProofs -----------------------------
(***************************************************************************)
(* Inbound calls and their routing, proved for every set of agents, routes *)
(* and rules and any number of deliveries.                                 *)
(***************************************************************************)
EXTENDS Inbound, FiniteSetTheorems, TLAPS

USE DEF Signals, Stages

-----------------------------------------------------------------------------
(* What Resolve returns *)

\* Routing finds an agent that may be selected, or says why it finds none.
LEMMA ResolveFindsOrRefuses ==
    ASSUME NEW context, NEW allRoutes, NEW allRules, NEW selectable \in SUBSET Agents
    PROVE  LET result == Resolve(context, allRoutes, allRules, selectable)
           IN  \/ result.agent \in selectable /\ result \in Decisions
               \/ result.agent = NoAgent /\ result.reason \in {"ambiguous", "no_match"}
<1> DEFINE serving  == Usable(allRoutes, selectable)
           ranked   == Usable(allRules, selectable)
           exact    == Exact(context, serving)
           matching == {r \in ranked : Matches(r, context)}
           best     == {r \in matching : \A q \in matching : ~Outranks(q, r)}
           fallback == Fallback(serving, ranked)
           first(rows, reason) == [agent |-> (CHOOSE r \in rows : TRUE).agent, reason |-> reason]
           result == Resolve(context, allRoutes, allRules, selectable)
<1>1. \A rows, reason : rows \subseteq serving \cup ranked /\ rows # {} =>
          first(rows, reason).agent \in selectable
  BY DEF Usable
<1>2. exact \subseteq serving /\ best \subseteq ranked /\ fallback \subseteq serving
  BY DEF Exact, Fallback
<1>3. \/ exact # {} /\ result = first(exact, "exact_phone_number")
      \/ best # {} /\ result = first(best, "routing_rule")
      \/ fallback # {} /\ result = first(fallback, "fallback")
      \/ result = [agent |-> NoAgent, reason |-> "ambiguous"]
      \/ result = [agent |-> NoAgent, reason |-> "no_match"]
  BY DEF Resolve
<1> HIDE DEF exact, best, fallback, serving, ranked, result
<1>4. \/ result.agent \in selectable /\ result \in Decisions
      \/ result.agent = NoAgent /\ result.reason \in {"ambiguous", "no_match"}
  BY <1>1, <1>2, <1>3 DEF Decisions
<1> QED
  BY <1>4 DEF result

-----------------------------------------------------------------------------
(* Type correctness *)

\* Every variable has its type at the start.
LEMMA TypeInit == Init => TypeOK
BY InboundAssumption DEF Init, TypeOK, Idle, Nothing, Requests

\* Every step keeps the types; one case for each action.
LEMMA TypeNext == TypeOK /\ [Next]_vars => TypeOK'
<1> SUFFICES ASSUME TypeOK, [Next]_vars PROVE TypeOK'
  OBVIOUS
<1> USE InboundAssumption
<1>1. ASSUME NEW a \in Agents, NEW state \in {"enabled", "disabled", "deleted"},
             EditAgent(a, state)
      PROVE  TypeOK'
  <2>1. since' \in [Deliveries -> [routes : SUBSET RouteRows, rules : SUBSET RuleRows,
                                 agents : SUBSET Agents]]
    <3>1. \A d \in Deliveries :
              [since[d] EXCEPT !.agents = @ \ {a}] \in
                  [routes : SUBSET RouteRows, rules : SUBSET RuleRows, agents : SUBSET Agents]
      BY DEF TypeOK
    <3> QED
      BY <1>1, <3>1 DEF EditAgent
  <2>2. edits' \in 0 .. MaxEdits
    BY <1>1 DEF EditAgent, TypeOK
  <2>3. agents' \in [Agents -> {"enabled", "disabled", "deleted"}]
    BY <1>1 DEF EditAgent, TypeOK
  <2> QED
    BY <1>1, <2>1, <2>2, <2>3 DEF EditAgent, TypeOK
<1>2. ASSUME NEW r \in RouteRows, CreatePhoneRoute(r) PROVE TypeOK'
  BY <1>2 DEF CreatePhoneRoute, TypeOK
<1>3. ASSUME NEW r \in RuleRows, CreateRule(r) PROVE TypeOK'
  BY <1>3 DEF CreateRule, TypeOK
<1>4. ASSUME NEW d \in Deliveries, NEW sid \in Sids, NEW context \in Contexts,
             ArrivesAgain(d, sid, context)
      PROVE  TypeOK'
  <2>1. PICK c \in calls : c.sid = sid /\ delivery' = [delivery EXCEPT ![d] =
            [Idle EXCEPT !.at = "answered", !.sid = sid, !.context = context, !.call = c.id]]
    BY <1>4 DEF ArrivesAgain, Existing
  <2>2. c.id \in Deliveries \cup {x.id : x \in Dialled}
    BY DEF TypeOK, Rows
  <2> QED
    BY <1>4, <2>1, <2>2 DEF ArrivesAgain, Idle, TypeOK, Requests
<1>5. ASSUME NEW d \in Deliveries, NEW sid \in Sids, NEW context \in Contexts,
             ArrivesMismatched(d, sid, context)
      PROVE  TypeOK'
  BY <1>5 DEF ArrivesMismatched, Ends, Idle, TypeOK, Requests
<1>6. ASSUME NEW d \in Deliveries, NEW sid \in Sids, NEW context \in Contexts,
             Arrives(d, sid, context)
      PROVE  TypeOK'
  BY <1>6 DEF Arrives, Selectable, Idle, TypeOK, Requests
<1>7. ASSUME NEW d \in Deliveries, ReadsRoutes(d) PROVE TypeOK'
  <2>1. delivery[d] \in Requests /\ routes \in SUBSET RouteRows
    BY DEF TypeOK
  <2>2. [delivery[d] EXCEPT !.at = "read_routes", !.routes = routes] \in Requests
    BY <2>1 DEF Requests
  <2> QED
    BY <1>7, <2>2 DEF ReadsRoutes, TypeOK
<1>8. ASSUME NEW d \in Deliveries, ReadsRules(d) PROVE TypeOK'
  <2>1. delivery[d] \in Requests /\ rules \in SUBSET RuleRows
    BY DEF TypeOK
  <2>2. [delivery[d] EXCEPT !.at = "read_rules", !.rules = rules] \in Requests
    BY <2>1 DEF Requests
  <2> QED
    BY <1>8, <2>2 DEF ReadsRules, TypeOK
<1>9. ASSUME NEW d \in Deliveries, Routed(d) PROVE TypeOK'
  <2>1. Decided(d) \in Decisions
    BY <1>9, ResolveFindsOrRefuses DEF Routed, Decided, Selectable
  <2>2. delivery'[d] \in Requests /\ delivery'[d].decision = Decided(d)
    BY <1>9, <2>1 DEF Routed, Holds, Idle, TypeOK, Requests, Decisions
  <2> QED
    BY <1>9, <2>1, <2>2 DEF Routed, Holds, Idle, Nothing, TypeOK
<1>10. ASSUME NEW d \in Deliveries, TurnedAway(d) PROVE TypeOK'
  <2>1. Decided(d).reason \in {"ambiguous", "no_match"}
    BY <1>10, ResolveFindsOrRefuses, RoutingAssumption DEF TurnedAway, Decided, Selectable
  <2> QED
    BY <1>10, <2>1 DEF TurnedAway, Ends, Idle, Nothing, TypeOK, Requests
<1>11. ASSUME NEW d \in Deliveries, Inserts(d) PROVE TypeOK'
  <2>1. /\ delivery[d].sid \in Sids /\ delivery[d].context \in Contexts
        /\ delivery[d].decision \in Decisions
    BY <1>11 DEF Inserts, TypeOK
  <2>2. Row(d) \in Rows
    BY <2>1 DEF Row, Rows, Decisions
  <2>3. [Idle EXCEPT !.at = "answered", !.sid = delivery[d].sid,
                     !.context = delivery[d].context, !.decision = Unset, !.call = d]
            \in Requests
    BY <2>1 DEF Idle, Requests
  <2>4. delivery' \in [Deliveries -> Requests] /\ delivery'[d].at = "answered"
    BY <1>11, <2>3 DEF Inserts, Holds, Idle, TypeOK
  <2>5. \A x \in Deliveries : x # d => delivery'[x] = delivery[x]
    BY <1>11 DEF Inserts, Holds, TypeOK
  <2> QED
    BY <1>11, <2>2, <2>4, <2>5 DEF Inserts, TypeOK
<1>12. ASSUME NEW d \in Deliveries, InsertRefused(d) PROVE TypeOK'
  BY <1>12 DEF InsertRefused, Holds, Idle, TypeOK, Requests
<1>13. ASSUME NEW d \in Deliveries, Fails(d) PROVE TypeOK'
  BY <1>13 DEF Fails, Ends, Idle, Nothing, TypeOK, Requests
<1>14. CASE UNCHANGED vars
  BY <1>14 DEF vars, TypeOK
<1> QED
  BY <1>1, <1>2, <1>3, <1>4, <1>5, <1>6, <1>7, <1>8, <1>9, <1>10, <1>11, <1>12, <1>13, <1>14
     DEF Next

\* What InboundService records and keeps in hand has its type in every state.
THEOREM TypeCorrect == Spec => []TypeOK
<1>1. Init => TypeOK
  BY TypeInit
<1>2. TypeOK /\ [Next]_vars => TypeOK'
  BY TypeNext
<1> QED
  BY <1>1, <1>2, PTL DEF Spec

-----------------------------------------------------------------------------
(* What a step does to calls and to the results of requests *)

\* A request is answered with a call that is there or that it inserts, refused
\* because of a call that is there, or has no result yet.
LEMMA Results ==
    ASSUME TypeOK, [Next]_vars
    PROVE  \/ /\ calls' = calls
              /\ \A d \in Deliveries : \/ delivery'[d] = delivery[d]
                                       \/ delivery'[d].at \notin {"answered", "refused"}
           \/ \E d \in Deliveries, result \in {"answered", "refused"} :
                 /\ \A x \in Deliveries \ {d} : delivery'[x] = delivery[x]
                 /\ delivery'[d].at = result
                 /\ \E c \in calls' :
                       /\ c.sid = delivery'[d].sid
                       /\ result = "answered" =>
                             /\ delivery'[d].call = c.id
                             /\ c.number = delivery'[d].context.number
                             /\ c.agent # NoAgent
                       /\ calls' = calls \/ (calls' = calls \cup {c} /\ Existing(c.sid) = {})
<1>1. ASSUME NEW a \in Agents, NEW state \in {"enabled", "disabled", "deleted"},
             EditAgent(a, state)
      PROVE  calls' = calls /\ delivery' = delivery
  BY <1>1 DEF EditAgent
<1>2. ASSUME NEW r \in RouteRows, CreatePhoneRoute(r)
      PROVE  calls' = calls /\ delivery' = delivery
  BY <1>2 DEF CreatePhoneRoute
<1>3. ASSUME NEW r \in RuleRows, CreateRule(r)
      PROVE  calls' = calls /\ delivery' = delivery
  BY <1>3 DEF CreateRule
<1>4. ASSUME NEW d \in Deliveries, NEW sid \in Sids, NEW context \in Contexts,
             ArrivesAgain(d, sid, context)
      PROVE  /\ calls' = calls
             /\ \A x \in Deliveries \ {d} : delivery'[x] = delivery[x]
             /\ delivery'[d].at = "answered"
             /\ \E c \in calls : /\ c.sid = delivery'[d].sid
                                 /\ delivery'[d].call = c.id
                                 /\ c.number = delivery'[d].context.number
                                 /\ c.agent # NoAgent
  BY <1>4 DEF ArrivesAgain, Existing, SameCall, Idle, TypeOK
<1>5. ASSUME NEW d \in Deliveries,
             \/ \E sid \in Sids, context \in Contexts :
                   ArrivesMismatched(d, sid, context) \/ Arrives(d, sid, context)
             \/ ReadsRoutes(d) \/ ReadsRules(d)
             \/ Routed(d) \/ TurnedAway(d) \/ Fails(d)
      PROVE  /\ calls' = calls
             /\ \A x \in Deliveries \ {d} : delivery'[x] = delivery[x]
             /\ delivery'[d].at \notin {"answered", "refused"}
  <2>1. CASE TurnedAway(d)
    <3>1. Decided(d).reason \in {"ambiguous", "no_match"}
      BY <2>1, ResolveFindsOrRefuses, RoutingAssumption DEF TurnedAway, Decided, Selectable
    <3> QED
      BY <2>1, <3>1 DEF TurnedAway, Ends, Idle, TypeOK
  <2>2. CASE ReadsRoutes(d)
    <3>1. delivery[d] \in Requests
      BY DEF TypeOK
    <3>2. /\ delivery'[d] = [delivery[d] EXCEPT !.at = "read_routes", !.routes = routes]
          /\ \A x \in Deliveries \ {d} : delivery'[x] = delivery[x]
          /\ calls' = calls
      BY <2>2 DEF ReadsRoutes, TypeOK
    <3> QED
      BY <3>1, <3>2 DEF Requests
  <2>3. CASE ReadsRules(d)
    <3>1. delivery[d] \in Requests
      BY DEF TypeOK
    <3>2. /\ delivery'[d] = [delivery[d] EXCEPT !.at = "read_rules", !.rules = rules]
          /\ \A x \in Deliveries \ {d} : delivery'[x] = delivery[x]
          /\ calls' = calls
      BY <2>3 DEF ReadsRules, TypeOK
    <3> QED
      BY <3>1, <3>2 DEF Requests
  <2>4. CASE \E sid \in Sids, context \in Contexts :
                ArrivesMismatched(d, sid, context) \/ Arrives(d, sid, context)
    <3>1. CASE \E sid \in Sids, context \in Contexts : ArrivesMismatched(d, sid, context)
      BY <3>1 DEF ArrivesMismatched, Ends, Idle, TypeOK
    <3>2. CASE \E sid \in Sids, context \in Contexts : Arrives(d, sid, context)
      BY <3>2 DEF Arrives, Idle, TypeOK
    <3> QED
      BY <2>4, <3>1, <3>2
  <2>5. CASE Routed(d) \/ Fails(d)
    <3>1. CASE Routed(d)
      BY <3>1 DEF Routed, Holds, Idle, TypeOK
    <3>2. CASE Fails(d)
      BY <3>2 DEF Fails, Ends, Idle, TypeOK
    <3> QED
      BY <2>5, <3>1, <3>2
  <2> QED
    BY <1>5, <2>1, <2>2, <2>3, <2>4, <2>5
<1>6. ASSUME NEW d \in Deliveries, Inserts(d)
      PROVE  /\ \A x \in Deliveries \ {d} : delivery'[x] = delivery[x]
             /\ delivery'[d].at = "answered"
             /\ Row(d) \in calls'
             /\ Row(d).sid = delivery'[d].sid
             /\ delivery'[d].call = Row(d).id
             /\ Row(d).number = delivery'[d].context.number
             /\ Row(d).agent # NoAgent
             /\ calls' = calls \cup {Row(d)}
             /\ Existing(Row(d).sid) = {}
  <2>1. delivery[d].decision.agent # NoAgent
    BY <1>6, RoutingAssumption DEF Inserts, TypeOK, Decisions
  <2> QED
    BY <1>6, <2>1 DEF Inserts, Insertable, Row, Holds, Idle, TypeOK
<1>7. ASSUME NEW d \in Deliveries, InsertRefused(d)
      PROVE  /\ calls' = calls
             /\ \A x \in Deliveries \ {d} : delivery'[x] = delivery[x]
             /\ delivery'[d].at = "refused"
             /\ \E c \in calls : c.sid = delivery'[d].sid
  BY <1>7 DEF InsertRefused, Insertable, Existing, Holds, Idle, TypeOK
<1>8. CASE UNCHANGED vars
  BY <1>8 DEF vars
<1> QED
  BY <1>1, <1>2, <1>3, <1>4, <1>5, <1>6, <1>7, <1>8 DEF Next

-----------------------------------------------------------------------------
(* One call per provider id *)

\* No call is recorded at the start, and no delivery has a result.
LEMMA CallsInit == Init => InboundCallIsOne
BY InboundAssumption DEF Init, Idle, InboundCallIsOne

\* Calls are only added, so what backs a result stays; a step that adds one has
\* found none with its provider id.
LEMMA CallsNext == TypeOK /\ InboundCallIsOne /\ [Next]_vars => InboundCallIsOne'
<1> SUFFICES ASSUME TypeOK, InboundCallIsOne, [Next]_vars PROVE InboundCallIsOne'
  OBVIOUS
<1>1. \/ /\ calls' = calls
         /\ \A d \in Deliveries : \/ delivery'[d] = delivery[d]
                                  \/ delivery'[d].at \notin {"answered", "refused"}
      \/ \E d \in Deliveries, result \in {"answered", "refused"} :
            /\ \A x \in Deliveries \ {d} : delivery'[x] = delivery[x]
            /\ delivery'[d].at = result
            /\ \E c \in calls' :
                  /\ c.sid = delivery'[d].sid
                  /\ result = "answered" =>
                        /\ delivery'[d].call = c.id
                        /\ c.number = delivery'[d].context.number
                        /\ c.agent # NoAgent
                  /\ calls' = calls \/ (calls' = calls \cup {c} /\ Existing(c.sid) = {})
  BY Results
<1>2. /\ calls \subseteq calls'
      /\ \A c1, c2 \in calls' : c1.sid = c2.sid => c1 = c2
  BY <1>1 DEF InboundCallIsOne, Existing
<1>3. ASSUME NEW d \in Deliveries, delivery'[d].at = "answered"
      PROVE  \E c \in calls' : /\ c.id = delivery'[d].call
                               /\ c.sid = delivery'[d].sid
                               /\ c.number = delivery'[d].context.number
                               /\ c.agent # NoAgent
  BY <1>1, <1>2, <1>3 DEF InboundCallIsOne
<1>4. ASSUME NEW d \in Deliveries, delivery'[d].at = "refused"
      PROVE  \E c \in calls' : c.sid = delivery'[d].sid
  BY <1>1, <1>2, <1>4 DEF InboundCallIsOne
<1> QED
  BY <1>2, <1>3, <1>4 DEF InboundCallIsOne

\* However many deliveries of webhooks are served at once and whatever else is
\* going on, an inbound call is recorded once, every answer names its record, and
\* a refused insertion has lost to a record of the same call.
THEOREM InboundCallIsAlwaysOne == Spec => []InboundCallIsOne
<1>1. Init => InboundCallIsOne
  BY CallsInit
<1>2. TypeOK /\ InboundCallIsOne /\ [Next]_vars => InboundCallIsOne'
  BY CallsNext
<1>3. Spec => []TypeOK
  BY TypeCorrect
<1> QED
  BY <1>1, <1>2, <1>3, PTL DEF Spec

-----------------------------------------------------------------------------
(* What has stood while routing read *)

\* What stood when a request began to route is among what it has read, and that
\* is among what stands; two routes never have one number.
StandingOK ==
    /\ \A r, q \in routes : r.number = q.number => r = q
    /\ \A d \in Deliveries :
          /\ delivery[d].at \in {"routing", "read_routes", "read_rules"} =>
                /\ since[d].routes \subseteq routes
                /\ since[d].rules \subseteq rules
                /\ since[d].agents \subseteq Selectable
          /\ delivery[d].at \in {"read_routes", "read_rules"} =>
                /\ since[d].routes \subseteq delivery[d].routes
                /\ delivery[d].routes \subseteq routes
          /\ delivery[d].at = "read_rules" =>
                /\ since[d].rules \subseteq delivery[d].rules
                /\ delivery[d].rules \subseteq rules

\* No request is routed at the start.
LEMMA StandingInit == Init => StandingOK
BY DEF Init, Idle, Nothing, StandingOK

\* Every step keeps the invariant of the standing rows: what stood when a request
\* began is among what it has read, or is still to be read.
LEMMA StandingNext == TypeOK /\ StandingOK /\ [Next]_vars => StandingOK'
<1> SUFFICES ASSUME TypeOK, StandingOK, [Next]_vars PROVE StandingOK'
  OBVIOUS
<1>1. ASSUME NEW a \in Agents, NEW state \in {"enabled", "disabled", "deleted"},
             EditAgent(a, state)
      PROVE  StandingOK'
  <2>1. \A x \in Agents \ {a} : agents'[x] = agents[x]
    BY <1>1 DEF EditAgent, TypeOK
  <2>2. \A d \in Deliveries : /\ since'[d].agents = since[d].agents \ {a}
                              /\ since'[d].routes = since[d].routes
                              /\ since'[d].rules = since[d].rules
    BY <1>1 DEF EditAgent, TypeOK
  <2> QED
    BY <1>1, <2>1, <2>2 DEF EditAgent, StandingOK, Selectable
<1>2. ASSUME NEW r \in RouteRows, CreatePhoneRoute(r) PROVE StandingOK'
  BY <1>2 DEF CreatePhoneRoute, StandingOK, Selectable
<1>3. ASSUME NEW r \in RuleRows, CreateRule(r) PROVE StandingOK'
  BY <1>3 DEF CreateRule, StandingOK, Selectable
<1>4. ASSUME NEW d \in Deliveries, NEW sid \in Sids, NEW context \in Contexts,
             \/ ArrivesAgain(d, sid, context)
             \/ ArrivesMismatched(d, sid, context)
      PROVE  StandingOK'
  <2>1. /\ \A x \in Deliveries \ {d} : delivery'[x] = delivery[x]
        /\ delivery'[d].at \in {"answered", "mismatched"}
    BY <1>4 DEF ArrivesAgain, ArrivesMismatched, Ends, Idle, TypeOK
  <2> QED
    BY <1>4, <2>1 DEF ArrivesAgain, ArrivesMismatched, StandingOK, Selectable
<1>5. ASSUME NEW d \in Deliveries, NEW sid \in Sids, NEW context \in Contexts,
             Arrives(d, sid, context)
      PROVE  StandingOK'
  <2>1. /\ \A x \in Deliveries \ {d} : delivery'[x] = delivery[x] /\ since'[x] = since[x]
        /\ delivery'[d].at = "routing"
        /\ since'[d] = [routes |-> routes, rules |-> rules, agents |-> Selectable]
    BY <1>5 DEF Arrives, Idle, TypeOK
  <2> QED
    BY <1>5, <2>1 DEF Arrives, StandingOK, Selectable
<1>6. ASSUME NEW d \in Deliveries, ReadsRoutes(d) PROVE StandingOK'
  <2>1. delivery[d] \in Requests
    BY DEF TypeOK
  <2>2. /\ \A x \in Deliveries \ {d} : delivery'[x] = delivery[x]
        /\ delivery'[d] = [delivery[d] EXCEPT !.at = "read_routes", !.routes = routes]
    BY <1>6 DEF ReadsRoutes, TypeOK
  <2>3. delivery'[d].at = "read_routes" /\ delivery'[d].routes = routes
    BY <2>1, <2>2 DEF Requests
  <2> QED
    BY <1>6, <2>2, <2>3 DEF ReadsRoutes, StandingOK, Selectable
<1>7. ASSUME NEW d \in Deliveries, ReadsRules(d) PROVE StandingOK'
  <2>1. delivery[d] \in Requests
    BY DEF TypeOK
  <2>2. /\ \A x \in Deliveries \ {d} : delivery'[x] = delivery[x]
        /\ delivery'[d] = [delivery[d] EXCEPT !.at = "read_rules", !.rules = rules]
    BY <1>7 DEF ReadsRules, TypeOK
  <2>3. /\ delivery'[d].at = "read_rules"
        /\ delivery'[d].routes = delivery[d].routes
        /\ delivery'[d].rules = rules
    BY <2>1, <2>2 DEF Requests
  <2>4. UNCHANGED <<agents, routes, rules, since>> /\ delivery[d].at = "read_routes"
    BY <1>7 DEF ReadsRules
  <2> QED
    BY <2>2, <2>3, <2>4 DEF StandingOK, Selectable
<1>8. ASSUME NEW d \in Deliveries, Routed(d) \/ TurnedAway(d) \/ Fails(d) PROVE StandingOK'
  <2>1. /\ \A x \in Deliveries \ {d} : delivery'[x] = delivery[x] /\ since'[x] = since[x]
        /\ since'[d] = Nothing
        /\ UNCHANGED <<agents, routes, rules>>
    BY <1>8 DEF Routed, TurnedAway, Fails, Ends, Holds, TypeOK
  <2>2. delivery'[d].at \notin {"routing", "read_routes", "read_rules"}
    <3>1. CASE Routed(d)
      BY <3>1 DEF Routed, Holds, Idle, TypeOK
    <3>2. CASE TurnedAway(d)
      <4>1. Decided(d).reason \in {"ambiguous", "no_match"}
        BY <3>2, ResolveFindsOrRefuses, RoutingAssumption DEF TurnedAway, Decided, Selectable
      <4> QED
        BY <3>2, <4>1 DEF TurnedAway, Ends, Idle, TypeOK
    <3>3. CASE Fails(d)
      BY <3>3 DEF Fails, Ends, Idle, TypeOK
    <3> QED
      BY <1>8, <3>1, <3>2, <3>3
  <2> QED
    BY <2>1, <2>2 DEF StandingOK, Selectable
<1>9. ASSUME NEW d \in Deliveries, Inserts(d) \/ InsertRefused(d) PROVE StandingOK'
  <2>1. /\ \A x \in Deliveries \ {d} : delivery'[x] = delivery[x]
        /\ delivery'[d].at \in {"answered", "refused"}
        /\ UNCHANGED <<agents, routes, rules, since>>
    BY <1>9 DEF Inserts, InsertRefused, Holds, Idle, TypeOK
  <2> QED
    BY <2>1 DEF StandingOK, Selectable
<1>10. CASE UNCHANGED vars
  BY <1>10 DEF vars, StandingOK, Selectable
<1> QED
  BY <1>1, <1>2, <1>3, <1>4, <1>5, <1>6, <1>7, <1>8, <1>9, <1>10 DEF Next

\* What stood when a request began to route is always among what it has read or will
\* read (RoutingService.resolve and its three SELECTs).
THEOREM StandingCorrect == Spec => []StandingOK
<1>1. Init => StandingOK
  BY StandingInit
<1>2. TypeOK /\ StandingOK /\ [Next]_vars => StandingOK'
  BY StandingNext
<1>3. Spec => []TypeOK
  BY TypeCorrect
<1> QED
  BY <1>1, <1>2, <1>3, PTL DEF Spec

\* Only the end of resolve decides.
LEMMA DecidesByRouting ==
    ASSUME TypeOK, [Next]_vars, NEW d \in Deliveries, Decides(d)
    PROVE  Routed(d) \/ TurnedAway(d)
<1>1. delivery[d].at = "read_rules" /\ delivery'[d] # delivery[d] /\ delivery'[d].at # "failed"
  BY DEF Decides
<1>2. delivery[d] # Idle
  BY <1>1 DEF Idle
<1>3. \A a, state : ~EditAgent(a, state)
  BY <1>1 DEF EditAgent
<1>4. \A r : ~CreatePhoneRoute(r) /\ ~CreateRule(r)
  BY <1>1 DEF CreatePhoneRoute, CreateRule
<1>5. ~UNCHANGED vars
  BY <1>1 DEF vars
<1>6. ASSUME NEW x \in Deliveries, NEW sid \in Sids, NEW context \in Contexts
      PROVE  /\ ~ArrivesAgain(x, sid, context)
             /\ ~ArrivesMismatched(x, sid, context)
             /\ ~Arrives(x, sid, context)
  BY <1>1, <1>2 DEF ArrivesAgain, ArrivesMismatched, Arrives, Ends, TypeOK
<1>7. ASSUME NEW x \in Deliveries
      PROVE  /\ ~ReadsRoutes(x) /\ ~ReadsRules(x)
             /\ ~Inserts(x) /\ ~InsertRefused(x) /\ ~Fails(x)
  BY <1>1 DEF ReadsRoutes, ReadsRules, Inserts, InsertRefused, Fails, Ends, Holds, Idle, TypeOK
<1>8. ASSUME NEW x \in Deliveries, Routed(x) \/ TurnedAway(x) PROVE x = d
  BY <1>1, <1>8 DEF Routed, TurnedAway, Ends, Holds, TypeOK
<1> QED
  BY <1>3, <1>4, <1>5, <1>6, <1>7, <1>8 DEF Next

\* The step that decides follows a standing exact route.
LEMMA StandingRouteStep ==
    ASSUME TypeOK, StandingOK, [Next]_vars,
           NEW d \in Deliveries, Decides(d),
           NEW r \in Standing(d, since[d].routes),
           r.number = delivery[d].context.number
    PROVE  delivery'[d].decision = [agent |-> r.agent, reason |-> "exact_phone_number"]
<1> DEFINE exact == Exact(delivery[d].context, Usable(delivery[d].routes, Selectable))
<1>1. delivery[d].at = "read_rules"
  BY DEF Decides
<1>2. /\ r \in delivery[d].routes /\ delivery[d].routes \subseteq routes
      /\ r.agent \in Selectable
  BY <1>1 DEF StandingOK, Standing
<1>3. exact = {r}
  BY <1>2 DEF Exact, Usable, StandingOK
<1>4. Decided(d) = [agent |-> r.agent, reason |-> "exact_phone_number"]
  <2>1. (CHOOSE q \in exact : TRUE) = r
    BY <1>3
  <2> QED
    BY <1>3, <2>1 DEF Decided, Resolve
<1>5. Decided(d).agent # NoAgent
  BY <1>2, <1>4, RoutingAssumption DEF Selectable
<1>6. Routed(d)
  BY <1>5, DecidesByRouting DEF TurnedAway
<1> QED
  BY <1>4, <1>6 DEF Routed, Holds, Idle, TypeOK

\* Whatever operators change while routing reads its tables, an exact route that
\* has stood with its agent enabled since the request began wins.
THEOREM StandingRouteAlwaysWins == Spec => StandingRouteWins
<1>1. TypeOK /\ StandingOK /\ [Next]_vars =>
          [\A d \in Deliveries : Decides(d) =>
              \A r \in Standing(d, since[d].routes) :
                  r.number = delivery[d].context.number =>
                      delivery'[d].decision =
                          [agent |-> r.agent, reason |-> "exact_phone_number"]]_vars
  BY StandingRouteStep
<1> QED
  BY <1>1, TypeCorrect, StandingCorrect, PTL DEF Spec, StandingRouteWins

-----------------------------------------------------------------------------
(* Ranks of rules *)

\* A rule defines three signals at most.
LEMMA SpecificityIsSmall ==
    ASSUME NEW rule
    PROVE  Specificity(rule) \in 0 .. 3
<1> DEFINE defined == {s \in Signals : rule.signal[s] # Unset}
<1>1. IsFiniteSet(Signals) /\ Cardinality(Signals) <= 3
  <2>1. IsFiniteSet({}) /\ Cardinality({}) = 0
    BY FS_EmptySet
  <2>2. IsFiniteSet({"number"}) /\ Cardinality({"number"}) = 1
    BY FS_Singleton
  <2>3. /\ IsFiniteSet({"number"} \cup {"language"})
        /\ Cardinality({"number"} \cup {"language"}) \in 1 .. 2
    BY <2>2, FS_AddElement
  <2>4. /\ IsFiniteSet(({"number"} \cup {"language"}) \cup {"category"})
        /\ Cardinality(({"number"} \cup {"language"}) \cup {"category"}) \in 1 .. 3
    BY <2>3, FS_AddElement
  <2>5. Signals = ({"number"} \cup {"language"}) \cup {"category"}
    OBVIOUS
  <2> QED
    BY <2>4, <2>5
<1>2. IsFiniteSet(defined) /\ Cardinality(defined) <= Cardinality(Signals)
  BY <1>1, FS_Subset
<1>3. Cardinality(defined) \in Nat /\ Cardinality(Signals) \in Nat
  BY <1>1, <1>2, FS_CardinalityType
<1> QED
  BY <1>1, <1>2, <1>3 DEF Specificity

\* The weight of a rule orders rules as Outranks does.
LEMMA WeightOrders ==
    ASSUME NEW q \in RuleRows, NEW r \in RuleRows, ~Outranks(q, r)
    PROVE  Weight(q) <= Weight(r)
<1>1. q.priority \in Int /\ r.priority \in Int
  BY InboundAssumption
<1>2. Specificity(q) \in 0 .. 3 /\ Specificity(r) \in 0 .. 3
  BY SpecificityIsSmall
<1>3. /\ Weight(q) = 4 * q.priority + Specificity(q)
      /\ Weight(r) = 4 * r.priority + Specificity(r)
  BY DEF Weight, Specificity
<1> QED
  BY <1>1, <1>2, <1>3 DEF Outranks

\* The step that decides by a rule finds one no standing rule outranks.
LEMMA StandingRuleStep ==
    ASSUME TypeOK, StandingOK, [Next]_vars,
           NEW d \in Deliveries, Decides(d),
           delivery'[d].at = "routed", delivery'[d].decision.reason = "routing_rule"
    PROVE  \E r \in rules :
              /\ r.agent = delivery'[d].decision.agent
              /\ Serves(r, delivery[d].context)
              /\ \A q \in Standing(d, since[d].rules) :
                    Serves(q, delivery[d].context) => Weight(q) <= Weight(r)
<1> DEFINE context  == delivery[d].context
           found    == Usable(delivery[d].rules, Selectable)
           matching == {r \in found : Matches(r, context)}
           best     == {r \in matching : \A q \in matching : ~Outranks(q, r)}
           chosen   == CHOOSE r \in best : TRUE
<1>1. /\ delivery[d].at = "read_rules"
      /\ since[d].rules \subseteq delivery[d].rules
      /\ delivery[d].rules \subseteq rules /\ rules \subseteq RuleRows
      /\ since[d].agents \subseteq Selectable
  BY DEF Decides, StandingOK, TypeOK
<1>2. \A r : Serves(r, context) <=> Matches(r, context)
  BY DEF Serves, Matches
<1>3. Routed(d)
  <2>1. CASE TurnedAway(d)
    <3>1. Decided(d).reason \in {"ambiguous", "no_match"}
      BY <2>1, ResolveFindsOrRefuses, RoutingAssumption DEF TurnedAway, Decided, Selectable
    <3> QED
      BY <2>1, <3>1 DEF TurnedAway, Ends, Idle, TypeOK
  <2> QED
    BY <2>1, DecidesByRouting
<1>4. delivery'[d].decision = Decided(d)
  BY <1>3 DEF Routed, Holds, Idle, TypeOK
<1>5. best # {} /\ Decided(d).agent = chosen.agent
  <2>1. Decided(d).reason = "routing_rule"
    BY <1>4
  <2> QED
    BY <2>1 DEF Decided, Resolve
<1>6. chosen \in best
  BY <1>5
<1> HIDE DEF chosen
<1>7. chosen \in rules /\ chosen \in RuleRows /\ Serves(chosen, context)
  BY <1>1, <1>2, <1>6 DEF Usable
<1>8. ASSUME NEW q \in Standing(d, since[d].rules), Serves(q, context)
      PROVE  Weight(q) <= Weight(chosen)
  <2>1. q \in matching /\ q \in RuleRows
    BY <1>1, <1>2, <1>8 DEF Standing, Usable
  <2>2. ~Outranks(q, chosen)
    BY <1>6, <2>1
  <2> QED
    BY <1>7, <2>1, <2>2, WeightOrders
<1> QED
  BY <1>4, <1>5, <1>7, <1>8

\* A call that goes by a rule goes by one that no rule outranks which has stood
\* all the while, whatever was created, disabled or deleted meanwhile.
THEOREM StandingRuleIsNeverOutranked == Spec => StandingRuleIsNotOutranked
<1>1. TypeOK /\ StandingOK /\ [Next]_vars =>
          [\A d \in Deliveries :
              Decides(d) /\ delivery'[d].at = "routed"
                         /\ delivery'[d].decision.reason = "routing_rule" =>
                  \E r \in rules :
                      /\ r.agent = delivery'[d].decision.agent
                      /\ Serves(r, delivery[d].context)
                      /\ \A q \in Standing(d, since[d].rules) :
                            Serves(q, delivery[d].context) => Weight(q) <= Weight(r)]_vars
  BY StandingRuleStep
<1> QED
  BY <1>1, TypeCorrect, StandingCorrect, PTL DEF Spec, StandingRuleIsNotOutranked

-----------------------------------------------------------------------------
(* Who is turned away *)

\* A rule does not outrank itself, and what outranks a rule outranks all that it
\* outranks.
LEMMA OutranksIsAnOrder ==
    /\ \A r \in RuleRows : ~Outranks(r, r)
    /\ \A p, q, r \in RuleRows : Outranks(p, q) /\ Outranks(q, r) => Outranks(p, r)
<1>1. \A r \in RuleRows : r.priority \in Int /\ Specificity(r) \in 0 .. 3
  BY InboundAssumption, SpecificityIsSmall
<1> QED
  BY <1>1 DEF Outranks

\* Of finitely many rules one is outranked by none: the rules that outrank it are as
\* few as can be.
LEMMA BestRuleExists ==
    ASSUME NEW some \in SUBSET RuleRows, IsFiniteSet(some), some # {}
    PROVE  \E r \in some : \A q \in some : ~Outranks(q, r)
<1> DEFINE above(r) == {q \in some : Outranks(q, r)}
           all == {above(r) : r \in some}
<1>1. all \subseteq FiniteSubsetsOf(some) /\ all # {}
  <2>1. \A fewer \in SUBSET some : IsFiniteSet(fewer)
    BY FS_Subset
  <2>2. \A r \in some : above(r) \in SUBSET some
    OBVIOUS
  <2>3. \A r \in some : above(r) \in FiniteSubsetsOf(some)
    BY <2>1, <2>2 DEF FiniteSubsetsOf
  <2> QED
    BY <2>3
<1>2. IsWellFoundedOn(StrictSubsetOrdering(some), FiniteSubsetsOf(some))
  BY FS_StrictSubsetOrderingWellFounded
<1>3. PICK few \in all : \A fewer \in all : ~(<<fewer, few>> \in StrictSubsetOrdering(some))
  <2> HIDE DEF all
  <2> QED
    BY <1>1, <1>2, WFMin
<1>4. PICK r \in some : few = above(r)
  BY <1>3
<1>5. ASSUME NEW q \in some, Outranks(q, r) PROVE FALSE
  <2>1. above(q) \subseteq above(r) /\ q \in above(r) /\ q \notin above(q)
    BY <1>5, OutranksIsAnOrder
  <2>2. <<above(q), above(r)>> \in StrictSubsetOrdering(some)
    BY <2>1 DEF StrictSubsetOrdering
  <2> QED
    BY <1>3, <1>4, <2>2
<1> QED
  BY <1>4, <1>5

FinitelyManyRules == IsFiniteSet(rules)

\* The rules are created one at a time.
LEMMA RulesStayFinite == FinitelyManyRules /\ [Next]_vars => FinitelyManyRules'
<1> SUFFICES ASSUME FinitelyManyRules, [Next]_vars PROVE FinitelyManyRules'
  OBVIOUS
<1>1. ASSUME NEW r \in RuleRows, CreateRule(r) PROVE FinitelyManyRules'
  BY <1>1, FS_AddElement DEF CreateRule, FinitelyManyRules
<1>2. CASE rules' = rules
  BY <1>2 DEF FinitelyManyRules
<1>3. rules' = rules \/ \E r \in RuleRows : CreateRule(r)
  BY DEF Next, vars, EditAgent, CreatePhoneRoute, ArrivesAgain, ArrivesMismatched, Arrives,
         ReadsRoutes, ReadsRules, Routed, TurnedAway, Inserts, InsertRefused, Fails
<1> QED
  BY <1>1, <1>2, <1>3

\* The step that turns a caller away for want of a match has read no row that serves.
LEMMA RejectionStep ==
    ASSUME TypeOK, StandingOK, FinitelyManyRules, [Next]_vars,
           NEW d \in Deliveries, Decides(d), delivery'[d].at = "no_match"
    PROVE  /\ \A r \in Standing(d, since[d].routes) :
                 r.number \notin {Unset, delivery[d].context.number}
           /\ \A r \in Standing(d, since[d].rules) : ~Serves(r, delivery[d].context)
<1> DEFINE context  == delivery[d].context
           serving  == Usable(delivery[d].routes, Selectable)
           found    == Usable(delivery[d].rules, Selectable)
           matching == {r \in found : Matches(r, context)}
           best     == {r \in matching : \A q \in matching : ~Outranks(q, r)}
<1>1. /\ delivery[d].at = "read_rules"
      /\ since[d].routes \subseteq delivery[d].routes
      /\ since[d].rules \subseteq delivery[d].rules
      /\ delivery[d].rules \subseteq rules /\ rules \subseteq RuleRows
      /\ since[d].agents \subseteq Selectable
  BY DEF Decides, StandingOK, TypeOK
<1>2. TurnedAway(d)
  <2>1. ASSUME Routed(d) PROVE FALSE
    BY <2>1 DEF Routed, Holds, Idle, TypeOK
  <2> QED
    BY <2>1, DecidesByRouting
<1>3. Decided(d).reason = "no_match"
  BY <1>2 DEF TurnedAway, Ends, Idle, TypeOK
<1>4. Exact(context, serving) = {} /\ best = {} /\ Fallback(serving, found) = {}
  BY <1>3 DEF Decided, Resolve
<1>5. matching = {}
  <2>1. matching \in SUBSET RuleRows /\ matching \in SUBSET rules
    BY <1>1 DEF Usable
  <2>2. IsFiniteSet(matching)
    BY <2>1, FS_Subset DEF FinitelyManyRules
  <2> QED
    BY <1>4, <2>1, <2>2, BestRuleExists
<1>6. ASSUME NEW r \in Standing(d, since[d].routes)
      PROVE  r.number \notin {Unset, context.number}
  BY <1>1, <1>4, <1>6 DEF Standing, Usable, Exact, Fallback
<1>7. ASSUME NEW r \in Standing(d, since[d].rules) PROVE ~Serves(r, context)
  BY <1>1, <1>5, <1>7 DEF Standing, Usable, Serves, Matches
<1> QED
  BY <1>6, <1>7

\* A caller is turned away for want of a match only if no route to its number, no
\* rule it matches and no fallback has stood all the while with its agent enabled
\* (RoutingService.resolve raising RoutingNoMatchError).
THEOREM RejectionIsAlwaysEarned == Spec => RejectionIsEarned
<1>1. TypeOK /\ StandingOK /\ FinitelyManyRules /\ [Next]_vars =>
          [\A d \in Deliveries : Decides(d) /\ delivery'[d].at = "no_match" =>
              /\ \A r \in Standing(d, since[d].routes) :
                    r.number \notin {Unset, delivery[d].context.number}
              /\ \A r \in Standing(d, since[d].rules) :
                    ~Serves(r, delivery[d].context)]_vars
  BY RejectionStep
<1>2. Init => FinitelyManyRules
  BY FS_EmptySet DEF Init, FinitelyManyRules
<1>3. FinitelyManyRules /\ [Next]_vars => FinitelyManyRules'
  BY RulesStayFinite
<1> QED
  BY <1>1, <1>2, <1>3, TypeCorrect, StandingCorrect, PTL DEF Spec, RejectionIsEarned

================================================================================
