\* Inbound webhooks while operators change agents, routes and rules.
SPECIFICATION Spec
CONSTANTS
    Agents = {"a1", "a2"}
    NoAgent = NoAgent
    AgentsAtFirst <- AllEnabled
    Unset = Unset
    d1 = d1
    d2 = d2
    Deliveries = {d1, d2}
    Sids = {"s1", "s2"}
    Contexts <- TwoContexts
    RouteRows <- ExactAndFallback
    RuleRows <- ThreeRules
    Dialled <- OneDialled
    MaxEdits = 1
SYMMETRY Interchangeable
INVARIANTS
    TypeOK
    InboundCallIsOne
PROPERTIES
    StandingRouteWins
    StandingRuleIsNotOutranked
    RejectionIsEarned
CHECK_DEADLOCK FALSE
