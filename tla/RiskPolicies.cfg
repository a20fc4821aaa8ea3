SPECIFICATION FairPoliciesSpec
CONSTANTS
    Scopes = {global, account}
    Actors = {ann, bob}
    Requests = {r1, r2}
    MaxVersions = 2
    NoActor = nobody
INVARIANTS OneActivePolicy ActivePolicyHasTwoPersons
PROPERTIES ImplementsInForce RequestsAreAnswered
CHECK_DEADLOCK FALSE
