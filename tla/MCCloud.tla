---- MODULE MCCloud ----
EXTENDS Cloud, TLC

\* Two orgs: a project of the first, bootstrapped with an owner, and the
\* second with a token from before memberships existed.
P1 == [org |-> "o1", ws |-> "w1", prj |-> "p1"]
O2 == [org |-> "o2", ws |-> "", prj |-> ""]
MCTargets == {P1, O2}
MCBootstrap == [b1 |-> [at |-> P1, member |-> "m1"], b2 |-> [at |-> O2, member |-> None]]
MCTokenIds == {"b1", "b2", "t1"}
MCMemberIds == {"m1", "m2"}
MCRequested == {{}, {"memberships:write"}}

MCInstallations == {"jira1", "hub1"}

scenario(ops, from, on) == [ops |-> ops, from |-> from, on |-> on]
MCScenarios ==
    {scenario({"token", "revoke", "member", "suspend", "resume"}, Callers, {}),
     scenario({"install", "validate", "switchOn", "switchOff", "action", "webhook"}, Callers, MCInstallations),
     scenario({"install", "switchOff", "poll"}, {"c1"}, {"jira1"}),
     scenario({"install", "poll"}, {"c1"}, {"hub1"}),
     scenario({"claim", "enable", "disable", "sync", "start", "startByTool"}, Callers, {})}

MCProviderOf == [jira1 |-> "jira", hub1 |-> "github"]
MCPlaceOf == [jira1 |-> P1, hub1 |-> O2]

\* Which issue is which matters to no property.
MCSymmetry == Permutations(Issues)

MCHomeOf == [i1 |-> "k1"]
MCClaimPlaces == {P1, O2}
====
