\* Two skills, a TTL of three units, one fault, and either an SDK node or a
\* daemon registering beside an edge node.
CONSTANTS
    a = a
    b = b
    Card = {a, b}
    Ttl = 3
    DefaultTtl = 2
    RefreshLead = 5
    Deployments = {{"sdk", "edge"}, {"daemon", "edge"}}
    MaxFaults = 1
SPECIFICATION FairSpec
INVARIANTS
  ListingIsHonest
  StopIsClean
PROPERTIES
  ListingConverges
  StopEnds
