SPECIFICATION FairSpec
CONSTANTS
  c1 = c1
  c2 = c2
  a1 = a1
  a2 = a2
  Characters <- MCCharacters
  Actors <- MCActors
  Listed = {a1, a2}
  NameOf <- MCNameOf
  RealmOf <- MCRealmOf
  NoRealm = NoRealm
  Stranger = Stranger
  Refusals = {"PRIVATE"}
  Pulls <- MCPulls
  Logs <- MCLogs
  MaxFightsRead = 2
  MaxRevision = 2
  MaxWrites = 1
  MaxLosses = 1
INVARIANTS NoPhantomPulls PullsNeverContradict MissingDidNotPlay OnlyTheTailIsUncut
PROPERTIES RevokedIsReplaced
