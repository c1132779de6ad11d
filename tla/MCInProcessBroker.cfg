CONSTANTS
  s1 = s1
  s2 = s2
  s3 = s3
  Subscribers = {s1, s2, s3}
  Requests <- MCRequests
  SeenWithin = 2
  MaxAge = 3
  MaxFaults = 3
SPECIFICATION Spec
INVARIANTS
  OneEntryPerSubscriber
  HealthyStaysListed
PROPERTIES
  ExpiredEntriesGo
  SingletonDistributesAll
