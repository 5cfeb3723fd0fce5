SPECIFICATION Spec
CHECK_DEADLOCK FALSE
CONSTANTS
  LongText = 14
  MaxIdentity = 3
  MaxPlacementKey = 5
INVARIANTS
  ChoicesAreSound
  ConfigurationsCanBeServed
  EndpointsTellTheTruth
  NamesAreStable
  MessagesKeepTheirMeaning
