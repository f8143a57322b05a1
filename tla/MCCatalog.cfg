SPECIFICATION Spec

CONSTANTS
  Singular <- MCSingular
  IdParameter <- MCIdParameter
  CamelCase <- MCCamelCase
  Versions <- MCVersions
  Fingerprints <- MCFingerprints
  GenericWords <- MCGenericWords
  Candidates <- MCCandidates
  Generations <- MCGenerations
  Histories <- MCHistories
  Settings <- MCSettings

INVARIANT NamesAreDistinct
INVARIANT NamesIgnoreTheOrder
INVARIANT RequestsArePublished
INVARIANT RecordIsTheObject
INVARIANT OneIdPerResource
INVARIANT NothingDrifts
PROPERTY ReleasedNamesAreKept
PROPERTY CreatedIsRecorded
PROPERTY DeleteDeletes
CHECK_DEADLOCK FALSE
