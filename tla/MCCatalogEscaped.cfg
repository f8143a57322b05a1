SPECIFICATION Spec

CONSTANTS
  Singular <- MCSingular
  IdParameter <- MCIdParameter
  CamelCase <- MCCamelCase
  Versions <- MCVersions
  Fingerprints <- MCFingerprints
  GenericWords <- MCGenericWords
  Candidates <- EscapedCandidates
  Generations <- EscapedGenerations
  Histories <- EscapedHistories
  Settings <- MCSettings

INVARIANT RecordIsTheObject
CHECK_DEADLOCK FALSE
