CONSTANTS
  Path <- MCPath
  Parts <- MCParts
  Key <- MCKey
  Fold <- MCFold
  PathRank <- MCPathRank
  KeyRank <- MCKeyRank
  Base <- MCBase
  Extension <- MCExtension
  BinaryAssets <- MCBinaryAssets
  TaggedHeaders <- MCTaggedHeaders
  Align = 2
  Codes = 3
  DefaultBlock = 2
  BlockLimit = 2
  EntryLimit = 5
  EntryCountLimit = 2
  LogicalThreshold = 1
  StoredThreshold = 1
  Data <- MCData
  Requests <- MCRequests
  Hashed <- MCHashed
  Mounts <- MCMounts
  Foreign <- MCForeign
  MaxDamage = 2
  None = None
SPECIFICATION Spec
\* The file is written, or refused, and looked at.
CHECK_DEADLOCK FALSE
INVARIANTS
  WriteIsHonest
  OpenedIsSound
