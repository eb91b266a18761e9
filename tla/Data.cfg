SPECIFICATION DataSpec
CONSTANTS
  Bits <- MCBits
  ExtBits <- MCExtBits
  Ext21 = 61
  Addresses <- MCAddresses
  ReadLengths <- MCReadLengths
  WriteLengths <- MCWriteLengths
INVARIANTS
  TypeOK
  FieldsFit
  ReadCollects
  WriteCovers
  Restored
PROPERTIES
  NoPhantomPress
