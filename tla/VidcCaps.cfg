\* Capability tables: every platform core table of up to two entries over
\* two codec bits (both masks set, a type given twice, a mask of two codecs),
\* every instance table of up to two entries over both domains, every codec
\* mask and one valid and one out-of-range capability id.
CONSTANTS
  CoreCapMax = 2
  InstCapMax = 1
  CodecBits = 2
  MaxCoreEntries = 2
  MaxInstEntries = 2
SPECIFICATION Spec
INVARIANTS
  InstCapsMatchPlatform
  SessionCapsMatchPlatform
