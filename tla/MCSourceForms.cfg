SPECIFICATION Spec
CONSTANTS
  CompactPrograms <- Compact
  ExpandedPrograms <- Expanded
INVARIANT
  FilesMeanTheSame
