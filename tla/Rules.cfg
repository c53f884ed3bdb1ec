CONSTANTS
  Null = Null
  MaxRampHops = 2
SPECIFICATION Spec
PROPERTIES
  SegmentsAreWalks
  FragmentsAreDeterminate
  ImportsRetraceTheirSource
  ReportsAreExact
  FilesAreFound
  SettingsAreLayered
  CleaningKeepsTheNetwork
  PluginsAreWholeOrAbsent
CHECK_DEADLOCK FALSE
