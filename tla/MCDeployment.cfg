SPECIFICATION Spec
CONSTANTS
  Servers = {s1, s2}
  MaxFaults = 1
INVARIANTS TypeOK SchemaIsItsRevision RowsAreCoherent
PROPERTIES  ServersStart RunsAreNotStranded
