SPECIFICATION Spec
CONSTANTS
  Names <- SmallNames
  Versions <- SmallVersions
  Registries <- SmallRegistrySet
  Manifests <- SmallManifests
  MaxCommands = 2
CHECK_DEADLOCK FALSE
INVARIANT OptionalPeersHold
