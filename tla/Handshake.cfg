SPECIFICATION HandshakeSpec
CONSTANTS
  MaxBoots = 4
INVARIANTS HostTrustsReadySlave SlaveTrustsReadyHost
PROPERTIES EveryBootEnds
