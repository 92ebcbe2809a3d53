SPECIFICATION Spec
CONSTANTS
  MaxBytes = 4
  MaxRead = 3
  HandshakeTimeout = 2
  FpBytes = 2
  MaxFp = 6
  DomainNames <- MCDomainNames
  Peers <- MCPeers
INVARIANTS TypeOK NothingLeftBehind FingerprintsRead NamesMatch
PROPERTIES ImplementsISocket ConnectReturns CloseNoticed
