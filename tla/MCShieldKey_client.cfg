SPECIFICATION Spec
CONSTANTS
  Addr = {"a", "b", "c", "d", "p"}
  Bytes <- BytesOf
  Hash <- HashOf
  MaxNodes = 4
  Clients = {"a", "b", "c", "d", "unix:"}
  Proxies = {"p"}
  Forged <- ForgedLines
INVARIANTS
  LookupExact
  KeyIsSeenClient
