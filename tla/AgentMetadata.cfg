SPECIFICATION Spec
CONSTANTS
  MaxRequest = 25
  MaxResponse = 14
  MaxTypeName = 2
  MaxComment = 2
  MaxUsername = 2
  Unprintable <- MCUnprintable
  Invisible <- MCInvisible
  Blank = 32
  Ellipsis = 300
  SshConnection = 110
  PublicKey = 111
  HostBound = 112
  SessionBind = 113
  Dashed <- MCDashed
  Joined <- MCJoined
  VerboseRuns <- MCVerboseRuns
  Quoted <- MCQuoted
  PortOf <- MCPortOf
  Settings <- MCSettings
  Places <- MCPlaces
  UnsafeFields <- MCUnsafeFields
  UnsafeHosts <- MCUnsafeHosts
  Sessions <- MCSessions
  Replies <- MCReplies
  Requests <- MCRequests
  CommandLines <- MCCommandLines
  KeyLists <- MCKeyLists
  SignRequests <- MCSignRequests
  MaxText = 4
  Controls <- MCControls
  Fields <- MCFields
INVARIANTS FieldWhole KeysExact SignExact BindingRefused TargetAsMeant
CHECK_DEADLOCK FALSE
