SPECIFICATION Spec
CONSTANTS
  Strings <- MCStrings
  Envs <- MCEnvs
  Arguments <- MCArguments
  MaxArgs = 3
  Atoi <- MCAtoi
  FlagInt <- MCFlagInt
  ParseBool <- MCParseBool
  ParseUint <- MCParseUint
  HostOf <- MCHostOf
  Levels = {"info", "INFO"}
  Split <- MCSplit
  Unescape <- MCUnescape
  Braced <- MCBraced
  Wild <- MCWild
  Spaced <- MCSpaced
  Requests <- MCRequests
INVARIANTS
  Configured
  ExitCode
  Routing
CHECK_DEADLOCK FALSE
