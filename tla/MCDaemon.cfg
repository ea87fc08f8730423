CONSTANTS
  None = None
  Bad = Bad
  Invalid = Invalid
  Platforms = {"macos", "linux", "windows"}
  DefaultFiles <- FilesOf
  NamedFiles <- OtherFiles
  Environments <- Shells
  Requests <- Called
  Installs <- Options
  Layers <- Tried
SPECIFICATION DaemonSpec
INVARIANTS ConfigDocumented InstallApplies RemovalHolds
