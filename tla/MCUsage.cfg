CONSTANTS
  Run = {"a", "b", "c", "d"}
  Host <- HostDef
  Ssh = {"b"}
  Project = {"P", "Q", "admin", "old"}
  Enabled = {"P", "Q", "admin"}
  Internal = {"admin"}
  ActiveIp = {"i"}
  Projects <- ProjectsDef
  Settings <- SettingsDef
  Keep = 2
  From = 1
  To = 3
  Hidden = {"admin"}
  RecordHosts = {"h1"}
  RecordProjects = {"P"}
SPECIFICATION Spec
INVARIANTS RecordKept TableKeeps DbFailsFor PagesTrue
PROPERTIES RunsEnd
