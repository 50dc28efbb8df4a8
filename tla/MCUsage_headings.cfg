CONSTANTS
  Run = {"a", "b", "c", "d"}
  Host <- OneHostDef
  Ssh = {}
  Project = {"P"}
  Enabled = {"P"}
  Internal = {}
  ActiveIp = {"i"}
  Projects <- OneProjectDef
  Settings <- DayDef
  Keep = 2
  From = 1
  To = 3
  Hidden = {}
  RecordHosts = {"h1"}
  RecordProjects = {"P"}
SPECIFICATION Spec
INVARIANT PagesAsHeaded
