SPECIFICATION Spec
CONSTANTS
  p1 = p1 p2 = p2 t1 = t1 t2 = t2 w1 = w1 w2 = w2 w3 = w3
  llm = llm NoOne = NoOne
  Procs = {p1, p2} Threads = {t1, t2} Workers = {w1, w2, w3}
  ProcOf <- MCProcOf ThreadOf <- MCThreadOf TraceOf <- MCTraceOf
  ProgramOf <- MCProgramOf
  Hosts = {llm} LlmHosts = {llm} Allowlist = {}
  Entries <- MCEntries
  Wrapped = {p2}
  Outcomes = {"ok", "cancelled"}
  MaxCalls = 1 MaxShields = 1 MaxHops = 1 Killable = {p2}
INVARIANTS
  RecordedOnce
  RunLogWhole
  FlaggedOnce

CHECK_DEADLOCK FALSE
