----------------------------- MODULE MCAgentSdk -----------------------------
(* Two tasks of one event loop and one thread of a wrapped process.        *)
EXTENDS AgentSdk, TLC

CONSTANTS p1, p2, t1, t2, w1, w2, w3, llm

MCProcOf == (t1 :> p1) @@ (t2 :> p2)
MCThreadOf == (w1 :> t1) @@ (w2 :> t1) @@ (w3 :> t2)
MCProgramOf == (p1 :> "agent.py") @@ (p2 :> "agent.py")
MCTraceOf == (w1 :> "ta") @@ (w2 :> "tb") @@ (w3 :> "tc") @@ (p1 :> "t1") @@ (p2 :> "t2")
MCEntries == (w1 :> {"aiohttp"}) @@ (w2 :> {"requests", "asyncio_exec"})
             @@ (w3 :> {"putrequest"})
=============================================================================
