---------------------------- MODULE MCAgentLoop ----------------------------
(* AgentLoop on rows taken from the tables of runtime/tool_policy.py and   *)
(* tools/genesis_call_tool.py.                                             *)
EXTENDS AgentLoop

AllRisks == [search |-> "read_only", file_write |-> "filesystem_write",
             send_email |-> "network", conduit |-> "browser",
             github_tool |-> "deployment", genesis_call |-> "subagent"]
AllAllowed == [meta     |-> {"read_only", "filesystem_write", "subagent", "browser"},
               research |-> {"read_only", "filesystem_write", "network", "browser"},
               deploy   |-> {"read_only", "filesystem_write", "deployment", "browser"},
               domain   |-> {"read_only", "browser"}]
AllAdvertised == [meta     |-> {"genesis_call", "file_write"},
                  research |-> {"search", "conduit", "send_email"},
                  deploy   |-> {"github_tool", "file_write"},
                  domain   |-> {"github_tool", "search", "conduit"}]

MCRisk == [t \in Tools |-> AllRisks[t]]
MCAllowed == [a \in Agents |-> AllAllowed[a]]
MCAdvertised == [a \in Agents |-> AllAdvertised[a] \cap Tools]
MCProhibited == {}
\* only genesis-meta delegates
MCTargets == [a \in Agents |-> IF a = "meta" THEN Agents \ {"meta"} ELSE {}]

\* Tables with several orchestrators whose targets lead back to each other and one
\* level deeper than MAX_DELEGATION_DEPTH, which is what the depth and cycle guards
\* of genesis_call are for.
MCOrchestrators == [a \in Agents |-> AllAllowed["meta"]]
MCDelegating == [a \in Agents |-> {"genesis_call"} \cup (AllAdvertised[a] \cap Tools)]
MCCyclic == [meta     |-> {"meta", "research"},
             research |-> {"meta", "deploy"},
             deploy   |-> {"meta", "research", "domain"},
             domain   |-> {"meta"}]
=============================================================================
