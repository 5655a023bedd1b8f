--------------------------- MODULE MCAgentConfig ---------------------------
(* Small bounds for checking AgentConfig.                                    *)
EXTENDS AgentConfig

MCOffers == {{}, {"stdio", "remote", "rule", "skill"}}
MCBounds == [b \in Budgets |-> 1]
MCFailing == [MCBounds EXCEPT !["writes"] = 0, !["crashes"] = 0, !["changes"] = 0]
=============================================================================
