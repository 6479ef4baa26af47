--------------------------- MODULE MCToolRegistry ---------------------------
(* Small instances of ToolRegistry. *)
EXTENDS ToolRegistry

Ask(role, tool, agent, valid) ==
    [role |-> role, tool |-> tool, agent |-> agent, valid |-> valid]

\* One agent call of each kind, and MCP sessions that ask what they may not.
MixedRequests ==
    {Ask("orchestrator", "get_prior_assessments", TRUE, TRUE),
     Ask("evidence_retriever", "retrieve_knowledge", TRUE, TRUE),
     Ask("quantitative_analyst", "get_usage_series", TRUE, FALSE),
     Ask("forecast_adjudicator", "get_account_profile", FALSE, TRUE),
     Ask("evidence_retriever", "unknown", FALSE, TRUE)}
=============================================================================
