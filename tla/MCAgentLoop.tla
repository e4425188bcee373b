---- MODULE MCAgentLoop ----
\* AgentLoop for TLC: an allowed tool, a known tool of another tenant, and an
\* allow-listed name that is no tool.
EXTENDS AgentLoop

MCNames == {"text_stats", "fetch", "ghost"}
MCTools == {"text_stats", "fetch"}
MCAllowlist == {"text_stats", "ghost"}
====
