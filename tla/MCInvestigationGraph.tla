------------------------ MODULE MCInvestigationGraph ------------------------
(***************************************************************************)
(* The Tool sets of the runs of InvestigationGraph.                        *)
(***************************************************************************)
EXTENDS InvestigationGraph

\* The composition with every read-only adapter configured.
AllTools == Tools

\* A target without a traces and a deployment adapter.
LogsAndMetrics == {"search_knowledge", "query_logs", "query_metrics"}
=============================================================================
