-------------------------- MODULE MCPipelineConfig --------------------------
(* Instances of PipelineConfig: an essential and a nonessential ACL table, *)
(* two hash fields, and configs between which everything changes.          *)
EXTENDS PipelineConfig

CONSTANTS e1, e2, e3

MCAclTables == {"ingress", "counting", "pre"}
MCStage == [small |-> "ingress", large |-> "ingress", egress |-> "egress"]

Info(ingress, counting, pre, ecmp, lag) ==
  [acl  |-> [ingress |-> ingress, counting |-> counting, pre |-> pre],
   hash |-> [ecmp |-> ecmp, lag |-> lag]]

\* Both tables small; both large, with another hash; no counting table and one
\* hash field less; a config no supported transition leads to or from.
MCP4Infos ==
  {Info("small", "small", None, "h1", "h1"),
   Info("large", "large", None, "h2", "h1"),
   Info("small", None, None, None, "h1"),
   Info("egress", "small", "small", "h1", None)}

\* Two entries where batches of them can be carried out in part.
MCEntries == [ingress |-> {e1, e2}, counting |-> {e3}, pre |-> {e3}]

\* Entries are only compared with each other.
EntrySymmetry == Permutations({e1, e2})
=============================================================================
