----------------------------- MODULE MCExporter -----------------------------
(***************************************************************************)
(* Values of Exporter's constants for TLC.                                 *)
(***************************************************************************)
EXTENDS Exporter

\* Every configuration with the ticker goroutine, as in the shipped
\* wmi_exporter.toml: from a console or as a service, with Consul or without.
TagConfigs == [interactive : BOOLEAN, tags : {TRUE}, discovery : BOOLEAN]

\* AwsTagsToLabels.Enabled = false: no ticker goroutine.
NoTagConfigs == [interactive : {TRUE}, tags : {FALSE}, discovery : {TRUE}]

\* The SCM has a service to control only outside a console.  Four controls where
\* the requests to Consul do not multiply the states, one where they do.
ControlBounds ==
  [c \in ConfigType |-> CASE c.interactive -> 0
                          [] c.discovery   -> 1
                          [] OTHER         -> 4]
=============================================================================
