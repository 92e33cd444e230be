---------------------------- MODULE MCPanelDeploys ----------------------------
(* PanelDeploys for TLC: one bot, small bounds; see the .cfg files.          *)
EXTENDS PanelDeploys
===============================================================================
