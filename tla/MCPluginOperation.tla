-------------------------- MODULE MCPluginOperation --------------------------
(* Instances of PluginOperation for TLC.                                     *)
EXTENDS PluginOperation

\* Of each plan the commands that are handled differently: pip is one that must
\* succeed, like a pull.
Install == <<"clone", "skill">>
Update  == <<"pull">>
Repair  == <<"wrapper", "manifest">>

MCPlan        == {Install, Update, Repair}
MCPlanInstall == {<<"clone">>}
==============================================================================
