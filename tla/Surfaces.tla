------------------------------- MODULE Surfaces -------------------------------
(***************************************************************************)
(* The ways into the network together: the protocol facades, the workflow  *)
(* packages and the acceptance reports, in one workspace that people edit  *)
(* meanwhile.                                                              *)
(***************************************************************************)
EXTENDS Facades, WorkflowPackage, Acceptance

CONSTANT Mix    \* bound: which of them are used in one behaviour, how much, and with
                \* which versions of a manifest and which mappings of the workflow:
                \* [used, stimuli, manifests, mappings]

ASSUME MixAssumption ==
    \A m \in Mix : /\ m.stimuli \in Nat
                   /\ m.manifests \subseteq Manifest /\ m.mappings \subseteq Mappings

VARIABLE mix

vars == <<workspace, facades, package, acceptance, mix>>

Init ==
    /\ mix \in Mix /\ stimuli = mix.stimuli
    /\ InitWorkspace(mix.manifests) /\ InitFacades /\ InitPackage
    /\ InitAcceptance(mix.mappings)

\* Only the facades let an approval be presented.
Approving == mix.used \cap (Server \cup {"daemon"}) # {}

Next ==
    /\ UNCHANGED mix
    /\ \/ PeopleEdit(mix.manifests) /\ UNCHANGED <<facades, package, acceptance>>
       \/ Approving /\ PeopleApprove /\ UNCHANGED <<facades, package, acceptance>>
       \/ NextServers(mix.used \cap Server) /\ UNCHANGED <<package, acceptance>>
       \/ "daemon" \in mix.used /\ NextDaemon /\ UNCHANGED <<package, acceptance>>
       \/ "package" \in mix.used /\ NextPackage /\ UNCHANGED <<facades, acceptance>>
       \/ "reports" \in mix.used /\ NextAcceptance(mix.mappings) /\ UNCHANGED <<facades, package>>

Spec == Init /\ [][Next]_vars
==============================================================================
