-------------------------- MODULE MCScriptVersions --------------------------
(***************************************************************************)
(* Instances of ScriptVersions for TLC.                                    *)
(***************************************************************************)
EXTENDS ScriptVersions, TLC

CONSTANTS w1, w2, o1

Site == [episodes |-> {1}, written |-> FALSE, processes |-> Processes,
         operations |-> {}, faults |-> {}, jobs |-> 2, manuals |-> 0,
         retries |-> 0, faultLimit |-> 0]

\* The content pages: new episodes, pasted scripts, aborted and repeated jobs.
ContentSite ==
  [Site EXCEPT !.operations = {"queue", "manual", "abort", "retry"},
               !.manuals = 1, !.retries = 1]
\* Admin and API: jobs for the same episode side by side, and scripts again.
AdminSite ==
  [Site EXCEPT !.operations = {"generate", "regenerate", "retry"},
               !.written = TRUE, !.retries = 1]
\* Generations beside a pasted script, on an episode that has one.
BesideSite ==
  [Site EXCEPT !.operations = {"generate", "manual"},
               !.written = TRUE, !.manuals = 1]
\* Workers that die and articles that disappear.
FaultySite ==
  [Site EXCEPT !.episodes = {1, 2}, !.operations = {"generate", "retry"},
               !.faults = FaultKinds, !.retries = 1, !.faultLimit = 1]

CheckedSites == {ContentSite, AdminSite, BesideSite, FaultySite}

=============================================================================
