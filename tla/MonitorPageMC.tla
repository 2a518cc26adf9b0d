----------------------------- MODULE MonitorPageMC -----------------------------
(***************************************************************************)
(* The instance of MonitorPage that TLC checks: two releases, of which the *)
(* second packages one more store, and a provider that may find new stores *)
(* and a packaged one under another record.                                *)
(***************************************************************************)
EXTENDS MonitorPage, TLC

CONSTANTS x, y   \* two records of a store

MCBundles == {1 :> x, 1 :> x @@ 2 :> y}

MCFinds == {1 :> y @@ 2 :> x, 2 :> y @@ 3 :> x}
================================================================================
