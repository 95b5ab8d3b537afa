------------------------------ MODULE MC_CiTools ------------------------------
(* Releases v0.109.0 to v0.112.0 around the v0.110.0 cut-off, two CI jobs   *)
(* that may overlap, up to two jobs dying mid-run, and only v0.111.0     *)
(* built into web/public, so validation can find a missing artifact.    *)
EXTENDS CiTools, TLC

CONSTANTS j1, j2

MCReleases == {109, 110, 111, 112}
MCMinVersion == 110
MCJobs == {j1, j2}
MCMaxCrashes == 2
MCBuilt == {111}
=============================================================================
