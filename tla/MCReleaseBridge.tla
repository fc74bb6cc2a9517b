-------------------------- MODULE MCReleaseBridge --------------------------
(***************************************************************************)
(* Instances of ReleaseBridge for TLC: a stable version and a prerelease,  *)
(* a distribution tag that is no channel, and two runs.  A malformed       *)
(* version ends its run at the first check, as an unknown tag does.        *)
(***************************************************************************)
EXTENDS ReleaseBridge

CONSTANTS first, second, stable, preview, zero

TwoRuns == {first, second}

MCVersions == {stable, preview}
MCPrereleases == {preview}
MCMalformed == {}

AllTags == {"latest", "next", "beta"}

=============================================================================
