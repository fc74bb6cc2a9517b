--------------------------- MODULE ReleaseBridge ---------------------------
(***************************************************************************)
(* Publication of @flighthq/tool-compiler: runs of the two workflows       *)
(* .github/workflows/flight-release.yml (the bridge) and                   *)
(* .github/workflows/release.yml (the direct release), which share the     *)
(* version stamp scripts/toolCompilerVersionStamp.ts and the publisher     *)
(* scripts/toolCompilerPublish.ts.                                         *)
(*                                                                         *)
(* Runs interleave, fail at any step, and are triggered again with the     *)
(* same facts or never at all.  GitHub's concurrency groups and the npm    *)
(* registry are external: a group runs one run at a time and keeps one     *)
(* waiting, a newer one replacing it; the registry refuses a version it    *)
(* has, and an upload can succeed although the run does not learn of it.   *)
(***************************************************************************)
EXTENDS Naturals

CONSTANTS
  Runs,         \* workflow runs; bounds how often a release is triggered
  Versions,     \* versions a dispatch, a tag or a manifest can name
  Malformed,    \* those that are no strict SemVer version
  Prereleases,  \* those with a prerelease part
  Placeholder,  \* the version of the checked-in manifest, 0.0.0
  Tags,         \* distribution tags a dispatch can name
  MaxAttempts   \* attempts of the wait for the Flight release

ASSUME ReleaseAssumption ==
  /\ Malformed \subseteq Versions
  /\ Prereleases \subseteq Versions
  /\ Placeholder \notin Versions
  /\ "latest" \in Tags
  /\ MaxAttempts \in Nat \ {0}

VARIABLES
  visible,  \* Flight versions npm shows
  armed,    \* is the NPM_TOKEN secret in place
  runs,     \* the state of each run
  registry, \* published versions of @flighthq/tool-compiler
  uploads   \* what each publication uploaded, and where

vars == <<visible, armed, runs, registry, uploads>>

Channels == {"latest", "edge", "next"}
Manifests == Versions \cup {Placeholder}
NoVersion == "no version"

Active == {"validate", "wait", "gates", "stamp", "ref", "artifact", "query", "upload"}
Ended == {"published", "skipped", "rehearsed", "verified", "failed", "refused", "cancelled"}

\* `ref' is the tag a direct run was started from; `known' says whether the
\* version was in the registry when the run started; `proved' is the version of
\* the artifact that a consumer installed.
Run == [step     : Active \cup Ended \cup {"idle", "queued"},
        bridge   : BOOLEAN,
        version  : Manifests,
        tag      : Tags,
        ref      : Versions \cup {NoVersion},
        manifest : Manifests,
        publish  : BOOLEAN,
        token    : BOOLEAN,
        attempts : 0..MaxAttempts,
        checked  : BOOLEAN,
        proved   : Manifests \cup {NoVersion},
        known    : BOOLEAN]

Fresh == [step |-> "idle", bridge |-> TRUE, version |-> Placeholder, tag |-> "latest",
          ref |-> NoVersion, manifest |-> Placeholder, publish |-> TRUE, token |-> FALSE,
          attempts |-> 0, checked |-> FALSE, proved |-> NoVersion, known |-> FALSE]

Init ==
  /\ visible = {}
  /\ armed \in BOOLEAN
  /\ runs = [r \in Runs |-> Fresh]
  /\ registry = {}
  /\ uploads = {}

-----------------------------------------------------------------------------
(* Triggers and concurrency groups *)

At(r, step) == runs[r].step = step

\* Mutant: the direct workflow has a lane of its own.
LaneByWorkflow(run) == IF run.bridge THEN run.tag ELSE "release"
\* The concurrency group: the direct workflow holds the literal latest lane.
Lane(run) == IF run.bridge THEN run.tag ELSE "latest"

\* A new run waits for its lane and replaces the run that was waiting.
Enqueue(r, run) ==
  runs' = [s \in Runs |->
    CASE s = r -> [run EXCEPT !.step = "queued"]
      [] s # r /\ At(s, "queued") /\ Lane(runs[s]) = Lane(run) -> [runs[s] EXCEPT !.step = "cancelled"]
      [] OTHER -> runs[s]]

\* A dispatch from Flight, its redelivery, or a recovery run typed by hand.
TriggerBridge(r, v, t) ==
  /\ At(r, "idle")
  /\ Enqueue(r, [Fresh EXCEPT !.version = v, !.tag = t])
  /\ UNCHANGED <<visible, armed, registry, uploads>>

\* A tag push, which only verifies, or a dispatch on a branch or a tag.
TriggerDirect(r, ref, manifest, publish) ==
  /\ At(r, "idle")
  /\ Enqueue(r, [Fresh EXCEPT !.bridge = FALSE, !.ref = ref, !.version = manifest,
                              !.manifest = manifest, !.publish = publish])
  /\ UNCHANGED <<visible, armed, registry, uploads>>

Start(r) ==
  /\ At(r, "queued")
  /\ \A s \in Runs : runs[s].step \in Active => Lane(runs[s]) # Lane(runs[r])
  /\ runs' = [runs EXCEPT ![r].step = IF runs[r].bridge THEN "validate" ELSE "gates",
                          ![r].known = runs[r].version \in registry]
  /\ UNCHANGED <<visible, armed, registry, uploads>>

-----------------------------------------------------------------------------
(* The steps of a run; a step that fails is Fail *)

Go(r, step) == runs' = [runs EXCEPT ![r].step = step]

Fail(r) ==
  /\ runs[r].step \in Active
  /\ Go(r, "failed")
  /\ UNCHANGED <<visible, armed, registry, uploads>>

Validate(r) ==
  /\ At(r, "validate")
  /\ Go(r, IF /\ runs[r].tag \in Channels
              /\ runs[r].tag = "latest" => runs[r].version \notin Prereleases
              /\ runs[r].version \notin Malformed
           THEN "wait" ELSE "failed")
  /\ UNCHANGED <<visible, armed, registry, uploads>>

\* Mutant: the loop falls through after its last attempt.
AwaitFlightAndFallThrough(r) ==
  /\ At(r, "wait")
  /\ runs' = [runs EXCEPT
       ![r].step = IF runs[r].version \in visible \/ runs[r].attempts + 1 = MaxAttempts
                   THEN "gates" ELSE "wait",
       ![r].attempts = @ + 1]
  /\ UNCHANGED <<visible, armed, registry, uploads>>

\* Mutant: failed attempts are not counted.
AwaitFlightForever(r) ==
  /\ At(r, "wait")
  /\ Go(r, IF runs[r].version \in visible THEN "gates" ELSE "wait")
  /\ UNCHANGED <<visible, armed, registry, uploads>>

\* Mutant: one attempt too many.
AwaitFlightOnceMore(r) ==
  /\ At(r, "wait")
  /\ runs' = [runs EXCEPT
       ![r].step = CASE runs[r].version \in visible -> "gates"
                     [] runs[r].version \notin visible /\ runs[r].attempts = MaxAttempts -> "failed"
                     [] OTHER -> "wait",
       ![r].attempts = @ + 1]
  /\ UNCHANGED <<visible, armed, registry, uploads>>

\* One attempt to see the Flight release on the registry.
AwaitFlight(r) ==
  /\ At(r, "wait")
  /\ runs' = [runs EXCEPT
       ![r].step = CASE runs[r].version \in visible -> "gates"
                     [] runs[r].version \notin visible /\ runs[r].attempts + 1 = MaxAttempts -> "failed"
                     [] OTHER -> "wait",
       ![r].attempts = @ + 1]
  /\ UNCHANGED <<visible, armed, registry, uploads>>

PassGates(r) ==
  /\ At(r, "gates")
  /\ runs' = [runs EXCEPT ![r].step = IF runs[r].bridge THEN "stamp" ELSE "ref",
                          ![r].checked = TRUE]
  /\ UNCHANGED <<visible, armed, registry, uploads>>

StampVersion(r) ==
  /\ At(r, "stamp")
  /\ runs' = [runs EXCEPT ![r].step = "artifact", ![r].manifest = runs[r].version]
  /\ UNCHANGED <<visible, armed, registry, uploads>>

\* A direct run from a tag needs a manifest of that version.
CheckRef(r) ==
  /\ At(r, "ref")
  /\ Go(r, IF runs[r].ref \in {NoVersion, runs[r].manifest} THEN "artifact" ELSE "failed")
  /\ UNCHANGED <<visible, armed, registry, uploads>>

\* Mutant: the consumer proof installs the checked-in manifest.
ProveCheckout(r) ==
  /\ At(r, "artifact")
  /\ runs' = [runs EXCEPT ![r].step = IF runs[r].publish THEN "query" ELSE "verified",
                          ![r].proved = Placeholder]
  /\ UNCHANGED <<visible, armed, registry, uploads>>

\* The packed artifact is checked and installed by a consumer.
ProveArtifact(r) ==
  /\ At(r, "artifact")
  /\ runs' = [runs EXCEPT ![r].step = IF runs[r].publish THEN "query" ELSE "verified",
                          ![r].proved = runs[r].manifest]
  /\ UNCHANGED <<visible, armed, registry, uploads>>

\* Mutant: the publisher leaves the prerelease rule to the bridge.
QueryAnyPrerelease(r) ==
  /\ At(r, "query")
  /\ runs' = [runs EXCEPT
       ![r].step = CASE runs[r].manifest \in Malformed -> "failed"
                     [] runs[r].manifest \in registry \ Malformed -> "skipped"
                     [] OTHER -> "upload",
       ![r].token = armed]
  /\ UNCHANGED <<visible, armed, registry, uploads>>

\* Mutant: the registry is not asked.
QueryNothing(r) ==
  /\ At(r, "query")
  /\ runs' = [runs EXCEPT
       ![r].step = IF \/ runs[r].manifest \in Malformed
                      \/ runs[r].manifest \in Prereleases /\ runs[r].tag = "latest"
                   THEN "failed" ELSE "upload",
       ![r].token = armed]
  /\ UNCHANGED <<visible, armed, registry, uploads>>

\* The publisher: a version the registry has ends the run with nothing to do.
\* The token in the environment of this step decides between the two modes.
QueryRegistry(r) ==
  LET refused == \/ runs[r].manifest \in Malformed
                 \/ runs[r].manifest \in Prereleases /\ runs[r].tag = "latest"
  IN /\ At(r, "query")
     /\ runs' = [runs EXCEPT
          ![r].step = CASE refused -> "failed"
                        [] ~refused /\ runs[r].manifest \in registry -> "skipped"
                        [] OTHER -> "upload",
          ![r].token = armed]
     /\ UNCHANGED <<visible, armed, registry, uploads>>

\* Without a token the bridge rehearses and a direct run is not authorized.
EndWithoutToken(r) ==
  /\ At(r, "upload")
  /\ ~runs[r].token
  /\ Go(r, IF runs[r].bridge THEN "rehearsed" ELSE "failed")
  /\ UNCHANGED <<visible, armed, registry, uploads>>

\* npm publish: refused for a version that appeared since the query; the
\* answer to a successful upload may be lost.
Upload(r) ==
  /\ At(r, "upload")
  /\ runs[r].token
  /\ IF runs[r].manifest \in registry
     THEN Go(r, "refused") /\ UNCHANGED <<registry, uploads>>
     ELSE /\ registry' = registry \cup {runs[r].manifest}
          /\ uploads' = uploads \cup
               {[run |-> r, version |-> runs[r].manifest, tag |-> runs[r].tag]}
          /\ \E outcome \in {"published", "failed"} : Go(r, outcome)
  /\ UNCHANGED <<visible, armed>>

-----------------------------------------------------------------------------
(* The environment *)

\* A Flight release becomes visible on npm.
FlightAppears(v) ==
  /\ v \notin visible
  /\ visible' = visible \cup {v}
  /\ UNCHANGED <<armed, runs, registry, uploads>>

ArmToken ==
  /\ ~armed
  /\ armed' = TRUE
  /\ UNCHANGED <<visible, runs, registry, uploads>>

Step(r) ==
  \/ Validate(r) \/ AwaitFlight(r) \/ PassGates(r) \/ StampVersion(r) \/ CheckRef(r)
  \/ ProveArtifact(r) \/ QueryRegistry(r) \/ EndWithoutToken(r) \/ Upload(r)

Next ==
  \/ \E r \in Runs :
       \/ \E v \in Versions, t \in Tags : TriggerBridge(r, v, t)
       \/ \E ref \in Versions \cup {NoVersion}, m \in Manifests, publish \in BOOLEAN :
            TriggerDirect(r, ref, m, publish)
       \/ Start(r)
       \/ Step(r)
       \/ Fail(r)
  \/ \E v \in Versions \ Malformed : FlightAppears(v)
  \/ ArmToken

\* GitHub starts a run whose lane is free, and a started run goes on to its
\* end or is stopped by the job time limit; nobody has to trigger anything.
Spec == Init /\ [][Next]_vars /\ \A r \in Runs : WF_vars(Start(r)) /\ WF_vars(Step(r))

-----------------------------------------------------------------------------
(* Properties *)

\* The types of the variables.
TypeOK ==
  /\ visible \in SUBSET Versions
  /\ armed \in BOOLEAN
  /\ runs \in [Runs -> Run]
  /\ registry \in SUBSET Manifests
  /\ uploads \in SUBSET [run : Runs, version : Manifests, tag : Tags]

\* The Flight version is authoritative: what the bridge uploaded is a version
\* that Flight had published, and the one its run was triggered for.
BridgeFollowsFlight ==
  \A u \in uploads : runs[u.run].bridge =>
    u.version = runs[u.run].version /\ u.version \in visible

\* The prerelease rule protects the latest channel on every path to it: two
\* workflows publish there, and only one of them checks the rule itself.
LatestIsStable == \A u \in uploads : u.tag = "latest" => u.version \notin Prereleases

\* What reaches the registry passed the gates, and the artifact a consumer
\* installed before it was the one of the uploaded version.
UploadsWereProved ==
  \A u \in uploads : runs[u.run].checked /\ runs[u.run].proved = u.version

\* Runs of one channel never race for a version: npm refuses an upload only
\* when a run of another channel published the version after the query.
RefusalsCrossLanes ==
  \A r \in Runs : At(r, "refused") =>
    \E u \in uploads : u.version = runs[r].manifest /\ u.tag # runs[r].tag

\* A redelivered event is harmless: a run whose version was published before
\* it started uploads nothing and is not refused.
RedeliveryIsHarmless ==
  \A r \in Runs : runs[r].known => runs[r].step \notin {"upload", "published", "refused"}

\* No run waits or polls forever, so no lane stays occupied.
RunsEnd == \A r \in Runs : At(r, "queued") ~> runs[r].step \in Ended

\* The checkout's own development version never reaches the registry.
PlaceholderStaysLocal == Placeholder \notin registry

-----------------------------------------------------------------------------
(* The inductive invariant behind the safety properties.                     *)

\* Only one run of a lane is between its start and its end.
LanesAreExclusive ==
  \A r, s \in Runs :
    r # s /\ runs[r].step \in Active /\ runs[s].step \in Active => runs[r].tag # runs[s].tag

\* Uploads are the work of runs that have ended, and all there is to publish.
UploadsAccounted ==
  /\ \A u \in uploads : runs[u.run].step \in Ended
  /\ \A v \in registry : \E u \in uploads : u.version = v

PublishedElsewhere(run) == \E u \in uploads : u.version = run.manifest /\ u.tag # run.tag

\* What a run knows at each of its steps: the wait has attempts left; the gates
\* judged the artifact of the triggered version; and between the query and the
\* upload only another channel can have published that version.
RunInvariant(run) ==
  /\ ~run.bridge => run.tag = "latest"
  /\ run.step \in {"idle", "queued", "validate"} => run.attempts = 0
  /\ run.step = "wait" => run.attempts < MaxAttempts
  /\ run.step = "ref" => ~run.bridge
  /\ run.bridge /\ run.step \in {"gates", "stamp", "artifact", "query", "upload"}
       => run.version \in visible
  /\ ~run.bridge \/ run.step \in {"artifact", "query", "upload"} => run.manifest = run.version
  /\ run.step \in {"stamp", "ref", "artifact", "query", "upload"} => run.checked
  /\ run.step \in {"query", "upload"} => run.proved = run.manifest
  /\ run.step = "upload" /\ run.tag = "latest" => run.manifest \notin Prereleases
  /\ run.step = "upload" /\ run.manifest \in registry => PublishedElsewhere(run)
  /\ run.step = "refused" => PublishedElsewhere(run)
  /\ run.known => /\ run.version \in registry
                  /\ run.step \notin {"idle", "queued", "upload", "published", "refused"}

\* What every step of every run preserves.
ReleaseInvariant ==
  /\ TypeOK
  /\ LanesAreExclusive
  /\ UploadsAccounted
  /\ \A r \in Runs : RunInvariant(runs[r])
  /\ BridgeFollowsFlight
  /\ LatestIsStable
  /\ UploadsWereProved

=============================================================================
