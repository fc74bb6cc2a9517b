------------------------ MODULE ReleaseBridgeProofs ------------------------
(***************************************************************************)
(* Proofs about ReleaseBridge: the inductive invariant, and from it the    *)
(* safety properties of publication, for any number of runs, versions and  *)
(* distribution tags.  Every step of a started run changes its own record  *)
(* only; RunMoves says once what such a step must establish.               *)
(***************************************************************************)
EXTENDS ReleaseBridge, TLAPS

USE ReleaseAssumption

LEMMA FreshRun == Fresh \in Run
  BY DEF Fresh, Run, Manifests, NoVersion, Active, Ended

\* The initial states satisfy the inductive invariant.
LEMMA InitInvariant == Init => ReleaseInvariant
<1> SUFFICES ASSUME Init PROVE ReleaseInvariant
  OBVIOUS
<1>1. TypeOK
  BY FreshRun DEF Init, TypeOK
<1>2. \A r \in Runs : RunInvariant(runs[r])
  BY DEF Init, RunInvariant, Fresh, NoVersion
<1>3. LanesAreExclusive /\ UploadsAccounted
  BY DEF Init, LanesAreExclusive, UploadsAccounted, Fresh, Active
<1> QED
  BY <1>1, <1>2, <1>3 DEF ReleaseInvariant, Init, BridgeFollowsFlight, LatestIsStable, UploadsWereProved

\* A step that replaces the record of a run that has not ended, and keeps what
\* makes it a run of its lane, preserves the invariant if the new record
\* satisfies its part.
LEMMA RunMoves ==
  ASSUME ReleaseInvariant,
         NEW r \in Runs, NEW run \in Run,
         runs' = [runs EXCEPT ![r] = run],
         UNCHANGED <<visible, armed, registry, uploads>>,
         runs[r].step \notin Ended,
         run.tag = runs[r].tag,
         run.step \in Active => \A s \in Runs \ {r} :
           runs[s].step \in Active => runs[s].tag # run.tag,
         RunInvariant(run)
  PROVE  ReleaseInvariant'
<1> USE DEF ReleaseInvariant
<1>1. TypeOK'
  BY DEF TypeOK
<1>2. LanesAreExclusive'
  BY DEF LanesAreExclusive, TypeOK
<1>3. UploadsAccounted'
  BY DEF UploadsAccounted, TypeOK
<1>4. \A s \in Runs : RunInvariant(runs[s])'
  BY DEF RunInvariant, PublishedElsewhere, TypeOK
<1>5. BridgeFollowsFlight' /\ LatestIsStable' /\ UploadsWereProved'
  BY DEF BridgeFollowsFlight, LatestIsStable, UploadsWereProved, UploadsAccounted, TypeOK
<1> QED
  BY <1>1, <1>2, <1>3, <1>4, <1>5

\* Active runs keep their lane to themselves.
LEMMA OwnLane ==
  ASSUME ReleaseInvariant, NEW r \in Runs, runs[r].step \in Active
  PROVE  /\ \A s \in Runs \ {r} : runs[s].step \in Active => runs[s].tag # runs[r].tag
         /\ runs[r].step \notin Ended
         /\ runs[r] \in Run
         /\ RunInvariant(runs[r])
  BY DEF ReleaseInvariant, LanesAreExclusive, TypeOK, Active, Ended

\* The concurrency group of every run is that of its tag.
LEMMA LaneIsTag ==
  ASSUME NEW run \in Run, RunInvariant(run)
  PROVE  Lane(run) = run.tag
  BY DEF Lane, RunInvariant

-----------------------------------------------------------------------------
(* Triggers and starts                                                       *)

\* Triggering a run makes it a queued one; the run it replaces is cancelled.
LEMMA EnqueueInvariant ==
  ASSUME ReleaseInvariant, NEW r \in Runs, At(r, "idle"), NEW run \in Run,
         RunInvariant([run EXCEPT !.step = "queued"]),
         Enqueue(r, run), UNCHANGED <<visible, armed, registry, uploads>>
  PROVE  ReleaseInvariant'
<1> USE DEF ReleaseInvariant
<1> DEFINE new(s) ==
      CASE s = r -> [run EXCEPT !.step = "queued"]
        [] s # r /\ At(s, "queued") /\ Lane(runs[s]) = Lane(run) -> [runs[s] EXCEPT !.step = "cancelled"]
        [] OTHER -> runs[s]
<1>1. runs' = [s \in Runs |-> new(s)]
  BY DEF Enqueue
<1>2. \A s \in Runs : new(s) \in Run
  BY DEF TypeOK, Run, Ended, Active
<1>3. TypeOK'
  BY <1>1, <1>2 DEF TypeOK
<1>4. \A s \in Runs :
        \/ s = r /\ new(s) = [run EXCEPT !.step = "queued"]
        \/ s # r /\ runs[s].step = "queued" /\ new(s) = [runs[s] EXCEPT !.step = "cancelled"]
        \/ s # r /\ new(s) = runs[s]
  BY DEF At
<1> HIDE DEF new
<1>5. \A s \in Runs : new(s).step \in Active => s # r /\ new(s) = runs[s]
  BY <1>4 DEF TypeOK, Run, Active
<1>6. LanesAreExclusive'
  BY <1>1, <1>5 DEF LanesAreExclusive
<1>7. \A s \in Runs : runs[s].step \in Ended => new(s) = runs[s]
  BY <1>4 DEF TypeOK, Run, Ended, At
<1>8. UploadsAccounted'
  BY <1>1, <1>7 DEF UploadsAccounted, TypeOK
<1>9. \A s \in Runs : RunInvariant(runs[s])'
  <2> TAKE s \in Runs
  <2>1. RunInvariant(new(s))
    <3>1. CASE s = r
      BY <1>4, <3>1
    <3>2. CASE s # r /\ runs[s].step = "queued" /\ new(s) = [runs[s] EXCEPT !.step = "cancelled"]
      BY <3>2 DEF RunInvariant, TypeOK, Run
    <3>3. CASE s # r /\ new(s) = runs[s]
      BY <3>3
    <3> QED
      BY <1>4, <3>1, <3>2, <3>3
  <2> QED
    BY <1>1, <2>1 DEF RunInvariant, PublishedElsewhere
<1>10. BridgeFollowsFlight' /\ LatestIsStable' /\ UploadsWereProved'
  BY <1>1, <1>7 DEF BridgeFollowsFlight, LatestIsStable, UploadsWereProved, UploadsAccounted, TypeOK
<1> QED
  BY <1>3, <1>6, <1>8, <1>9, <1>10

LEMMA TriggerInvariant ==
  ASSUME ReleaseInvariant, NEW r \in Runs,
         \/ \E v \in Versions, t \in Tags : TriggerBridge(r, v, t)
         \/ \E ref \in Versions \cup {NoVersion}, m \in Manifests, publish \in BOOLEAN :
              TriggerDirect(r, ref, m, publish)
  PROVE  ReleaseInvariant'
<1>1. ASSUME NEW v \in Versions, NEW t \in Tags, TriggerBridge(r, v, t)
      PROVE  ReleaseInvariant'
  <2> DEFINE run == [Fresh EXCEPT !.version = v, !.tag = t]
  <2>1. run \in Run
    BY FreshRun DEF Fresh, Run, Manifests
  <2>2. RunInvariant([run EXCEPT !.step = "queued"])
    BY DEF RunInvariant, Fresh
  <2>3. At(r, "idle") /\ Enqueue(r, run) /\ UNCHANGED <<visible, armed, registry, uploads>>
    BY <1>1 DEF TriggerBridge
  <2> QED
    BY <2>1, <2>2, <2>3, EnqueueInvariant
<1>2. ASSUME NEW ref \in Versions \cup {NoVersion}, NEW m \in Manifests, NEW publish \in BOOLEAN,
             TriggerDirect(r, ref, m, publish)
      PROVE  ReleaseInvariant'
  <2> DEFINE run == [Fresh EXCEPT !.bridge = FALSE, !.ref = ref, !.version = m,
                                  !.manifest = m, !.publish = publish]
  <2>1. run \in Run
    BY FreshRun DEF Fresh, Run, Manifests
  <2>2. RunInvariant([run EXCEPT !.step = "queued"])
    BY DEF RunInvariant, Fresh
  <2>3. At(r, "idle") /\ Enqueue(r, run) /\ UNCHANGED <<visible, armed, registry, uploads>>
    BY <1>2 DEF TriggerDirect
  <2> QED
    BY <2>1, <2>2, <2>3, EnqueueInvariant
<1> QED
  BY <1>1, <1>2

LEMMA StartInvariant ==
  ASSUME ReleaseInvariant, NEW r \in Runs, Start(r)
  PROVE  ReleaseInvariant'
<1> DEFINE step == IF runs[r].bridge THEN "validate" ELSE "gates"
           known == runs[r].version \in registry
           run == [runs[r] EXCEPT !.step = step, !.known = known]
<1>1. runs[r] \in Run /\ RunInvariant(runs[r]) /\ runs[r].step = "queued"
  BY DEF ReleaseInvariant, TypeOK, Start, At
<1>2. run \in Run
  <2>1. step \in Active /\ known \in BOOLEAN
    BY DEF Active
  <2> HIDE DEF step, known
  <2> QED
    BY <1>1, <2>1 DEF Run
<1>3. RunInvariant(run)
  BY <1>1 DEF RunInvariant, Run
<1>4. runs' = [runs EXCEPT ![r] = run] /\ UNCHANGED <<visible, armed, registry, uploads>>
  BY DEF Start, ReleaseInvariant, TypeOK, Run
<1>5. \A s \in Runs \ {r} : runs[s].step \in Active => runs[s].tag # run.tag
  BY <1>1, LaneIsTag DEF Start, ReleaseInvariant, TypeOK, Run
<1>6. runs[r].step \notin Ended /\ run.tag = runs[r].tag
  BY <1>1 DEF Ended, Run
<1> HIDE DEF run
<1> QED
  BY <1>2, <1>3, <1>4, <1>5, <1>6, RunMoves

-----------------------------------------------------------------------------
(* The steps of a started run                                                *)

\* A step of an active run that leaves the registry alone preserves the
\* invariant if the new record satisfies its part: its lane stays its own.
LEMMA ActiveMoves ==
  ASSUME ReleaseInvariant, NEW r \in Runs, runs[r].step \in Active, NEW run \in Run,
         runs' = [runs EXCEPT ![r] = run],
         UNCHANGED <<visible, armed, registry, uploads>>,
         run.tag = runs[r].tag,
         RunInvariant(run)
  PROVE  ReleaseInvariant'
  BY OwnLane, RunMoves

LEMMA EarlyStepInvariant ==
  ASSUME ReleaseInvariant, NEW r \in Runs,
         Fail(r) \/ Validate(r) \/ AwaitFlight(r) \/ PassGates(r) \/ StampVersion(r)
  PROVE  ReleaseInvariant'
<1>1. runs[r] \in Run /\ runs \in [Runs -> Run] /\ runs[r].step \in Active /\ RunInvariant(runs[r])
  BY DEF ReleaseInvariant, TypeOK, Fail, Validate, AwaitFlight, PassGates, StampVersion, At, Active
<1>2. CASE Fail(r)
  <2> DEFINE run == [runs[r] EXCEPT !.step = "failed"]
  <2>1. run \in Run /\ RunInvariant(run) /\ run.tag = runs[r].tag
    BY <1>1 DEF Run, Ended, RunInvariant
  <2>2. runs' = [runs EXCEPT ![r] = run] /\ UNCHANGED <<visible, armed, registry, uploads>>
    BY <1>1, <1>2 DEF Fail, Go
  <2> QED
    BY <1>1, <2>1, <2>2, ActiveMoves
<1>3. CASE Validate(r)
  <2> DEFINE step == IF /\ runs[r].tag \in Channels
                        /\ runs[r].tag = "latest" => runs[r].version \notin Prereleases
                        /\ runs[r].version \notin Malformed
                     THEN "wait" ELSE "failed"
             run == [runs[r] EXCEPT !.step = step]
  <2>1. step \in {"wait", "failed"} /\ runs[r].step = "validate"
    BY <1>3 DEF Validate, At
  <2>2. runs' = [runs EXCEPT ![r] = run] /\ UNCHANGED <<visible, armed, registry, uploads>>
    BY <1>1, <1>3 DEF Validate, Go
  <2> HIDE DEF step
  <2>3. run \in Run /\ RunInvariant(run) /\ run.tag = runs[r].tag
    BY <1>1, <2>1 DEF Run, Active, Ended, RunInvariant
  <2> QED
    BY <1>1, <2>2, <2>3, ActiveMoves
<1>4. CASE AwaitFlight(r)
  <2> DEFINE step == CASE runs[r].version \in visible -> "gates"
                       [] runs[r].version \notin visible /\ runs[r].attempts + 1 = MaxAttempts -> "failed"
                       [] OTHER -> "wait"
             run == [runs[r] EXCEPT !.step = step, !.attempts = @ + 1]
  <2>1. /\ step \in {"gates", "failed", "wait"}
        /\ step = "gates" => runs[r].version \in visible
        /\ step = "wait" => runs[r].attempts + 1 # MaxAttempts
        /\ runs[r].step = "wait"
        /\ runs[r].attempts \in Nat /\ runs[r].attempts < MaxAttempts
        /\ runs[r].attempts + 1 \in 0..MaxAttempts
    BY <1>1, <1>4 DEF AwaitFlight, At, Run, RunInvariant
  <2>2. runs' = [runs EXCEPT ![r] = run] /\ UNCHANGED <<visible, armed, registry, uploads>>
    BY <1>1, <1>4 DEF AwaitFlight
  <2> HIDE DEF step
  <2>3. run \in Run /\ run.tag = runs[r].tag
    <3> DEFINE attempts == runs[r].attempts + 1
    <3>1. run = [runs[r] EXCEPT !.step = step, !.attempts = attempts] /\ attempts \in 0..MaxAttempts
      BY <2>1
    <3>2. step \in Active \cup Ended \cup {"idle", "queued"}
      BY <2>1 DEF Active, Ended
    <3> HIDE DEF attempts, run
    <3> QED
      BY <1>1, <3>1, <3>2 DEF Run
  <2>4. RunInvariant(run)
    BY <1>1, <2>1 DEF Run, RunInvariant
  <2> QED
    BY <1>1, <2>2, <2>3, <2>4, ActiveMoves
<1>5. CASE PassGates(r)
  <2> DEFINE step == IF runs[r].bridge THEN "stamp" ELSE "ref"
             run == [runs[r] EXCEPT !.step = step, !.checked = TRUE]
  <2>1. step \in {"stamp", "ref"} /\ (step = "stamp" <=> runs[r].bridge) /\ runs[r].step = "gates"
    BY <1>5 DEF PassGates, At
  <2>2. runs' = [runs EXCEPT ![r] = run] /\ UNCHANGED <<visible, armed, registry, uploads>>
    BY <1>1, <1>5 DEF PassGates
  <2> HIDE DEF step
  <2>3. run \in Run /\ RunInvariant(run) /\ run.tag = runs[r].tag
    BY <1>1, <2>1 DEF Run, Active, RunInvariant
  <2> QED
    BY <1>1, <2>2, <2>3, ActiveMoves
<1>6. CASE StampVersion(r)
  <2> DEFINE run == [runs[r] EXCEPT !.step = "artifact", !.manifest = runs[r].version]
  <2>1. runs[r].step = "stamp"
    BY <1>6 DEF StampVersion, At
  <2>2. run \in Run /\ RunInvariant(run) /\ run.tag = runs[r].tag
    BY <1>1, <2>1 DEF Run, Active, RunInvariant
  <2>3. runs' = [runs EXCEPT ![r] = run] /\ UNCHANGED <<visible, armed, registry, uploads>>
    BY <1>1, <1>6 DEF StampVersion
  <2> QED
    BY <1>1, <2>2, <2>3, ActiveMoves
<1> QED
  BY <1>2, <1>3, <1>4, <1>5, <1>6

LEMMA LateStepInvariant ==
  ASSUME ReleaseInvariant, NEW r \in Runs,
         CheckRef(r) \/ ProveArtifact(r) \/ QueryRegistry(r) \/ EndWithoutToken(r)
  PROVE  ReleaseInvariant'
<1>1. runs[r] \in Run /\ runs \in [Runs -> Run] /\ runs[r].step \in Active /\ RunInvariant(runs[r])
  BY DEF ReleaseInvariant, TypeOK, CheckRef, ProveArtifact, QueryRegistry, EndWithoutToken, At, Active
<1>2. CASE CheckRef(r)
  <2> DEFINE step == IF runs[r].ref \in {NoVersion, runs[r].manifest} THEN "artifact" ELSE "failed"
             run == [runs[r] EXCEPT !.step = step]
  <2>1. step \in {"artifact", "failed"} /\ runs[r].step = "ref"
    BY <1>2 DEF CheckRef, At
  <2>2. runs' = [runs EXCEPT ![r] = run] /\ UNCHANGED <<visible, armed, registry, uploads>>
    BY <1>1, <1>2 DEF CheckRef, Go
  <2> HIDE DEF step
  <2>3. run \in Run /\ RunInvariant(run) /\ run.tag = runs[r].tag
    BY <1>1, <2>1 DEF Run, Active, Ended, RunInvariant
  <2> QED
    BY <1>1, <2>2, <2>3, ActiveMoves
<1>3. CASE ProveArtifact(r)
  <2> DEFINE step == IF runs[r].publish THEN "query" ELSE "verified"
             run == [runs[r] EXCEPT !.step = step, !.proved = runs[r].manifest]
  <2>1. step \in {"query", "verified"} /\ runs[r].step = "artifact"
    BY <1>3 DEF ProveArtifact, At
  <2>2. runs' = [runs EXCEPT ![r] = run] /\ UNCHANGED <<visible, armed, registry, uploads>>
    BY <1>1, <1>3 DEF ProveArtifact
  <2> HIDE DEF step
  <2>3. run \in Run /\ run.tag = runs[r].tag
    <3> DEFINE proved == runs[r].manifest
    <3>1. run = [runs[r] EXCEPT !.step = step, !.proved = proved]
      OBVIOUS
    <3>2. proved \in Manifests \cup {NoVersion} /\ step \in Active \cup Ended \cup {"idle", "queued"}
      BY <1>1, <2>1 DEF Run, Active, Ended
    <3> HIDE DEF proved, run
    <3> QED
      BY <1>1, <3>1, <3>2 DEF Run
  <2>4. RunInvariant(run)
    BY <1>1, <2>1 DEF Run, RunInvariant
  <2> QED
    BY <1>1, <2>2, <2>3, <2>4, ActiveMoves
<1>4. CASE QueryRegistry(r)
  <2> DEFINE refused == \/ runs[r].manifest \in Malformed
                        \/ runs[r].manifest \in Prereleases /\ runs[r].tag = "latest"
             step == CASE refused -> "failed"
                       [] ~refused /\ runs[r].manifest \in registry -> "skipped"
                       [] OTHER -> "upload"
             run == [runs[r] EXCEPT !.step = step, !.token = armed]
  <2>1. /\ step \in {"failed", "skipped", "upload"}
        /\ step = "upload" =>
             /\ runs[r].manifest \notin registry
             /\ runs[r].tag = "latest" => runs[r].manifest \notin Prereleases
        /\ runs[r].step = "query"
        /\ armed \in BOOLEAN
    BY <1>4 DEF QueryRegistry, At, ReleaseInvariant, TypeOK
  <2>2. runs' = [runs EXCEPT ![r] = run] /\ UNCHANGED <<visible, armed, registry, uploads>>
    BY <1>1, <1>4 DEF QueryRegistry
  <2> HIDE DEF step
  <2>3. run \in Run /\ run.tag = runs[r].tag
    BY <1>1, <2>1 DEF Run, Active, Ended
  <2>4. RunInvariant(run)
    BY <1>1, <2>1 DEF Run, RunInvariant
  <2> QED
    BY <1>1, <2>2, <2>3, <2>4, ActiveMoves
<1>5. CASE EndWithoutToken(r)
  <2> DEFINE step == IF runs[r].bridge THEN "rehearsed" ELSE "failed"
             run == [runs[r] EXCEPT !.step = step]
  <2>1. step \in {"rehearsed", "failed"} /\ runs[r].step = "upload"
    BY <1>5 DEF EndWithoutToken, At
  <2>2. runs' = [runs EXCEPT ![r] = run] /\ UNCHANGED <<visible, armed, registry, uploads>>
    BY <1>1, <1>5 DEF EndWithoutToken, Go
  <2> HIDE DEF step
  <2>3. run \in Run /\ RunInvariant(run) /\ run.tag = runs[r].tag
    BY <1>1, <2>1 DEF Run, Ended, RunInvariant
  <2> QED
    BY <1>1, <2>2, <2>3, ActiveMoves
<1> QED
  BY <1>2, <1>3, <1>4, <1>5

\* The one step that changes the registry.
LEMMA UploadInvariant ==
  ASSUME ReleaseInvariant, NEW r \in Runs, Upload(r)
  PROVE  ReleaseInvariant'
<1>1. /\ runs[r] \in Run /\ runs \in [Runs -> Run] /\ runs[r].step = "upload"
      /\ RunInvariant(runs[r])
      /\ \A s \in Runs \ {r} : runs[s].step \in Active => runs[s].tag # runs[r].tag
  BY OwnLane DEF ReleaseInvariant, TypeOK, Upload, At, Active
<1>2. CASE runs[r].manifest \in registry
  <2> DEFINE run == [runs[r] EXCEPT !.step = "refused"]
  <2>1. runs' = [runs EXCEPT ![r] = run] /\ UNCHANGED <<visible, armed, registry, uploads>>
    BY <1>1, <1>2 DEF Upload, Go
  <2>2. run \in Run /\ RunInvariant(run) /\ run.tag = runs[r].tag
    BY <1>1, <1>2 DEF Run, Ended, RunInvariant, PublishedElsewhere
  <2> QED
    BY <1>1, <2>1, <2>2, ActiveMoves DEF Active
<1>3. CASE runs[r].manifest \notin registry
  <2> DEFINE upload == [run |-> r, version |-> runs[r].manifest, tag |-> runs[r].tag]
  <2>1. PICK outcome \in {"published", "failed"} : runs' = [runs EXCEPT ![r].step = outcome]
    BY <1>3 DEF Upload, Go
  <2>2. /\ registry' = registry \cup {runs[r].manifest}
        /\ uploads' = uploads \cup {upload}
        /\ UNCHANGED <<visible, armed>>
    BY <1>3 DEF Upload
  <2> DEFINE run == [runs[r] EXCEPT !.step = outcome]
  <2>3. run \in Run /\ runs' = [runs EXCEPT ![r] = run] /\ outcome \in Ended \ Active
    BY <1>1, <2>1 DEF Run, Ended, Active
  <2>4. upload \in [run : Runs, version : Manifests, tag : Tags]
    BY <1>1 DEF Run
  <2>5. TypeOK'
    BY <1>1, <2>2, <2>3, <2>4 DEF ReleaseInvariant, TypeOK, Run
  <2>6. LanesAreExclusive'
    BY <1>1, <2>1, <2>3 DEF ReleaseInvariant, LanesAreExclusive
  <2>7. UploadsAccounted'
    <3>1. ASSUME NEW u \in uploads' PROVE runs'[u.run].step \in Ended
      <4>1. CASE u = upload
        BY <1>1, <2>3, <4>1
      <4>2. CASE u \in uploads
        <5>1. u.run \in Runs /\ runs[u.run].step \in Ended
          BY <4>2 DEF ReleaseInvariant, TypeOK, UploadsAccounted
        <5>2. u.run # r
          BY <1>1, <5>1 DEF Ended
        <5> QED
          BY <1>1, <2>1, <5>1, <5>2
      <4> QED
        BY <2>2, <4>1, <4>2
    <3>2. ASSUME NEW v \in registry' PROVE \E u \in uploads' : u.version = v
      <4>1. CASE v \in registry
        BY <2>2, <4>1 DEF ReleaseInvariant, UploadsAccounted
      <4>2. CASE v = runs[r].manifest
        <5>1. upload \in uploads' /\ upload.version = v
          BY <2>2, <4>2
        <5> QED
          BY <5>1
      <4> QED
        BY <2>2, <4>1, <4>2
    <3> QED
      BY <3>1, <3>2 DEF UploadsAccounted
  <2>8. \A s \in Runs : RunInvariant(runs[s])'
    <3> TAKE s \in Runs
    <3>1. CASE s = r
      BY <1>1, <2>1, <2>2, <3>1 DEF RunInvariant, Run
    <3>2. CASE s # r
      <4>1. runs'[s] = runs[s] /\ RunInvariant(runs[s])
        BY <1>1, <2>1, <3>2 DEF ReleaseInvariant
      <4>2. PublishedElsewhere(runs[s]) => PublishedElsewhere(runs[s])'
        BY <2>2, <4>1 DEF PublishedElsewhere
      <4>3. runs[s].step = "upload" /\ runs[s].manifest \in registry'
              => PublishedElsewhere(runs[s])'
        <5> SUFFICES ASSUME runs[s].step = "upload", runs[s].manifest \in registry'
                     PROVE  PublishedElsewhere(runs[s])'
          OBVIOUS
        <5>1. CASE runs[s].manifest \in registry
          BY <4>1, <4>2, <5>1 DEF RunInvariant
        <5>2. CASE runs[s].manifest = runs[r].manifest
          <6>1. runs[r].tag # runs[s].tag
            BY <1>1, <3>2 DEF Active
          <6>2. upload \in uploads' /\ upload.version = runs[s].manifest /\ upload.tag # runs[s].tag
            BY <2>2, <5>2, <6>1
          <6> HIDE DEF upload
          <6> QED
            BY <4>1, <6>2 DEF PublishedElsewhere
        <5> QED
          BY <2>2, <5>1, <5>2
      <4> QED
        BY <2>2, <4>1, <4>2, <4>3 DEF RunInvariant
    <3> QED
      BY <3>1, <3>2
  <2>9. BridgeFollowsFlight' /\ LatestIsStable' /\ UploadsWereProved'
    <3>1. /\ runs[r].bridge => runs[r].version \in visible
          /\ runs[r].manifest = runs[r].version
          /\ runs[r].checked /\ runs[r].proved = runs[r].manifest
          /\ runs[r].tag = "latest" => runs[r].manifest \notin Prereleases
      BY <1>1 DEF RunInvariant
    <3>2. \A u \in uploads : u.run \in Runs /\ u.run # r
      BY <1>1 DEF ReleaseInvariant, TypeOK, UploadsAccounted, Ended
    <3> QED
      BY <1>1, <2>1, <2>2, <3>1, <3>2
      DEF ReleaseInvariant, BridgeFollowsFlight, LatestIsStable, UploadsWereProved, Run
  <2> QED
    BY <2>5, <2>6, <2>7, <2>8, <2>9 DEF ReleaseInvariant
<1> QED
  BY <1>2, <1>3

-----------------------------------------------------------------------------
(* The theorems                                                              *)

\* Every step of every run, and of the environment, preserves the invariant.
LEMMA NextInvariant == ReleaseInvariant /\ [Next]_vars => ReleaseInvariant'
<1> SUFFICES ASSUME ReleaseInvariant, [Next]_vars PROVE ReleaseInvariant'
  OBVIOUS
<1> USE DEF ReleaseInvariant
<1>1. CASE \E v \in Versions \ Malformed : FlightAppears(v)
  BY <1>1 DEF FlightAppears, TypeOK, LanesAreExclusive, UploadsAccounted, RunInvariant,
              PublishedElsewhere, BridgeFollowsFlight, LatestIsStable, UploadsWereProved
<1>2. CASE ArmToken \/ UNCHANGED vars
  <2>1. UNCHANGED <<visible, runs, registry, uploads>> /\ armed' \in BOOLEAN
    BY <1>2 DEF ArmToken, vars, TypeOK
  <2>2. TypeOK' /\ LanesAreExclusive' /\ UploadsAccounted'
    BY <2>1 DEF TypeOK, LanesAreExclusive, UploadsAccounted
  <2>3. (\A r \in Runs : RunInvariant(runs[r]))'
    BY <2>1 DEF RunInvariant, PublishedElsewhere
  <2>4. BridgeFollowsFlight' /\ LatestIsStable' /\ UploadsWereProved'
    BY <2>1 DEF BridgeFollowsFlight, LatestIsStable, UploadsWereProved
  <2> QED
    BY <2>2, <2>3, <2>4
<1> HIDE DEF ReleaseInvariant
<1>3. ASSUME NEW r \in Runs, Start(r) \/ Step(r) \/ Fail(r) PROVE ReleaseInvariant'
  BY <1>3, StartInvariant, EarlyStepInvariant, LateStepInvariant, UploadInvariant DEF Step
<1> QED
  BY <1>1, <1>2, <1>3, TriggerInvariant DEF Next

\* Every reachable state satisfies the inductive invariant.
THEOREM Invariance == Spec => []ReleaseInvariant
  BY InitInvariant, NextInvariant, PTL DEF Spec

\* The variables keep their types.
THEOREM TypeCorrect == Spec => []TypeOK
<1>1. ReleaseInvariant => TypeOK
  BY DEF ReleaseInvariant
<1> QED
  BY <1>1, Invariance, PTL

\* The bridge publishes only versions Flight has published, and only the one
\* its run was triggered for.
THEOREM FlightIsAuthoritative == Spec => []BridgeFollowsFlight
<1>1. ReleaseInvariant => BridgeFollowsFlight
  BY DEF ReleaseInvariant
<1> QED
  BY <1>1, Invariance, PTL

\* No prerelease is published on latest, by either workflow.
THEOREM StableLatest == Spec => []LatestIsStable
<1>1. ReleaseInvariant => LatestIsStable
  BY DEF ReleaseInvariant
<1> QED
  BY <1>1, Invariance, PTL

\* Only artifacts that passed the gates and the consumer proof are published.
THEOREM ProvedUploads == Spec => []UploadsWereProved
<1>1. ReleaseInvariant => UploadsWereProved
  BY DEF ReleaseInvariant
<1> QED
  BY <1>1, Invariance, PTL

\* npm refuses a run only for what a run of another channel has published.
THEOREM CrossLaneRefusals == Spec => []RefusalsCrossLanes
<1>1. ReleaseInvariant => RefusalsCrossLanes
  BY DEF ReleaseInvariant, RunInvariant, RefusalsCrossLanes, PublishedElsewhere, At
<1> QED
  BY <1>1, Invariance, PTL

\* Redelivering an event whose version is published has no effect.
THEOREM HarmlessRedelivery == Spec => []RedeliveryIsHarmless
<1>1. ReleaseInvariant => RedeliveryIsHarmless
  BY DEF ReleaseInvariant, RunInvariant, RedeliveryIsHarmless
<1> QED
  BY <1>1, Invariance, PTL

=============================================================================
