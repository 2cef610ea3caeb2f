----------------------------- MODULE ImageBuilds -----------------------------
(***************************************************************************)
(* Custom images (control_plane/image_builder.py, routers/images.py, the   *)
(* image tools of hosted_mcp.py and SandboxImageRepository).  A request    *)
(* counts, looks for a cached build and inserts a row, each an await of    *)
(* its own; a background task of the same process then creates a ConfigMap *)
(* and a Job, polls it, scans the image, removes both and marks the row.   *)
(***************************************************************************)
EXTENDS Naturals, FiniteSets

CONSTANTS
    Builders,        \* callers of either entry point, one request at a time each
    BuilderAccount,  \* the account of a caller
    Images,          \* ids of rows, never used twice
    Specs,           \* what a cache_key stands for
    MaxImages,       \* BOXXKITE_MAX_IMAGES_PER_ACCOUNT
    MaxBuilds,       \* BOXXKITE_GLOBAL_MAX_CONCURRENT_IMAGE_BUILDS
    CacheHours,      \* BOXXKITE_IMAGE_BUILD_CACHE_HOURS
    ScanRequired,    \* BOXXKITE_IMAGE_SCAN_REQUIRED
    BuildFaults,     \* what may go wrong: configmap, job, read, digest, scan,
                     \* delete, mark, stop
    MaxHour,         \* bound: hours that pass
    MaxStops         \* bound: deaths of the process

BuilderAccounts == {BuilderAccount[b] : b \in Builders}
NoImage == "no image"
NoSpec == "no spec"
NoOwner == "no owner"

ASSUME BuildAssumption ==
    /\ IsFiniteSet(Builders) /\ IsFiniteSet(Images) /\ Builders # {}
    /\ MaxImages \in Nat \ {0} /\ MaxBuilds \in Nat \ {0} /\ CacheHours \in Nat
    /\ MaxHour \in Nat /\ MaxStops \in Nat /\ ScanRequired \in BOOLEAN
    /\ NoImage \notin Images /\ NoSpec \notin Specs /\ NoOwner \notin BuilderAccounts

VARIABLES
    status,     \* sandbox_images.status
    owner,      \* account_id
    spec,       \* cache_key
    ref,        \* registry_ref and digest: the id of the row that was built for them
    created,    \* created_at
    removed,    \* rows with a deleted_at
    job,        \* the builder Job of an image
    configs,    \* images with a build-context ConfigMap
    registry,   \* images pushed to the registry
    infected,   \* those in which Trivy finds a severity that blocks
    build,      \* the await the background task of an image is at
    outcome,    \* its BuildOutcome
    ask,        \* the await a request is at
    wanted,     \* the spec it asks for
    cached,     \* the row find_cached_completed returned to it
    mine,       \* the row it inserted and completes itself
    hour,       \* the clock
    stops,      \* deaths of the process so far
    passed,     \* history: images that went through the scan gate
    spilled     \* history: images whose cleanup failed or never ran

rowvars  == <<status, owner, spec, ref, created, removed>>
kubevars == <<job, configs, registry, infected>>
taskvars == <<build, outcome>>
askvars  == <<ask, wanted, cached, mine>>
histvars == <<passed, spilled>>
buildvars == <<rowvars, kubevars, taskvars, askvars, hour, stops, histvars>>

Outcomes == {"completed", "failed", "rejected"}
InFlightStatus == {"queued", "building", "scanning"}

BuildTypeOK ==
    /\ status \in [Images -> {"none"} \cup InFlightStatus \cup Outcomes]
    /\ owner \in [Images -> BuilderAccounts \cup {NoOwner}]
    /\ spec \in [Images -> Specs \cup {NoSpec}]
    /\ ref \in [Images -> Images \cup {NoImage}]
    /\ created \in [Images -> Nat]
    /\ removed \subseteq Images
    /\ job \in [Images -> {"none", "running", "succeeded", "failed"}]
    /\ configs \subseteq Images /\ infected \subseteq registry /\ registry \subseteq Images
    /\ build \in [Images -> {"none", "start", "configmap", "job", "poll", "collect",
                             "unjob", "unconfig", "scanning", "mark", "fail"}]
    /\ outcome \in [Images -> Outcomes \cup {"none"}]
    /\ ask \in [Builders -> {"idle", "inflight", "cache", "insert", "reuse"}]
    /\ wanted \in [Builders -> Specs \cup {NoSpec}]
    /\ cached \in [Builders -> Images \cup {NoImage}]
    /\ mine \in [Builders -> Images \cup {NoImage}]
    /\ hour \in Nat /\ stops \in Nat
    /\ passed \subseteq Images /\ spilled \subseteq Images

BuildInit ==
    /\ status = [i \in Images |-> "none"] /\ owner = [i \in Images |-> NoOwner]
    /\ spec = [i \in Images |-> NoSpec] /\ ref = [i \in Images |-> NoImage]
    /\ created = [i \in Images |-> 0] /\ removed = {}
    /\ job = [i \in Images |-> "none"] /\ configs = {} /\ registry = {} /\ infected = {}
    /\ build = [i \in Images |-> "none"] /\ outcome = [i \in Images |-> "none"]
    /\ ask = [b \in Builders |-> "idle"]
    /\ wanted = [b \in Builders |-> NoSpec] /\ cached = [b \in Builders |-> NoImage]
    /\ mine = [b \in Builders |-> NoImage]
    /\ hour = 0 /\ stops = 0
    /\ passed = {} /\ spilled = {}

-----------------------------------------------------------------------------
(* create_image_build and create_sandbox_image: the same awaits in the same *)
(* order.                                                                   *)

ActiveImages(a) == {i \in Images \ removed : owner[i] = a}
InFlight == {i \in Images : status[i] \in InFlightStatus}
Unborn == {i \in Images : status[i] = "none"}

AskTo(b, from, to) == ask[b] = from /\ ask' = [ask EXCEPT ![b] = to]
Answered(b) ==
    /\ ask' = [ask EXCEPT ![b] = "idle"]
    /\ wanted' = [wanted EXCEPT ![b] = NoSpec]
    /\ cached' = [cached EXCEPT ![b] = NoImage]
    /\ mine' = [mine EXCEPT ![b] = NoImage]

\* count_active_for_account, against the cap of the account.
CountImages(b, k) ==
    /\ AskTo(b, "idle", "inflight")
    /\ Cardinality(ActiveImages(BuilderAccount[b])) < MaxImages
    /\ wanted' = [wanted EXCEPT ![b] = k]
    /\ UNCHANGED <<rowvars, kubevars, taskvars, cached, mine, hour, stops, histvars>>

\* count_in_flight_total, against the cap of the cluster.
CountBuilds(b) ==
    /\ ask[b] = "inflight"
    /\ IF Cardinality(InFlight) < MaxBuilds
       THEN ask' = [ask EXCEPT ![b] = "cache"] /\ UNCHANGED <<wanted, cached, mine>>
       ELSE Answered(b)
    /\ UNCHANGED <<rowvars, kubevars, taskvars, hour, stops, histvars>>

Cacheable(a, k) ==
    {i \in ActiveImages(a) : /\ spec[i] = k /\ status[i] = "completed"
                             /\ hour <= created[i] + CacheHours}

\* find_cached_completed: the most recent match.
FindCached(b) ==
    /\ AskTo(b, "cache", "insert")
    /\ LET hits == Cacheable(BuilderAccount[b], wanted[b])
       IN  \/ hits = {} /\ UNCHANGED cached
           \/ \E i \in hits : /\ \A h \in hits : created[h] <= created[i]
                              /\ cached' = [cached EXCEPT ![b] = i]
    /\ UNCHANGED <<rowvars, kubevars, taskvars, wanted, mine, hour, stops, histvars>>

\* The row is inserted; without a hit it gets a task, with one the request
\* itself completes it by the next await.
InsertImage(b) ==
    /\ ask[b] = "insert"
    /\ \E i \in Unborn :
        /\ status' = [status EXCEPT ![i] = "queued"]
        /\ owner' = [owner EXCEPT ![i] = BuilderAccount[b]]
        /\ spec' = [spec EXCEPT ![i] = wanted[b]]
        /\ created' = [created EXCEPT ![i] = hour]
        /\ \/ /\ cached[b] = NoImage
              /\ build' = [build EXCEPT ![i] = "start"]
              /\ Answered(b)
           \/ /\ cached[b] # NoImage
              /\ ask' = [ask EXCEPT ![b] = "reuse"]
              /\ mine' = [mine EXCEPT ![b] = i]
              /\ UNCHANGED <<build, wanted, cached>>
    /\ UNCHANGED <<ref, removed, kubevars, outcome, hour, stops, histvars>>

\* mark_completed with the digest, the reference and the scan of the hit.
ReuseImage(b) ==
    /\ ask[b] = "reuse"
    /\ status' = [status EXCEPT ![mine[b]] = "completed"]
    /\ ref' = [ref EXCEPT ![mine[b]] = ref[cached[b]]]
    /\ Answered(b)
    /\ UNCHANGED <<owner, spec, created, removed, kubevars, taskvars, hour,
                   stops, histvars>>

\* delete_image, delete_sandbox_image: the row only, never the registry, at any stage of the build.
DeleteImage(i) ==
    /\ status[i] # "none" /\ i \notin removed
    /\ removed' = removed \cup {i}
    /\ UNCHANGED <<status, owner, spec, ref, created, kubevars, taskvars, askvars,
                   hour, stops, histvars>>

\* _resolve_image_ref_or_404: the rows a sandbox can be started from.
Startable == {i \in Images \ removed : status[i] = "completed" /\ ref[i] # NoImage}

-----------------------------------------------------------------------------
(* dispatch_build and KanikoJobBuildRunner.run_build.                       *)

BuildTo(i, from, to) == build[i] = from /\ build' = [build EXCEPT ![i] = to]
Ends(i, o) == outcome' = [outcome EXCEPT ![i] = o]

MarkBuilding(i) ==
    /\ BuildTo(i, "start", "configmap")
    /\ status' = [status EXCEPT ![i] = "building"]
    /\ UNCHANGED <<owner, spec, ref, created, removed, kubevars, outcome, askvars,
                   hour, stops, histvars>>

\* create_namespaced_config_map.  If it fails, applied or not, run_build
\* returns, or raises, before the try whose finally cleans up.  (An exception
\* other than ApiException, here and below, ends in the same mark_failed by
\* the handler of dispatch_build; the two ways are not told apart.)
CreateConfigMap(i) ==
    /\ \/ /\ BuildTo(i, "configmap", "job")
          /\ configs' = configs \cup {i}
          /\ UNCHANGED <<outcome, spilled>>
       \/ /\ "configmap" \in BuildFaults
          /\ BuildTo(i, "configmap", "scanning") /\ Ends(i, "failed")
          /\ \/ configs' = configs \cup {i} /\ spilled' = spilled \cup {i}
             \/ UNCHANGED <<configs, spilled>>
    /\ UNCHANGED <<rowvars, job, registry, infected, askvars, hour, stops, passed>>

\* Mutation: a Job that could not be created is not cleaned up after.
CreateJobLeaves(i) ==
    /\ \/ /\ BuildTo(i, "job", "poll")
          /\ job' = [job EXCEPT ![i] = "running"]
          /\ UNCHANGED outcome
       \/ /\ "job" \in BuildFaults
          /\ BuildTo(i, "job", "scanning") /\ Ends(i, "failed")
          /\ UNCHANGED job
    /\ UNCHANGED <<rowvars, configs, registry, infected, askvars, hour, stops, histvars>>

\* create_namespaced_job: refused, or applied with the answer lost, the
\* finally removes both objects.
CreateJob(i) ==
    /\ \/ /\ BuildTo(i, "job", "poll")
          /\ job' = [job EXCEPT ![i] = "running"]
          /\ UNCHANGED outcome
       \/ /\ "job" \in BuildFaults
          /\ BuildTo(i, "job", "unjob") /\ Ends(i, "failed")
          /\ \/ job' = [job EXCEPT ![i] = "running"]
             \/ UNCHANGED job
    /\ UNCHANGED <<rowvars, configs, registry, infected, askvars, hour, stops, histvars>>

\* Kaniko, with backoffLimit 0: it pushes an image or fails, once.
KanikoEnds(i) ==
    /\ job[i] = "running"
    /\ \/ /\ job' = [job EXCEPT ![i] = "succeeded"]
          /\ registry' = registry \cup {i}
          /\ infected' = infected \cup {i} \/ UNCHANGED infected
       \/ job' = [job EXCEPT ![i] = "failed"] /\ UNCHANGED <<registry, infected>>
    /\ UNCHANGED <<rowvars, configs, taskvars, askvars, hour, stops, histvars>>

\* _poll_job: a Job that succeeded is collected; one that failed, cannot be
\* read or runs past the deadline fails the build.
PollJob(i) ==
    /\ \/ job[i] = "succeeded" /\ BuildTo(i, "poll", "collect") /\ UNCHANGED outcome
       \/ /\ job[i] = "failed" \/ job[i] = "running" \/ "read" \in BuildFaults
          /\ BuildTo(i, "poll", "unjob") /\ Ends(i, "failed")
    /\ UNCHANGED <<rowvars, kubevars, askvars, hour, stops, histvars>>

\* Mutation: a scanner that cannot run counts as one that found nothing.
CollectUnscanned(i) ==
    /\ BuildTo(i, "collect", "unjob")
    /\ \/ i \notin infected /\ Ends(i, "completed") /\ passed' = passed \cup {i}
       \/ i \in infected /\ Ends(i, "rejected") /\ UNCHANGED passed
       \/ "digest" \in BuildFaults /\ Ends(i, "failed") /\ UNCHANGED passed
       \/ "scan" \in BuildFaults /\ Ends(i, "completed") /\ UNCHANGED passed
    /\ UNCHANGED <<rowvars, kubevars, askvars, hour, stops, spilled>>

\* _collect_success: the digest of the pod, the scan, the gate.
Collect(i) ==
    /\ BuildTo(i, "collect", "unjob")
    /\ \/ i \notin infected /\ Ends(i, "completed") /\ passed' = passed \cup {i}
       \/ i \in infected /\ Ends(i, "rejected") /\ UNCHANGED passed
       \/ "digest" \in BuildFaults /\ Ends(i, "failed") /\ UNCHANGED passed
       \/ /\ "scan" \in BuildFaults
          /\ Ends(i, IF ScanRequired THEN "failed" ELSE "completed")
          /\ UNCHANGED passed
    /\ UNCHANGED <<rowvars, kubevars, askvars, hour, stops, spilled>>

\* _cleanup: two deletes, whose failures are logged.
DeleteJob(i) ==
    /\ BuildTo(i, "unjob", "unconfig")
    /\ \/ job' = [job EXCEPT ![i] = "none"] /\ UNCHANGED spilled
       \/ "delete" \in BuildFaults /\ spilled' = spilled \cup {i} /\ UNCHANGED job
    /\ UNCHANGED <<rowvars, configs, registry, infected, outcome, askvars, hour, stops, passed>>

DeleteConfigMap(i) ==
    /\ BuildTo(i, "unconfig", "scanning")
    /\ \/ configs' = configs \ {i} /\ UNCHANGED spilled
       \/ "delete" \in BuildFaults /\ spilled' = spilled \cup {i} /\ UNCHANGED configs
    /\ UNCHANGED <<rowvars, job, registry, infected, outcome, askvars, hour, stops, passed>>

\* mark_scanning, whatever the outcome.
MarkScanning(i) ==
    /\ BuildTo(i, "scanning", "mark")
    /\ status' = [status EXCEPT ![i] = "scanning"]
    /\ UNCHANGED <<owner, spec, ref, created, removed, kubevars, outcome, askvars,
                   hour, stops, histvars>>

\* mark_completed, mark_rejected, mark_failed.
MarkOutcome(i) ==
    /\ BuildTo(i, "mark", "none")
    /\ status' = [status EXCEPT ![i] = outcome[i]]
    /\ ref' = IF outcome[i] = "completed" THEN [ref EXCEPT ![i] = i] ELSE ref
    /\ Ends(i, "none")
    /\ UNCHANGED <<owner, spec, created, removed, kubevars, askvars, hour, stops, histvars>>

\* A mark raises, its update committed or not: the handler of exceptions
\* marks the row failed,
MarkRaises(i) ==
    /\ "mark" \in BuildFaults
    /\ \/ /\ BuildTo(i, "start", "fail")
          /\ status' = [status EXCEPT ![i] = "building"] \/ UNCHANGED status
          /\ UNCHANGED ref
       \/ /\ BuildTo(i, "scanning", "fail")
          /\ status' = [status EXCEPT ![i] = "scanning"] \/ UNCHANGED status
          /\ UNCHANGED ref
       \/ /\ BuildTo(i, "mark", "fail")
          /\ \/ /\ status' = [status EXCEPT ![i] = outcome[i]]
                /\ ref' = IF outcome[i] = "completed" THEN [ref EXCEPT ![i] = i] ELSE ref
             \/ UNCHANGED <<status, ref>>
    /\ Ends(i, "none")
    /\ UNCHANGED <<owner, spec, created, removed, kubevars, askvars, hour, stops, histvars>>

\* or gives up on the row.
MarkFailed(i) ==
    /\ BuildTo(i, "fail", "none")
    /\ \/ status' = [status EXCEPT ![i] = "failed"]
       \/ "mark" \in BuildFaults /\ UNCHANGED status
    /\ UNCHANGED <<owner, spec, ref, created, removed, kubevars, outcome, askvars,
                   hour, stops, histvars>>

-----------------------------------------------------------------------------
\* The process dies with its requests and tasks; nothing takes them up again.
ProcessStops ==
    /\ "stop" \in BuildFaults /\ stops < MaxStops
    /\ stops' = stops + 1
    /\ build' = [i \in Images |-> "none"] /\ outcome' = [i \in Images |-> "none"]
    /\ ask' = [b \in Builders |-> "idle"]
    /\ wanted' = [b \in Builders |-> NoSpec]
    /\ cached' = [b \in Builders |-> NoImage] /\ mine' = [b \in Builders |-> NoImage]
    /\ spilled' = spilled \cup {i \in Images : build[i] # "none"}
    /\ UNCHANGED <<rowvars, kubevars, hour, passed>>

\* A request takes far less than an hour.
HourPasses ==
    /\ hour < MaxHour /\ \A b \in Builders : ask[b] = "idle"
    /\ hour' = hour + 1
    /\ UNCHANGED <<rowvars, kubevars, taskvars, askvars, stops, histvars>>

BuildRequest(b) ==
    \/ \E k \in Specs : CountImages(b, k)
    \/ CountBuilds(b) \/ FindCached(b) \/ InsertImage(b) \/ ReuseImage(b)

BuildTask(i) ==
    \/ MarkBuilding(i) \/ CreateConfigMap(i) \/ CreateJob(i) \/ PollJob(i)
    \/ Collect(i) \/ DeleteJob(i) \/ DeleteConfigMap(i) \/ MarkScanning(i)
    \/ MarkOutcome(i) \/ MarkRaises(i) \/ MarkFailed(i)

BuildNext ==
    \/ \E b \in Builders : BuildRequest(b)
    \/ \E i \in Images : BuildTask(i) \/ KanikoEnds(i) \/ DeleteImage(i)
    \/ ProcessStops
    \/ HourPasses

BuildSpec == BuildInit /\ [][BuildNext]_buildvars

-----------------------------------------------------------------------------
(* Properties.                                                              *)

\* Where the scan is required, a sandbox of an account runs an image that this
\* account built and that went through the scan gate clean, whichever entry point,
\* cache hit, failed mark or delete came between (_resolve_image_ref_or_404, _scan_gate).
OnlyScannedRuns ==
    ScanRequired =>
        \A i \in Startable : ref[i] \in passed \ infected /\ owner[ref[i]] = owner[i]

\* Both caps are counted before the row is inserted, so each can be exceeded, but by
\* no more than the other callers that may have counted meanwhile (create_image_build,
\* create_sandbox_image).
CapsOvershoot ==
    /\ Cardinality(InFlight) < MaxBuilds + Cardinality(Builders)
    /\ \A a \in BuilderAccounts :
         Cardinality(ActiveImages(a)) < MaxImages + Cardinality({b \in Builders : BuilderAccount[b] = a})

\* After a build that no cleanup failed of, nothing is left in the cluster: a Job or
\* a ConfigMap of an image means that its task has still to remove it (run_build,
\* _cleanup).
NothingLeft ==
    \A i \in Images \ spilled :
        /\ job[i] # "none" => build[i] \in {"poll", "collect", "unjob"}
        /\ i \in configs => build[i] \in {"job", "poll", "collect", "unjob", "unconfig"}
=============================================================================
