------------------------------- MODULE Volumes -------------------------------
(***************************************************************************)
(* Storage volumes (control_plane/volume_builder.py, routers/volumes.py,   *)
(* the volume tools of hosted_mcp.py and SandboxVolumeRepository): a row,  *)
(* a background task that creates its PersistentVolumeClaim and waits for  *)
(* it to bind, and deletes that come at any time.                          *)
(***************************************************************************)
EXTENDS Naturals, FiniteSets

CONSTANTS
    Tenants,         \* requests of one account, one at a time each
    VolumeIds,       \* ids of rows, never used twice
    ClaimNames,      \* names of PersistentVolumeClaims
    MaxVolumes,      \* BOXXKITE_MAX_VOLUMES_PER_ACCOUNT
    VolumeFaults,    \* what may go wrong: create, lost, read, mark,
                     \* delete, stop
    MaxOutages       \* bound: deaths of the process

NoVolume == "no volume"

ASSUME VolumeAssumption ==
    /\ IsFiniteSet(Tenants) /\ IsFiniteSet(VolumeIds)
    /\ MaxVolumes \in Nat \ {0} /\ MaxOutages \in Nat /\ NoVolume \notin VolumeIds

VARIABLES
    volume,     \* sandbox_volumes.status
    erased,     \* rows with a deleted_at
    named,      \* rows with a pvc_name
    claimOf,    \* the name a volume's claim gets, from parts of its ids; fixed
    claim,      \* the phase of a claim
    dying,      \* claims deleted while a pod mounts them
    maker,      \* the await the background task of a volume is at
    made,       \* its VolumeOutcome
    call,       \* the await a request is at
    about,      \* the volume it deletes
    outages,    \* deaths of the process so far
    blind,      \* history: volumes deleted by a request that saw no pvc_name
    begun,      \* history: claims that a request began to delete
    vanished    \* history: claims that lost their volume after they were bound

volrows == <<volume, erased, named>>
volclaims == <<claim, dying, vanished>>
volcalls == <<call, about>>
volumevars == <<volrows, claimOf, volclaims, maker, made, volcalls, outages, blind, begun>>

VolumeTypeOK ==
    /\ volume \in [VolumeIds -> {"none", "queued", "creating", "ready", "failed"}]
    /\ erased \subseteq VolumeIds /\ named \subseteq VolumeIds
    /\ claimOf \in [VolumeIds -> ClaimNames]
    /\ claim \in [ClaimNames -> {"none", "Pending", "Bound", "Lost"}]
    /\ dying \subseteq ClaimNames /\ vanished \subseteq ClaimNames /\ begun \subseteq ClaimNames
    /\ maker \in [VolumeIds -> {"none", "start", "create", "wait", "mark", "fail"}]
    /\ made \in [VolumeIds -> {"none", "ready", "failed"}]
    /\ call \in [Tenants -> {"idle", "insert", "deprovision", "erase"}]
    /\ about \in [Tenants -> VolumeIds \cup {NoVolume}]
    /\ outages \in Nat /\ blind \subseteq VolumeIds

VolumeInit ==
    /\ volume = [v \in VolumeIds |-> "none"]
    /\ erased = {} /\ named = {} /\ blind = {} /\ outages = 0
    /\ claimOf \in [VolumeIds -> ClaimNames] /\ claim = [c \in ClaimNames |-> "none"]
    /\ dying = {} /\ vanished = {} /\ begun = {}
    /\ maker = [v \in VolumeIds |-> "none"] /\ made = [v \in VolumeIds |-> "none"]
    /\ call = [t \in Tenants |-> "idle"] /\ about = [t \in Tenants |-> NoVolume]

ActiveVolumes == {v \in VolumeIds \ erased : volume[v] # "none"}
CallTo(t, from, to) == call[t] = from /\ call' = [call EXCEPT ![t] = to]
CallEnds(t) ==
    /\ call' = [call EXCEPT ![t] = "idle"] /\ about' = [about EXCEPT ![t] = NoVolume]

-----------------------------------------------------------------------------
(* create_volume, create_sandbox_volume.                                    *)

CountVolumes(t) ==
    /\ CallTo(t, "idle", "insert")
    /\ Cardinality(ActiveVolumes) < MaxVolumes
    /\ UNCHANGED <<volrows, volclaims, maker, made, about, outages, blind, begun>>

\* The row is inserted and a task created for it.
InsertVolume(t) ==
    /\ CallTo(t, "insert", "idle")
    /\ \E v \in VolumeIds :
        /\ volume[v] = "none"
        /\ volume' = [volume EXCEPT ![v] = "queued"]
        /\ maker' = [maker EXCEPT ![v] = "start"]
    /\ UNCHANGED <<erased, named, volclaims, made, about, outages, blind, begun>>

(* delete_volume, delete_sandbox_volume.                                    *)

\* The row is read.  Without a pvc_name there is nothing to deprovision.
FindVolume(t, v) ==
    /\ call[t] = "idle" /\ v \in ActiveVolumes
    /\ call' = [call EXCEPT ![t] = IF v \in named THEN "deprovision" ELSE "erase"]
    /\ about' = [about EXCEPT ![t] = v]
    /\ blind' = IF v \in named THEN blind ELSE blind \cup {v}
    /\ UNCHANGED <<volrows, volclaims, maker, made, outages, begun>>

\* delete_namespaced_persistent_volume_claim: a claim that a pod mounts stays,
\* Terminating, until the pod is gone.
DeleteClaim(c) ==
    \/ claim' = [claim EXCEPT ![c] = "none"] /\ dying' = dying \ {c}
    \/ claim[c] # "none" /\ dying' = dying \cup {c} /\ UNCHANGED claim

\* Mutation: a claim that could not be deleted is left to itself.
DeprovisionAnyway(t) ==
    /\ call[t] = "deprovision"
    /\ \/ DeleteClaim(claimOf[about[t]])
       \/ "delete" \in VolumeFaults /\ UNCHANGED <<claim, dying>>
    /\ begun' = begun \cup {claimOf[about[t]]}
    /\ call' = [call EXCEPT ![t] = "erase"]
    /\ UNCHANGED <<volrows, vanished, maker, made, about, outages, blind>>

\* The claim is deleted or was gone; any other error, of a delete that was applied
\* or not, is the caller's, and the row stays.
Deprovision(t) ==
    /\ call[t] = "deprovision"
    /\ begun' = begun \cup {claimOf[about[t]]}
    /\ \/ /\ DeleteClaim(claimOf[about[t]])
          /\ call' = [call EXCEPT ![t] = "erase"] /\ UNCHANGED about
       \/ /\ "delete" \in VolumeFaults /\ CallEnds(t)
          /\ DeleteClaim(claimOf[about[t]]) \/ UNCHANGED <<claim, dying>>
    /\ UNCHANGED <<volrows, vanished, maker, made, outages, blind>>

EraseVolume(t) ==
    /\ call[t] = "erase"
    /\ erased' = erased \cup {about[t]}
    /\ CallEnds(t)
    /\ UNCHANGED <<volume, named, volclaims, maker, made, outages, blind, begun>>

-----------------------------------------------------------------------------
(* dispatch_volume_creation and K8sVolumeProvisioner.provision.             *)

MakerTo(v, from, to) == maker[v] = from /\ maker' = [maker EXCEPT ![v] = to]

MarkCreating(v) ==
    /\ MakerTo(v, "start", "create")
    /\ volume' = [volume EXCEPT ![v] = "creating"]
    /\ UNCHANGED <<erased, named, volclaims, made, volcalls, outages, blind, begun>>

\* create_namespaced_persistent_volume_claim: refused, or applied with its
\* answer lost, the volume fails, by its outcome or by an exception.  A claim of
\* that name that exists already, whosever it is, is taken for its own.
CreateClaim(v) ==
    LET Created == claim' = [claim EXCEPT ![claimOf[v]] = IF @ = "none" THEN "Pending" ELSE @]
    IN  /\ \/ /\ MakerTo(v, "create", "wait")
              /\ Created /\ UNCHANGED made
           \/ /\ "create" \in VolumeFaults
              /\ \/ MakerTo(v, "create", "mark") /\ made' = [made EXCEPT ![v] = "failed"]
                 \/ MakerTo(v, "create", "fail") /\ UNCHANGED made
              /\ Created \/ UNCHANGED claim
        /\ UNCHANGED <<volrows, dying, vanished, volcalls, outages, blind, begun>>

\* The cluster binds a claim.
ClaimBinds(c) ==
    /\ claim[c] = "Pending"
    /\ claim' = [claim EXCEPT ![c] = "Bound"]
    /\ UNCHANGED <<volrows, dying, vanished, maker, made, volcalls, outages, blind, begun>>

\* The volume under it vanishes; no code looks at a claim again that was bound.
ClaimLost(c) ==
    /\ "lost" \in VolumeFaults /\ claim[c] \in {"Pending", "Bound"}
    /\ claim' = [claim EXCEPT ![c] = "Lost"]
    /\ vanished' = IF claim[c] = "Bound" THEN vanished \cup {c} ELSE vanished
    /\ UNCHANGED <<volrows, dying, maker, made, volcalls, outages, blind, begun>>

\* The last pod that mounts a deleted claim is gone.
ClaimGoes(c) ==
    /\ c \in dying
    /\ claim' = [claim EXCEPT ![c] = "none"] /\ dying' = dying \ {c}
    /\ UNCHANGED <<volrows, vanished, maker, made, volcalls, outages, blind, begun>>

\* _wait_for_pvc_bound: until it is Bound, or Lost, or for too long, or a read fails.
WaitForClaim(v) ==
    /\ \/ /\ MakerTo(v, "wait", "mark")
          /\ \/ claim[claimOf[v]] = "Bound" /\ made' = [made EXCEPT ![v] = "ready"]
             \/ claim[claimOf[v]] # "Bound" /\ made' = [made EXCEPT ![v] = "failed"]
       \/ "read" \in VolumeFaults /\ MakerTo(v, "wait", "fail") /\ UNCHANGED made
    /\ UNCHANGED <<volrows, volclaims, volcalls, outages, blind, begun>>

\* mark_ready with the name of the claim, or mark_failed without it; the row
\* may have been deleted meanwhile.
MarkVolume(v) ==
    /\ MakerTo(v, "mark", "none")
    /\ volume' = [volume EXCEPT ![v] = made[v]]
    /\ named' = IF made[v] = "ready" THEN named \cup {v} ELSE named
    /\ made' = [made EXCEPT ![v] = "none"]
    /\ UNCHANGED <<erased, volclaims, volcalls, outages, blind, begun>>

\* A mark raises, its update committed or not, and the handler of exceptions
\* marks the row failed, or raises in turn.
MarkVolumeRaises(v) ==
    /\ "mark" \in VolumeFaults
    /\ \/ /\ MakerTo(v, "start", "fail")
          /\ volume' = [volume EXCEPT ![v] = "creating"] \/ UNCHANGED volume
          /\ UNCHANGED named
       \/ /\ MakerTo(v, "mark", "fail")
          /\ \/ /\ volume' = [volume EXCEPT ![v] = made[v]]
                /\ named' = IF made[v] = "ready" THEN named \cup {v} ELSE named
             \/ UNCHANGED <<volume, named>>
    /\ made' = [made EXCEPT ![v] = "none"]
    /\ UNCHANGED <<erased, volclaims, volcalls, outages, blind, begun>>

MarkVolumeFailed(v) ==
    /\ MakerTo(v, "fail", "none")
    /\ \/ volume' = [volume EXCEPT ![v] = "failed"]
       \/ "mark" \in VolumeFaults /\ UNCHANGED volume
    /\ UNCHANGED <<erased, named, volclaims, made, volcalls, outages, blind, begun>>

\* The process dies with its requests and tasks.
VolumesStop ==
    /\ "stop" \in VolumeFaults /\ outages < MaxOutages
    /\ outages' = outages + 1
    /\ maker' = [v \in VolumeIds |-> "none"] /\ made' = [v \in VolumeIds |-> "none"]
    /\ call' = [t \in Tenants |-> "idle"] /\ about' = [t \in Tenants |-> NoVolume]
    /\ UNCHANGED <<volrows, volclaims, blind, begun>>

VolumeNext ==
    /\ \/ \E t \in Tenants :
           \/ CountVolumes(t) \/ InsertVolume(t)
           \/ \E v \in VolumeIds : FindVolume(t, v)
           \/ Deprovision(t) \/ EraseVolume(t)
       \/ \E v \in VolumeIds :
           \/ MarkCreating(v) \/ CreateClaim(v) \/ WaitForClaim(v)
           \/ MarkVolume(v) \/ MarkVolumeRaises(v) \/ MarkVolumeFailed(v)
       \/ \E c \in ClaimNames : ClaimBinds(c) \/ ClaimLost(c) \/ ClaimGoes(c)
       \/ VolumesStop
    /\ UNCHANGED claimOf

VolumeSpec == VolumeInit /\ [][VolumeNext]_volumevars

-----------------------------------------------------------------------------
(* Properties.                                                              *)

\* _resolve_volume_mounts_or_404: the volumes a sandbox can be given.
Mountable == {v \in VolumeIds \ erased : volume[v] = "ready" /\ v \in named}

\* A volume that can be mounted has a bound claim, unless a delete of that claim, for
\* this row or for one of the same name, has begun, or its volume vanished later
\* (_resolve_volume_mounts_or_404, delete_volume, _wait_for_pvc_bound).
MountableIsBound ==
    \A v \in Mountable : claimOf[v] \notin begun \cup vanished => claim[claimOf[v]] = "Bound"

\* When all the volumes of a claim are deleted, and each delete saw its name, the
\* claim is gone, or goes with the pod that mounts it, whatever fails, dies or runs at
\* the same time (delete_volume).
ErasedTakesClaim ==
    \A v \in erased \ blind :
        (\A u \in VolumeIds : claimOf[u] = claimOf[v] /\ volume[u] # "none" => u \in erased \ blind)
            => claim[claimOf[v]] = "none" \/ claimOf[v] \in dying

\* The row tells of the claim: that it is there to mount, and that it is gone.
RowTellsClaim == MountableIsBound /\ ErasedTakesClaim

\* The cap is counted before the row is inserted: callers may exceed it together, by
\* no more than the others of them (create_volume).
VolumesOvershoot == Cardinality(ActiveVolumes) < MaxVolumes + Cardinality(Tenants)
=============================================================================
