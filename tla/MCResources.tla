----------------------------- MODULE MCResources -----------------------------
(***************************************************************************)
(* An instance for TLC of the components that make something and have to   *)
(* give it up: the two background builders and the token endpoint of the   *)
(* control plane, the drivers and the language servers of a sidecar.  They *)
(* share no variable: turn says which of them moves.                       *)
(***************************************************************************)
EXTENDS TLC, ImageBuilds, Volumes, OAuthGrants, SidecarInterpreters, LanguageServers

VARIABLE turn    \* the component that moves

resources == <<buildvars, volumevars, oauthvars, interpretervars, servervars>>

\* An account of one caller is named by it.
BuildersAccount == [b \in Builders |-> b]

\* Neither images nor volumes differ among themselves, nor do their callers.
BuildersSymmetry ==
    Permutations(Builders) \cup Permutations(Images)
    \cup Permutations(Tenants) \cup Permutations(VolumeIds) \cup Permutations(ClaimNames)

ResourcesInit ==
    /\ turn \in {"images", "volumes", "grants", "driver", "servers"}
    /\ BuildInit /\ VolumeInit /\ OAuthInit /\ InterpreterInit /\ ServersInit
    \* The names of claims matter to the volumes only.
    /\ turn # "volumes" => \A u, v \in VolumeIds : claimOf[u] = claimOf[v]

ImagesMove ==
    /\ turn = "images" /\ BuildNext
    /\ UNCHANGED <<turn, volumevars, oauthvars, interpretervars, servervars>>

VolumesMove ==
    /\ turn = "volumes" /\ VolumeNext
    /\ UNCHANGED <<turn, buildvars, oauthvars, interpretervars, servervars>>

GrantsMove ==
    /\ turn = "grants" /\ OAuthNext
    /\ UNCHANGED <<turn, buildvars, volumevars, interpretervars, servervars>>

DriverMoves ==
    /\ turn = "driver" /\ InterpreterNext
    /\ UNCHANGED <<turn, buildvars, volumevars, oauthvars, servervars>>

ServersMove ==
    /\ turn = "servers" /\ ServersNext
    /\ UNCHANGED <<turn, buildvars, volumevars, oauthvars, interpretervars>>

ResourcesNext == ImagesMove \/ VolumesMove \/ GrantsMove \/ DriverMoves \/ ServersMove
ResourcesSpec == ResourcesInit /\ [][ResourcesNext]_<<turn, resources>>
=============================================================================
