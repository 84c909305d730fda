----------------------------- MODULE DockerScan -----------------------------
(***************************************************************************)
(* scanner.DockerScanner.Scan: which volumes are orphans.                  *)
(*                                                                         *)
(* One scan asks the daemon (external) for the containers, inspects each   *)
(* of them for its log, measures their bind mounts, and then asks for the  *)
(* volumes: a volume that no listed container mounts is an orphan.  The    *)
(* daemon goes on working meanwhile, so the two lists are of two moments,  *)
(* and any of the calls may fail, which the scan takes for an empty list.  *)
(* The orphans go to the rules, which raise one alert over them, and to    *)
(* the report.  Sizes are left out; bind mounts and images take no part.   *)
(***************************************************************************)
EXTENDS Naturals, FiniteSets

CONSTANTS
    Containers, Volumes,
    MaxChanges   \* bound: changes of the daemon's state during one scan

VARIABLES
    mounts,     \* daemon: the volumes each container mounts
    alive,      \* daemon: the containers there are, running or not
    volumes,    \* daemon: the volumes there are
    pc,         \* where Scan is
    todo,       \* containers of the list that are still to be inspected
    inUse,      \* volumesInUse
    orphans,    \* orphan_volume samples
    used,       \* volume samples
    unusedAt,   \* history: volumes that, at some moment of this scan, were there unmounted
    usedAt,     \* history: volumes that some container mounted at some moment of this scan
    born,       \* history: volumes that were created during this scan
    blind,      \* history: the list of containers did not come
    changes     \* bound

daemon == <<mounts, alive, volumes>>
samples == <<orphans, used>>
seen == <<unusedAt, usedAt, born>>
vars == <<daemon, pc, todo, inUse, samples, seen, blind, changes>>

Mounted == UNION {mounts[c] : c \in alive}

Init ==
    /\ alive \in SUBSET Containers
    /\ volumes \in SUBSET Volumes
    /\ mounts \in [Containers -> SUBSET Volumes]
    /\ \A c \in Containers : IF c \in alive THEN mounts[c] \subseteq volumes ELSE mounts[c] = {}
    /\ pc = "idle"
    /\ todo = {} /\ inUse = {}
    /\ orphans = {} /\ used = {}
    /\ unusedAt = {} /\ usedAt = {} /\ born = {} /\ blind = FALSE
    /\ changes = 0

----------------------------------------------------------------------------
(* The daemon.  What it does counts against the bound only during a scan.  *)

Witness ==
    /\ unusedAt' = unusedAt \cup (volumes' \ Mounted')
    /\ usedAt' = usedAt \cup Mounted'
    /\ born' = born \cup (volumes' \ volumes)

Change ==
    /\ pc \notin {"idle", "images"}
    /\ changes < MaxChanges
    /\ changes' = changes + 1
    /\ Witness
    /\ UNCHANGED <<pc, todo, inUse, samples, blind>>

\* docker run, docker create: missing volumes are created with it.
CreateContainer(c) ==
    /\ c \notin alive
    /\ alive' = alive \cup {c}
    /\ \E vs \in SUBSET Volumes :
          /\ mounts' = [mounts EXCEPT ![c] = vs]
          /\ volumes' = volumes \cup vs
    /\ Change

RemoveContainer(c) ==
    /\ c \in alive
    /\ alive' = alive \ {c}
    /\ mounts' = [mounts EXCEPT ![c] = {}]
    /\ UNCHANGED volumes
    /\ Change

\* docker volume create, docker volume rm: a mounted volume cannot be removed.
ChangeVolumes ==
    /\ \E v \in Volumes :
          volumes' = IF v \in volumes THEN volumes \ ({v} \ Mounted) ELSE volumes \cup {v}
    /\ UNCHANGED <<mounts, alive>>
    /\ Change

----------------------------------------------------------------------------
(* Scan.                                                                   *)

Begin ==
    /\ pc = "idle"
    /\ pc' = "containers"
    /\ unusedAt' = volumes \ Mounted
    /\ usedAt' = Mounted
    /\ UNCHANGED <<daemon, todo, inUse, samples, born, blind, changes>>

\* Mutant: only the containers listed first are looked into for their mounts.
ListContainersCut ==
    /\ pc = "containers"
    /\ pc' = "inspect"
    /\ todo' = alive
    /\ inUse' = IF alive = {} THEN {} ELSE mounts[CHOOSE c \in alive : TRUE]
    /\ UNCHANGED <<daemon, samples, seen, blind, changes>>

\* Mutant: the source of a bind mount is taken for a volume.
ListContainersBinds ==
    /\ pc = "containers"
    /\ pc' = "inspect"
    /\ todo' = alive
    /\ inUse' = Mounted \cup {"bind"}
    /\ UNCHANGED <<daemon, samples, seen, blind, changes>>

\* GET /containers/json?all=true; volumesInUse is filled from this one answer.
ListContainers ==
    /\ pc = "containers"
    /\ pc' = "inspect"
    /\ todo' = alive
    /\ inUse' = Mounted
    /\ UNCHANGED <<daemon, samples, seen, blind, changes>>

\* The error is dropped: the loop runs over no containers.
ListContainersFails ==
    /\ pc = "containers"
    /\ pc' = "volumes"
    /\ blind' = TRUE
    /\ UNCHANGED <<daemon, todo, inUse, samples, seen, changes>>

\* logSize and the sizes of the bind mounts, container by container: calls and walks
\* that take time and whose failures leave out samples, but touch no volume.
Inspect(c) ==
    /\ pc = "inspect"
    /\ c \in todo
    /\ todo' = todo \ {c}
    /\ UNCHANGED <<daemon, pc, inUse, samples, seen, blind, changes>>

Inspected ==
    /\ pc = "inspect"
    /\ todo = {}
    /\ pc' = "volumes"
    /\ UNCHANGED <<daemon, todo, inUse, samples, seen, blind, changes>>

\* Mutant: in use and orphan are swapped.
IsOrphanSwapped(v) == v \in inUse

\* Not a volume of volumesInUse.
IsOrphan(v) == v \notin inUse

\* GET /volumes
ListVolumes ==
    /\ pc = "volumes"
    /\ pc' = "images"
    /\ orphans' = {v \in volumes : IsOrphan(v)}
    /\ used' = {v \in volumes : ~IsOrphan(v)}
    /\ UNCHANGED <<daemon, todo, inUse, seen, blind, changes>>

ListVolumesFails ==
    /\ pc = "volumes"
    /\ pc' = "images"
    /\ UNCHANGED <<daemon, todo, inUse, samples, seen, blind, changes>>

\* GET /system/df for the images; Scan returns its samples and is over.
End ==
    /\ pc = "images"
    /\ pc' = "idle"
    /\ todo' = {} /\ inUse' = {}
    /\ orphans' = {} /\ used' = {}
    /\ unusedAt' = {} /\ usedAt' = {} /\ born' = {} /\ blind' = FALSE
    /\ changes' = 0
    /\ UNCHANGED daemon

Next ==
    \/ \E c \in Containers : CreateContainer(c) \/ RemoveContainer(c)
    \/ ChangeVolumes
    \/ Begin \/ ListContainers \/ ListContainersFails
    \/ \E c \in Containers : Inspect(c)
    \/ Inspected \/ ListVolumes \/ ListVolumesFails \/ End

Spec == Init /\ [][Next]_vars

----------------------------------------------------------------------------
\* The shape of the state.
TypeOK ==
    /\ mounts \in [Containers -> SUBSET Volumes]
    /\ alive \subseteq Containers /\ volumes \subseteq Volumes
    /\ pc \in {"idle", "containers", "inspect", "volumes", "images"}
    /\ todo \subseteq Containers
    /\ inUse \subseteq Volumes
    /\ orphans \subseteq Volumes /\ used \subseteq Volumes
    /\ unusedAt \subseteq Volumes /\ usedAt \subseteq Volumes /\ born \subseteq Volumes
    /\ blind \in BOOLEAN
    /\ changes \in Nat

\* As long as the list of containers came, a volume is called an orphan only if there
\* was a moment of the scan at which it was there and nothing mounted it, whatever was
\* created and removed between the two lists and whatever other call failed; or if it was
\* created during the scan: that one may have been mounted all its life, since the list
\* of containers can be older than it is.
OrphansWereUnused == ~blind => orphans \subseteq unusedAt \cup born

\* "Any failed sub-call [...] is simply omitted from the result, so a partial outage
\* of the socket-proxy degrades gracefully": a failed call takes results away, and
\* makes no volume that is mounted all the time an orphan.
OutageOnlyOmits == orphans \subseteq unusedAt

\* A volume that is listed as in use was mounted at some moment of the scan, with or
\* without outages.
UsedWereMounted == used \subseteq usedAt
=============================================================================
