-------------------------- MODULE DockerScanProofs --------------------------
(***************************************************************************)
(* The classification of volumes, for any number of containers, volumes    *)
(* and changes during a scan.  The invariant says that the scan's memory   *)
(* of who mounts what (volumesInUse) is a picture of one moment of it.     *)
(***************************************************************************)
EXTENDS DockerScan, TLAPS

LEMMA InitType == ASSUME Init PROVE TypeOK
<1>1. changes \in Nat  BY DEF Init
<1>2. mounts \in [Containers -> SUBSET Volumes]  BY DEF Init
<1>3. alive \subseteq Containers /\ volumes \subseteq Volumes  BY DEF Init
<1>4. pc = "idle" /\ todo = {} /\ inUse = {} /\ orphans = {} /\ used = {}
      /\ unusedAt = {} /\ usedAt = {} /\ born = {} /\ blind = FALSE
  BY DEF Init
<1>. QED  BY <1>1, <1>2, <1>3, <1>4 DEF TypeOK

LEMMA MountedType ==
    ASSUME mounts \in [Containers -> SUBSET Volumes], alive \subseteq Containers
    PROVE  Mounted \subseteq Volumes
BY DEF Mounted

\* A change of the daemon's state leaves the variables of the scan alone.
LEMMA ChangeType ==
    ASSUME TypeOK, Change, mounts' \in [Containers -> SUBSET Volumes],
           alive' \subseteq Containers, volumes' \subseteq Volumes
    PROVE  TypeOK'
<1>1. Mounted' \subseteq Volumes
  BY DEF Mounted
<1>. QED  BY <1>1 DEF TypeOK, Change, Witness, samples

LEMMA NextType == ASSUME TypeOK, [Next]_vars PROVE TypeOK'
<1>1. ASSUME NEW c \in Containers, CreateContainer(c) PROVE TypeOK'
  <2>1. /\ mounts' \in [Containers -> SUBSET Volumes]
        /\ alive' \subseteq Containers /\ volumes' \subseteq Volumes
    BY <1>1 DEF CreateContainer, TypeOK
  <2>. QED  BY <1>1, <2>1, ChangeType DEF CreateContainer
<1>2. ASSUME NEW c \in Containers, RemoveContainer(c) PROVE TypeOK'
  <2>1. /\ mounts' \in [Containers -> SUBSET Volumes]
        /\ alive' \subseteq Containers /\ volumes' \subseteq Volumes
    BY <1>2 DEF RemoveContainer, TypeOK
  <2>. QED  BY <1>2, <2>1, ChangeType DEF RemoveContainer
<1>3. CASE ChangeVolumes
  <2>1. /\ mounts' \in [Containers -> SUBSET Volumes]
        /\ alive' \subseteq Containers /\ volumes' \subseteq Volumes
    BY <1>3 DEF ChangeVolumes, TypeOK
  <2>. QED  BY <1>3, <2>1, ChangeType DEF ChangeVolumes
<1>4. CASE Begin \/ ListContainers
  <2>1. Mounted \subseteq Volumes
    BY MountedType DEF TypeOK
  <2>2. CASE Begin
    BY <2>1, <2>2 DEF Begin, TypeOK, daemon, samples
  <2>3. CASE ListContainers
    BY <2>1, <2>3 DEF ListContainers, TypeOK, daemon, samples, seen
  <2>. QED  BY <1>4, <2>2, <2>3
<1>5. CASE ListContainersFails \/ Inspected \/ ListVolumesFails
  BY <1>5 DEF ListContainersFails, Inspected, ListVolumesFails, TypeOK, daemon, samples, seen
<1>6. ASSUME NEW c \in Containers, Inspect(c) PROVE TypeOK'
  BY <1>6 DEF Inspect, TypeOK, daemon, samples, seen
<1>7. CASE ListVolumes
  BY <1>7 DEF ListVolumes, TypeOK, daemon, seen
<1>8. CASE End
  <2>1. mounts' = mounts /\ alive' = alive /\ volumes' = volumes
    BY <1>8 DEF End, daemon
  <2>. QED  BY <1>8, <2>1 DEF End, TypeOK
<1>9. CASE UNCHANGED vars
  BY <1>9 DEF vars, TypeOK, daemon, samples, seen
<1>. QED  BY <1>1, <1>2, <1>3, <1>4, <1>5, <1>6, <1>7, <1>8, <1>9 DEF Next

\* Every variable keeps its type.
THEOREM TypeCorrect == Spec => []TypeOK
BY InitType, NextType, PTL DEF Spec

----------------------------------------------------------------------------
Scanning == pc \in {"containers", "inspect", "volumes"}
Picture  == pc \in {"inspect", "volumes"}

\* The history holds the present, and volumesInUse is of a moment the history holds: what
\* is not in it was unmounted at that moment, or came later.
Seen ==
    /\ Scanning => Mounted \subseteq usedAt /\ volumes \ Mounted \subseteq unusedAt
    /\ Picture => inUse \subseteq usedAt /\ (~blind => volumes \ inUse \subseteq unusedAt \cup born)
    /\ pc \in {"idle", "containers"} => inUse = {} /\ orphans = {} /\ used = {} /\ ~blind

OrphanInv == TypeOK /\ Seen /\ OrphansWereUnused /\ UsedWereMounted

LEMMA OrphanInit == ASSUME Init PROVE OrphanInv
<1>1. Seen /\ OrphansWereUnused /\ UsedWereMounted
  BY DEF Init, Seen, Scanning, Picture, OrphansWereUnused, UsedWereMounted
<1>. QED  BY <1>1, InitType DEF OrphanInv

LEMMA OrphanNext == ASSUME OrphanInv, [Next]_vars PROVE OrphanInv'
<1>1. TypeOK /\ TypeOK'
  BY NextType DEF OrphanInv
<1>. USE DEF OrphanInv, Seen, Scanning, Picture, OrphansWereUnused, UsedWereMounted
<1>2. ASSUME Change PROVE OrphanInv'
  BY <1>1, <1>2 DEF Change, Witness, samples
<1>3. CASE Begin \/ ListContainers
  <2>1. Mounted' = Mounted
    BY <1>3 DEF Begin, ListContainers, daemon, Mounted
  <2>. QED  BY <1>1, <1>3, <2>1 DEF Begin, ListContainers, samples, seen, daemon
<1>4. CASE \/ ListContainersFails \/ Inspected \/ ListVolumes \/ ListVolumesFails
           \/ \E c \in Containers : Inspect(c)
  <2>1. Mounted' = Mounted /\ UNCHANGED <<volumes, unusedAt, usedAt, born>>
    BY <1>4 DEF ListContainersFails, Inspected, ListVolumes, ListVolumesFails, Inspect,
       daemon, seen, Mounted
  <2>2. CASE ListVolumes
    BY <1>1, <2>1, <2>2 DEF ListVolumes, IsOrphan, TypeOK
  <2>. QED  BY <1>1, <1>4, <2>1, <2>2
            DEF ListContainersFails, Inspected, ListVolumesFails, Inspect, samples
<1>5. CASE End
  BY <1>1, <1>5 DEF End
<1>6. CASE UNCHANGED vars
  <2>1. Mounted' = Mounted
    BY <1>6 DEF vars, daemon, Mounted
  <2>. QED  BY <1>1, <1>6, <2>1 DEF vars, samples, seen, daemon
<1>. QED  BY <1>2, <1>3, <1>4, <1>5, <1>6 DEF Next, CreateContainer, RemoveContainer, ChangeVolumes

\* If the list of containers came, an orphan was there unmounted at some moment of the
\* scan, or was created during it.
THEOREM OrphansSound == Spec => []OrphansWereUnused
<1>1. OrphanInv => OrphansWereUnused  BY DEF OrphanInv
<1>. QED  BY <1>1, OrphanInit, OrphanNext, PTL DEF Spec

\* A volume listed as in use was mounted at some moment of the scan.
THEOREM UsedSound == Spec => []UsedWereMounted
<1>1. OrphanInv => UsedWereMounted  BY DEF OrphanInv
<1>. QED  BY <1>1, OrphanInit, OrphanNext, PTL DEF Spec

=============================================================================
