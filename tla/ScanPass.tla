------------------------------ MODULE ScanPass ------------------------------
(***************************************************************************)
(* How runScan gathers the samples of one pass: host.Scan, then dock.Scan, *)
(* in the one goroutine of the scan.  Each part is its own module, with    *)
(* the world it looks at; what one part leaves behind when it returns are  *)
(* its samples, which the other does not read.  The world a part does not  *)
(* look at goes on too, but nobody sees it before the part begins: its     *)
(* steps are taken while that part runs.                                   *)
(***************************************************************************)
EXTENDS HostScan, DockerScan

VARIABLE
    turn        \* the part that runs

passVars == <<turn, hostVars, vars>>

PassInit ==
    /\ turn = "host"
    /\ HostInit
    /\ Init

----------------------------------------------------------------------------
\* host.Scan goes on, up to its return.
HostStep ==
    /\ turn = "host"
    /\ BeginWalk \/ Write \/ Meet \/ PassOver \/ NextRoot
    /\ UNCHANGED <<turn, vars>>

HostReturns ==
    /\ turn = "host"
    /\ EndWalk
    /\ turn' = "docker"
    /\ UNCHANGED vars

\* samples = append(samples, dock.Scan(ctx, now)...): the scan goes on, and the daemon
\* with it.
DockerStep ==
    /\ turn = "docker"
    /\ \/ \E c \in Containers : CreateContainer(c) \/ RemoveContainer(c)
       \/ ChangeVolumes
       \/ Begin \/ ListContainers \/ ListContainersFails
       \/ \E c \in Containers : Inspect(c)
       \/ Inspected \/ ListVolumes \/ ListVolumesFails
    /\ UNCHANGED <<turn, hostVars>>

\* The samples go to Insert; the next pass begins with the host again.
DockerReturns ==
    /\ turn = "docker"
    /\ End
    /\ turn' = "host"
    /\ UNCHANGED hostVars

PassNext == HostStep \/ HostReturns \/ DockerStep \/ DockerReturns

PassSpec == PassInit /\ [][PassNext]_passVars

----------------------------------------------------------------------------
\* The shape of the state, part by part.
PassTypeOK ==
    /\ turn \in {"host", "docker"}
    /\ HostTypeOK
    /\ TypeOK
=============================================================================
