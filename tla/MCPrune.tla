------------------------------ MODULE MCPrune ------------------------------
(***************************************************************************)
(* Instance of Prune for TLC: a stack whose project name differs from its  *)
(* folder name (net-bridge, as the Compose Manager names it), a standalone *)
(* container and a disk.  A machine is like a disk that is never bare.     *)
(***************************************************************************)
EXTENDS Prune, TLC

MCStack     == {"net-bridge"}
MCProjectOf == [s \in MCStack |-> "net_bridge"]
MCLoose     == {"plex"}
MCDisk      == {"cache"}

\* All sections readable, or Docker as a whole, compose alone, or libvirt not.
WholeFailures == {{}, {"docker"}, {"compose"}, {"docker", "compose", "stacks"}, {"vms"}}

\* The folders alone cannot be read.
FolderFailures == {{}, {"stacks"}}

\* Docker or the disks cannot be read.
UnitFailures == {{}, {"docker"}, {"disks"}}

=============================================================================
