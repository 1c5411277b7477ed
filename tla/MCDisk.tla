-------------------------------- MODULE MCDisk --------------------------------
(***************************************************************************)
(* An instance of Disk, and of the layout of block groups, for TLC.        *)
(***************************************************************************)
EXTENDS Disk

=============================================================================
