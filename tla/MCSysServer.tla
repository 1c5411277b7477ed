---------------------------- MODULE MCSysServer ----------------------------
(***************************************************************************)
(* Instances of SysServer for TLC: the sets of system calls.               *)
(***************************************************************************)
EXTENDS SysServer

\* What occupies the pool, and what creates and ends processes.
KillCalls == {"execve", "kill", "ls", "stdin", "file"}

=============================================================================
