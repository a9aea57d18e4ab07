-------------------------- MODULE MCSandboxSession --------------------------
(***************************************************************************)
(* Two tool calls and three boxes: each call can create one, and one more  *)
(* can be lost or be the one the client has named.                         *)
(***************************************************************************)
EXTENDS SandboxSession

=============================================================================
