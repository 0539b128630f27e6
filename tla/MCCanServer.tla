---------------------------- MODULE MCCanServer ----------------------------
(* The CAN server for TLC, alone: a command of each kind.                  *)
EXTENDS CanServer
=============================================================================
