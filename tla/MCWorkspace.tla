---------------------------- MODULE MCWorkspace ----------------------------
(* Three page loads: an owner, a page refused or opened meanwhile, and the  *)
(* boot that erases.                                                        *)
EXTENDS Workspace
=============================================================================
