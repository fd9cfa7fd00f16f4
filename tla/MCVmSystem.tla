----------------------------- MODULE MCVmSystem -----------------------------
(* VmSystem over a user space of three pages.                             *)
EXTENDS VmSystem

CONSTANTS c1, c2

MCCells == {c1, c2}
MCOneCell == {c1}
MCObjIds == 1..4
MCProts == {{"READ", "WRITE"}, {"READ"}}
MCRWProts == {{"READ", "WRITE"}}

=============================================================================
