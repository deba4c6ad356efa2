-------------------------- MODULE MCFARLockIsLocked ---------------------------
(***************************************************************************)
(* The instance of FARLock with calls of IsLocked: the remote descriptor   *)
(* of b1, whose node has id 0 here, and the local one of a1 agree in their *)
(* addresses.                                                              *)
(***************************************************************************)
EXTENDS FARLockIsLocked, MCFARLock

MCSameWord == {<<b1, a1>>}
=============================================================================
