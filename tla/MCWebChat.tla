----------------------------- MODULE MCWebChat -----------------------------
(* Instances of WebChat for TLC.                                           *)
EXTENDS WebChatRefinement

AllFaults   == FaultKind
AtomicClose == FaultKind \ {"closing"}
=============================================================================
