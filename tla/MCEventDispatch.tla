---------------------------- MODULE MCEventDispatch ----------------------------
(* EventDispatch for TLC.                                                        *)
EXTENDS EventDispatch
================================================================================
