----------------------------- MODULE MCLiveWalk -----------------------------
(* A small instance of LiveWalk.                                              *)
EXTENDS LiveWalk
==============================================================================
