---------------------------- MODULE MCEventLoop -----------------------------
(* EventLoop for TLC: a delay that is valid, one that ToUint32 wraps, and an
   omitted one. *)
EXTENDS EventLoop

MCDelays == {-2, 1, NaN}
=============================================================================
