----------------------------- MODULE MCJsTimers -----------------------------
(***************************************************************************)
(* JsTimersHistory for TLC.  The delays hold one of each sort the code     *)
(* tells apart: in the past, immediate, two positive ones, and omitted.    *)
(***************************************************************************)
EXTENDS JsTimersHistory

MCDelays == {-1, 0, 1, 2, NaN}
=============================================================================
