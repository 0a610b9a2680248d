----------------------------- MODULE MCBrowser -----------------------------
(***************************************************************************)
(* Model checking of Browser.  Two handlers at once, two rows made and      *)
(* three clicks suffice for a click to meet an answer of another one and a  *)
(* reload; two payloads, a queue of one and two tries let the tracker's     *)
(* queue overflow and its payloads run out of tries; four points of time    *)
(* with a timeout of two make visits end and the clock go back past one.    *)
(***************************************************************************)
EXTENDS Browser
=============================================================================
