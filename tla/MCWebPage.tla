------------------------------- MODULE MCWebPage -------------------------------
(***************************************************************************)
(* WebPage for TLC: two connections, so that one may join while the other  *)
(* posts, fails, or is in the chat itself, and two requests of each, in    *)
(* one delivery or in two: to post before and after, or to join and be     *)
(* answered.  Requests that are refused are answered as pages are.         *)
(***************************************************************************)
EXTENDS WebPage
================================================================================
