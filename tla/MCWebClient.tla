----------------------------- MODULE MCWebClient ------------------------------
(***************************************************************************)
(* One tab and two requests at a time, enough for one of them to be late.  *)
(***************************************************************************)
EXTENDS WebClient

\* Numbers are the server's; None is 0, so the slots are numbered from 1.
TwoSlots == {1, 2}
=============================================================================
