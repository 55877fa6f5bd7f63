------------------------------- MODULE MCMocks -------------------------------
(***************************************************************************)
(* Two tasks that share one agent mock, one session template and one tool     *)
(* host.                                                                    *)
(***************************************************************************)
EXTENDS Mocks

CONSTANTS c1, c2
=============================================================================
