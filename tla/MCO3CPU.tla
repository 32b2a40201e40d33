------------------------------ MODULE MCO3CPU -------------------------------
(* O3CPU on a few instructions. *)
EXTENDS O3CPU

(* For the redirects: decode repairs a branch that execution redirects again. *)
RedirectKinds == {"plain", "earlyWrong", "late", "after"}

(* For the flow between the stages: decode's repair holds, or execution's. *)
FlowKinds == {"plain", "early", "late"}
=============================================================================
