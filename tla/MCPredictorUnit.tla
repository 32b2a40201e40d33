-------------------------- MODULE MCPredictorUnit ---------------------------
(* PredictorUnit on programs of a few branches. *)
EXTENDS PredictorUnit

Branch(pc, target) == [pc |-> pc, uncond |-> FALSE, call |-> FALSE, ret |-> FALSE,
                       direct |-> TRUE, target |-> target]
Goto(pc, target)   == [Branch(pc, target) EXCEPT !.uncond = TRUE]
Jump(pc)           == [Branch(pc, 0) EXCEPT !.uncond = TRUE, !.direct = FALSE]

(* Two conditional branches with different local histories and an indirect
   jump. *)
CondInsts == {Branch(1, 4), Branch(2, 4), Jump(4)}

(* Two conditional branches and a direct unconditional one. *)
GotoInsts == {Branch(1, 4), Branch(2, 4), Goto(3, 1)}

JumpTargets == {1}

OneThread == {0}

OnlyEnsemble == {"EnsembleBP"}

Ensembles == {"EnsembleBP", "EnsembleBP2"}

Others == {"LocalBP", "BiModeBP", "TournamentBP", "TriTournamentBP", "GTriTournamentBP"}

(* The second local predictor has shorter histories than the first. *)
SmallTables ==
  [n \in {"local", "global", "gshare", "choice", "choice2", "taken", "notTaken"} |-> 2]
    @@ [n \in {"local2"} |-> 1]

(* One bit counters: every training flips the prediction. *)
OneBit == [n \in DOMAIN SmallTables |-> 1]
=============================================================================
