--------------------------- MODULE MCEnsembleVote ---------------------------
(***************************************************************************)
(* EnsembleVote with what the environment knows of each branch in flight:  *)
(* the outcome it will commit with.  In SettledSpec the program settles:   *)
(* after any history, and once nothing is in flight, one expert ("local")  *)
(* is right about every branch and the two others about none.              *)
(***************************************************************************)
EXTENDS EnsembleVote

VARIABLES known, settled

mcvars == <<weight, pending, known, settled>>

MCInit == Init /\ known = << >> /\ settled = FALSE

LoneVote(taken) == [e \in Experts |-> IF e = "local" THEN taken ELSE ~taken]

Fetch(vote, taken) ==
  /\ settled => vote = LoneVote(taken)
  /\ Lookup(vote)
  /\ known' = Append(known, taken)
  /\ UNCHANGED settled

FetchUncond ==
  /\ ~settled
  /\ UncondBranch
  /\ known' = Append(known, TRUE)
  /\ UNCHANGED settled

Commit ==
  /\ pending # << >>
  /\ Train(Head(known))
  /\ known' = Tail(known)
  /\ UNCHANGED settled

Drop(n) ==
  /\ Squash(n)
  /\ known' = SubSeq(known, 1, n)
  /\ UNCHANGED settled

Settle == ~settled /\ pending = << >> /\ settled' = TRUE /\ UNCHANGED <<weight, pending, known>>

MCNext ==
  \/ \E vote \in Votes, taken \in BOOLEAN : Fetch(vote, taken)
  \/ FetchUncond
  \/ Commit
  \/ \E n \in 0..Len(pending) - 1 : Drop(n)
  \/ Settle

(* However often the pipeline squashes, it keeps fetching and committing: the
   program makes progress. *)
SettledSpec ==
  /\ MCInit /\ [][MCNext]_mcvars
  /\ WF_mcvars(\E vote \in Votes, taken \in BOOLEAN : Fetch(vote, taken))
  /\ SF_mcvars(Commit)

(* An expert that alone is right, and starts with any weight at all, ends up
   deciding every prediction: the others lose their weight to their own
   mistakes (the learning part of update()) even while the sum is too low for
   adjustments. *)
LoneExpertWins ==
  (settled /\ weight["local"] > 0)
    ~> [](\A k \in DOMAIN pending : pending[k].final = known[k])
=============================================================================
