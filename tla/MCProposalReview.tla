-------------------------- MODULE MCProposalReview --------------------------
(***************************************************************************)
(* A small instance of ProposalReview: one intake of two out of three      *)
(* pictures, and two processes that propose and decide.  One frame of a    *)
(* batch of two is sent.                                                   *)
(***************************************************************************)
EXTENDS ProposalReview, TLC

CONSTANTS r1, r2

Spending(f, c, o, m) ==
  [faults |-> f, crashes |-> c, outages |-> o, changes |-> m]
MCBudget == Spending(2, 1, 1, 1)
MCAnswers == {{1}, {2}}

Alike == Permutations(Reviewers)
=============================================================================
