--------------------------- MODULE MCFeedbackPath ---------------------------
(* Instances of FeedbackPath for TLC; their constants are in the cfgs. *)
EXTENDS FeedbackPath
=============================================================================
