--------------------------- MODULE MCFeedRefinement --------------------------
(* FeedRefinement for TLC, with the feeds of MCFeedDirectory.               *)
EXTENDS FeedRefinement, MCFeedDirectory
=============================================================================
