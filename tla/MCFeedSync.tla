----------------------------- MODULE MCFeedSync -----------------------------
(* FeedSync on two posts and one club: mirrors do not interact.            *)
EXTENDS FeedSync, TLC

\* Writers are interchangeable, and no property of a safety run names one.
WriterSymmetry == Permutations(Writers)

\* Nothing that is stored or shown depends on the stamp, which no step reads.
WithoutStamps == <<clock, setting, post, write, cursor, copy, sync, failures>>
=============================================================================
