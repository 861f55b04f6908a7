-------------------------- MODULE MCPostModeration --------------------------
(* PostModeration on small sets: three members of two clubs, and a         *)
(* threshold that takes two reports from two clubs.                        *)
EXTENDS PostModeration, TLC

CONSTANTS ann, bob, cyd, alpine, ruapehu, r1, r2

ThreeMembers == {ann, bob, cyd}
OneMember == {ann}

MCClubOf == (ann :> alpine) @@ (bob :> alpine) @@ (cyd :> ruapehu)

\* A plain post, a post with a picture, a post with everything.
PlainPosts == {[images |-> FALSE, html |-> FALSE]}
PicturePosts == {[images |-> TRUE, html |-> FALSE]}
RichPosts == {[images |-> TRUE, html |-> TRUE]}

\* The two members of one club, and the two report requests, are alike.
ReportSymmetry == Permutations({ann, bob}) \cup Permutations({r1, r2})

=============================================================================
