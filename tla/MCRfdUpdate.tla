------------------------------ MODULE MCRfdUpdate ------------------------------
(***************************************************************************)
(* Instances of RfdUpdate for TLC: the documents users push and the        *)
(* actions that are configured.                                            *)
(***************************************************************************)
EXTENDS RfdUpdate

Document(text, state) == [text |-> text, state |-> state, url |-> 0]

\* A draft and a text for discussion.
DraftAndDiscussion == {Document(1, "prediscussion"), Document(2, "discussion")}

\* Two texts for discussion.
TwoDiscussions == {Document(1, "discussion"), Document(2, "discussion")}

\* The order in which config.example.toml lists them.
ConfiguredOrder ==
    <<"CreatePullRequest", "UpdateDiscussionUrl",
      "EnsureRfdWithPullRequestIsInValidState">>

=============================================================================
