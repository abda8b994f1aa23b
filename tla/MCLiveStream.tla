---------------------------- MODULE MCLiveStream ----------------------------
(***************************************************************************)
(* A small instance of the live stream.                                    *)
(***************************************************************************)
EXTENDS LiveStream

CONSTANTS v1, v2, m1, m2

TwoViewers == {v1, v2}
TwoFeeds == {m1, m2}

=============================================================================
