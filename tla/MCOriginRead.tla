----------------------------- MODULE MCOriginRead -----------------------------
(***************************************************************************)
(* Instances of OriginRead: two pulls that share a client, one of them     *)
(* with two reads that share its credential source; and a single read, for *)
(* what the end of get says of itself.                                     *)
(***************************************************************************)
EXTENDS OriginRead

\* Two pulls, whose opens and resolves meet in the token cache; the reads of
\* the first meet in its source.
TwoPulls == {"p", "q"}
TwoReads == {"r1", "r2"}
ReadsOfOne == [r1 |-> "p", r2 |-> "p"]

\* One pull with one read.
OnePull == {"p"}
OneRead == {"r1"}
OnePullOf == [r1 |-> "p"]

\* Credentials that are near expiry, but not expired, when the clock has moved.
ShortLives == {2}
\* An hour, in units of five minutes.
HourLives == {12}

=============================================================================
