---------------------------- MODULE MCVolumePull ----------------------------
(***************************************************************************)
(* Instances of VolumePull: a volume of two entries and one path beside    *)
(* them, for one pull and for two.                                         *)
(***************************************************************************)
EXTENDS VolumePull

TwoEntries == {"a", "b"}
OneEntry == {"a"}
Beside == {"u"}

OnePull == {"p"}
TwoPulls == {"p", "q"}

AllNodes == {"absent", "dir", "file", "link"}

=============================================================================
