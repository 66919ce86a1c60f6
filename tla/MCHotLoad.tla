------------------------------ MODULE MCHotLoad ------------------------------
(***************************************************************************)
(* An instance of HotLoad for TLC.  What a GET does it does alone, so that *)
(* one is enough beside an attach.                                         *)
(***************************************************************************)
EXTENDS HotLoad

CONSTANTS a1, a2, d1, d2, g, p

\* Both attaches want the same directory; both detaches name the first's.
MCTargetOf == [c \in Attaches |-> "probe"]
MCVictimOf == [c \in Detaches |-> a1]

\* Two attaches of one target and a probe; an attach and two detaches of what
\* it attached; an attach and a lookup.
MCMixes == {{a1, a2, p}, {a1, d1, d2}, {a1, g}}

=============================================================================
