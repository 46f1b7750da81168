------------------------------ MODULE MCDefrag ------------------------------
(* Small instances of Defrag for TLC. *)
EXTENDS Defrag, TLC

CONSTANTS large, other, small, single

From(src, id) == [id |-> id, protocol |-> "udp", saddr |-> src, daddr |-> "tun"]
Frag(offset, length, more) == [off |-> offset, len |-> length, mf |-> more, ihl |-> 5]

\* An Ethernet MTU gives fragments of 1480 bytes, 185 units; two hosts happen
\* to use one id.  `small` has fragments of 256 bytes, 32 units.
MCHeader ==
    large :> From("a", 1) @@ other :> From("b", 1)
        @@ small :> From("a", 2) @@ single :> From("a", 3)
MCFragments ==
    large :> <<Frag(0, 1480, TRUE), Frag(185, 1480, TRUE), Frag(370, 40, FALSE)>>
        @@ other :> <<Frag(0, 1480, TRUE), Frag(185, 1000, FALSE)>>
        @@ small :> <<Frag(0, 256, TRUE), Frag(32, 100, FALSE)>>
        @@ single :> <<Frag(0, 100, FALSE)>>
TwiceLarge == large :> 2 @@ other :> 1 @@ small :> 1 @@ single :> 1
=============================================================================
