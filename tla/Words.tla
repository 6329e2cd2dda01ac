-------------------------------- MODULE Words --------------------------------
(***************************************************************************)
(* The words sizes and offsets are kept in, boost::uint64_t in the code.   *)
(***************************************************************************)
EXTENDS Integers

CONSTANT Width    \* bits of a word

\* How powers of two grow is arithmetic, which the provers do not know.
ASSUME WidthAssumption ==
    /\ Width \in Nat
    /\ \A k \in 0..Width : 2^k \in Nat \ {0} /\ 2^(k + 1) = 2 * 2^k

Word == 2^Width

\* The powers of two that are words.
Powers == {2^k : k \in 0..(Width - 1)}
=============================================================================
