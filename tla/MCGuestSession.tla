--------------------------- MODULE MCGuestSession ---------------------------
(* A small instance of GuestSession for TLC: the pattern is the second byte *)
(* of the behaviour, so that a match can end inside a read and leave bytes  *)
(* over.                                                                    *)
EXTENDS GuestSession

SecondByte == <<2>>

(* A command appends, a write replaces, and the stat sees the result.       *)
OneBatch == {<<"run", "write_file", "stat">>}
=============================================================================
