----------------------------- MODULE LuaStreams -----------------------------
(***************************************************************************)
(* The three stream objects a test reads from: Tail (lua/result_ud.rs),    *)
(* ConsoleStream (lua/console_stream_ud.rs) and Capture                    *)
(* (lua/capture_ud.rs), with the methods next, read_until, expect, drain   *)
(* and close.                                                              *)
(*                                                                         *)
(* A stream object is a record u:                                          *)
(*   kind     "none", or which of the three it is                          *)
(*   st       "open" or "closed"                                           *)
(*   eof      its transport has reported the end                           *)
(*   pending  bytes read past an earlier match, given out first            *)
(*   tmo      a Tail's read timeout: "none", the blocking default, "set"   *)
(*   op       the method under way, "idle" between two calls               *)
(*   timed    a next that was given a timeout                              *)
(*   acc      the bytes this call has read so far                          *)
(*   seen     every byte the test was given so far, in order, each with    *)
(*            what became of it: "got" (returned), "matched" (consumed by  *)
(*            expect) or "lost" (read by a call that then raised).         *)
(* A method that blocks is begun by one operator and carried on by         *)
(* another for each thing the transport can answer: some bytes, a timeout, *)
(* the end, an error.  `late' says how a loop that found no match goes on: *)
(* "no" (time is left), "yes" (the deadline has passed), "zero" (it passes *)
(* just before the next round reads).                                      *)
(***************************************************************************)
EXTENDS Naturals, Sequences, FiniteSets, FiniteSetsExt

CONSTANT
    Needle      \* the pattern read_until and expect look for

NoStream ==
    [kind |-> "none", st |-> "closed", eof |-> FALSE, pending |-> <<>>, tmo |-> "none",
     op |-> "idle", timed |-> FALSE, acc |-> <<>>, seen |-> <<>>]

NewStream(kind) == [NoStream EXCEPT !.kind = kind, !.st = "open"]

Searching(u) == u.op \in {"read_until", "expect"}

(* The end of the first match in hay, 0 when there is none.                *)
haystack_find(hay) ==
    LET ends == {i \in Len(Needle)..Len(hay) : SubSeq(hay, i - Len(Needle) + 1, i) = Needle}
    IN  IF ends = {} THEN 0 ELSE Min(ends)

Matches(hay) == haystack_find(hay) > 0
Upto(hay) == SubSeq(hay, 1, haystack_find(hay))
Leftover(hay) == SubSeq(hay, haystack_find(hay) + 1, Len(hay))

Seen(u, bytes, how) ==
    [u EXCEPT !.seen = @ \o [i \in 1..Len(bytes) |-> [byte |-> bytes[i], how |-> how]]]

Return(u) == [u EXCEPT !.op = "idle", !.timed = FALSE, !.acc = <<>>]

Give(u, bytes) == Return(Seen(u, bytes, "got"))

(* A search that raises: what it had read is gone with its buffer.         *)
RaiseLosing(u) == Return(Seen(u, u.acc, "lost"))

(* A match: read_until returns it, expect only consumes it.                *)
Found(u, hay) ==
    [Return(Seen(u, Upto(hay), IF u.op = "expect" THEN "matched" ELSE "got"))
        EXCEPT !.pending = Leftover(hay)]

GivePending(u) == [Give(u, u.pending) EXCEPT !.pending = <<>>]

TakePending(u, op) == [u EXCEPT !.op = op, !.acc = u.pending, !.pending = <<>>]

-----------------------------------------------------------------------------
(* Tail.                                                                   *)

(* next: pending bytes, else nil on a closed or ended stream, else one     *)
(* frame under the timeout asked for.  A timeout of zero cannot be set and *)
(* leaves the one in force.                                                *)
TailNext(u, timeout) ==
    CASE u.pending # <<>> -> GivePending(u)
      [] u.pending = <<>> /\ (u.st = "closed" \/ u.eof) -> u
      [] OTHER -> [u EXCEPT !.op = "next", !.timed = timeout # "none",
                            !.tmo = IF timeout = "some" THEN "set" ELSE @]

(* read_until: pending bytes first; a closed stream raises, and an ended   *)
(* one raises with what it took.                                           *)
TailReadUntil(u, op) ==
    LET t == TakePending(u, op)
    IN  CASE Matches(u.pending) -> Found(t, u.pending)
          [] ~Matches(u.pending) /\ (u.st = "closed" \/ u.eof) -> RaiseLosing(t)
          [] OTHER -> [t EXCEPT !.tmo = "set"]

(* expect does what read_until does and keeps the match to itself.         *)
TailExpect(u) == TailReadUntil(u, "expect")

(* drain: pending bytes are its first element.                             *)
TailDrain(u) ==
    IF u.st = "closed" \/ u.eof
    THEN GivePending(u)
    ELSE [TakePending(u, "drain") EXCEPT !.tmo = "set"]

(* close drops the session, and with it its place in the registry.         *)
TailClose(u) == [u EXCEPT !.st = "closed", !.pending = <<>>]

(* next and drain put the blocking default back after every read.          *)
TailRestored(u) == IF u.timed \/ u.op = "drain" THEN [u EXCEPT !.tmo = "none"] ELSE u

(* A search that is out of time: the usual exit restores the default, the  *)
(* one at the head of the loop does not.                                   *)
TailOutOfTime(u, late) ==
    CASE late = "no" -> u
      [] late = "yes" -> [RaiseLosing(u) EXCEPT !.tmo = "none"]
      [] late = "zero" -> RaiseLosing(u)

TailBytes(u, bytes, late) ==
    LET w == [u EXCEPT !.acc = @ \o bytes]
    IN  CASE u.op = "next" -> Give(TailRestored(u), bytes)
          [] u.op = "drain" -> IF late = "no" THEN w ELSE Give(TailRestored(w), w.acc)
          [] Searching(u) /\ Matches(w.acc) -> [Found(w, w.acc) EXCEPT !.tmo = "none"]
          [] OTHER -> TailOutOfTime(w, late)

TailTimeout(u, late) ==
    CASE u.op = "next" -> Return(TailRestored(u))
      [] u.op = "drain" -> Give(TailRestored(u), u.acc)
      [] OTHER -> TailOutOfTime(u, late)

TailEnd(u) ==
    CASE u.op = "next" -> Return(TailRestored(u))
      [] u.op = "drain" -> Give(TailRestored(u), u.acc)
      [] OTHER -> RaiseLosing(u)

TailError(u) == RaiseLosing(TailRestored(u))

-----------------------------------------------------------------------------
(* ConsoleStream.  Its searches work on `pending' itself, so a call that   *)
(* raises loses nothing.                                                   *)

ConsoleNext(u) ==
    CASE u.pending # <<>> -> GivePending(u)
      [] u.pending = <<>> /\ u.eof -> u
      [] OTHER -> [u EXCEPT !.op = "next"]

ConsoleReadUntil(u, op) ==
    CASE Matches(u.pending) -> Found([u EXCEPT !.op = op], u.pending)
      [] ~Matches(u.pending) /\ u.st = "closed" -> u
      [] OTHER -> [u EXCEPT !.op = op]

ConsoleExpect(u) == ConsoleReadUntil(u, "expect")

ConsoleDrain(u) ==
    IF u.st = "closed" THEN GivePending(u) ELSE TakePending(u, "drain")

(* close keeps the registry guard, which goes with the object itself.      *)
ConsoleClose(u) == [u EXCEPT !.st = "closed", !.eof = TRUE, !.pending = <<>>]

ConsoleBytes(u, bytes, late) ==
    LET w == [u EXCEPT !.pending = @ \o bytes]
        d == [u EXCEPT !.acc = @ \o bytes]
    IN  CASE u.op = "next" -> Give(u, bytes)
          [] u.op = "drain" -> IF late = "no" THEN d ELSE Give(d, d.acc)
          [] Searching(u) /\ Matches(w.pending) -> Found(w, w.pending)
          [] OTHER -> IF late = "no" THEN w ELSE Return(w)

ConsoleTimeout(u, late) ==
    CASE u.op = "next" -> Return(u)
      [] u.op = "drain" -> Give(u, u.acc)
      [] OTHER -> IF late = "no" THEN u ELSE Return(u)

ConsoleEnd(u) == [(IF u.op = "drain" THEN Give(u, u.acc) ELSE Return(u)) EXCEPT !.eof = TRUE]

(* A search takes a reset for the end; next raises it; drain ignores it.   *)
ConsoleError(u) ==
    CASE Searching(u) -> [Return(u) EXCEPT !.eof = TRUE]
      [] u.op = "drain" -> Give(u, u.acc)
      [] OTHER -> Return(u)

-----------------------------------------------------------------------------
(* Capture.                                                                *)

CaptureNext(u) ==
    CASE u.pending # <<>> -> GivePending(u)
      [] u.pending = <<>> /\ u.eof -> u
      [] OTHER -> [u EXCEPT !.op = "next"]

CaptureReadUntil(u, op) ==
    LET t == TakePending(u, op)
    IN  CASE Matches(u.pending) -> Found(t, u.pending)
          [] ~Matches(u.pending) /\ u.st = "closed" -> RaiseLosing(t)
          [] OTHER -> t

CaptureExpect(u) == CaptureReadUntil(u, "expect")

CaptureDrain(u) == IF u.eof THEN GivePending(u) ELSE TakePending(u, "drain")

(* close kills tcpdump; the bridge's guard goes with the object.           *)
CaptureClose(u) == [u EXCEPT !.st = "closed", !.eof = TRUE, !.pending = <<>>]

CaptureBytes(u, bytes, late) ==
    LET w == [u EXCEPT !.acc = @ \o bytes]
    IN  CASE u.op = "next" -> Give(u, bytes)
          [] u.op = "drain" -> IF late = "no" THEN w ELSE Give(w, w.acc)
          [] Searching(u) /\ Matches(w.acc) -> Found(w, w.acc)
          [] OTHER -> IF late = "no" THEN w ELSE RaiseLosing(w)

(* poll has nothing, or was interrupted: a search raises at once.          *)
CaptureTimeout(u) ==
    CASE u.op = "next" -> Return(u)
      [] u.op = "drain" -> Give(u, u.acc)
      [] OTHER -> RaiseLosing(u)

CaptureEnd(u) ==
    [(CASE u.op = "next" -> Return(u)
        [] u.op = "drain" -> Give(u, u.acc)
        [] OTHER -> RaiseLosing(u)) EXCEPT !.eof = TRUE]
=============================================================================
