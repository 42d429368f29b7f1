----------------------------- MODULE StreamWire -----------------------------
(***************************************************************************)
(* The host's end of a stream connection: the frame decoder                *)
(* (provium-protocol/src/frame.rs) and the session on top of it            *)
(* (provium-host/src/agent_client/tail.rs).                                *)
(*                                                                         *)
(* `wire' is what has arrived and not been read, a sequence of pieces (see *)
(* AgentFiles); `part' is how many pieces of the next message the decoder  *)
(* already holds.  A message has two pieces, so `part' is 0 or 1: whatever *)
(* the split, header from body or inside either, the decoder has something *)
(* of the message and not all of it.                                       *)
(***************************************************************************)
EXTENDS AgentFiles

FramePieces == 2

-----------------------------------------------------------------------------
(* FrameReader::read.  It returns when the rest of the message is there,   *)
(* and reads nothing beyond it.                                            *)
HasFrame(part, wire) == part + Len(wire) >= FramePieces

FrameOf(part, wire) == wire[FramePieces - part].msg

AfterFrame(part, wire) == SubSeq(wire, FramePieces - part + 1, Len(wire))

(* A plausible slip: the one-shot read_frame, which starts over.           *)
PartialForgotten(part, wire) == 0

(* A read that times out keeps what it has read: the next call goes on     *)
(* from there.                                                             *)
Partial(part, wire) == part + Len(wire)

(* A plausible slip: any short read counts as the end.                     *)
CleanEndAnywhere(part, wire) == TRUE

(* The peer has gone: only between two messages is that a clean end.       *)
CleanEnd(part, wire) == part + Len(wire) = 0

(* read_full reads on until what it wants is there or the peer has closed. *)
Torn(part, wire) == ~HasFrame(part, wire) /\ ~CleanEnd(part, wire)

-----------------------------------------------------------------------------
(* TailFileSession::next_frame: what a decoded message means.              *)
next_frame(msg) ==
    CASE msg.is = "frame" -> [gives |-> "bytes", eof |-> FALSE]
      [] msg.is = "end"   -> [gives |-> "end",   eof |-> TRUE]
      [] msg.is = "error" -> [gives |-> "error", eof |-> TRUE]

(* The bytes of the stream that wait in the decoder and on the wire: the   *)
(* messages whose last piece has not been read.                            *)
Waiting(wire) ==
    FlattenSeq([i \in 1..Len(wire) |-> IF wire[i].last THEN wire[i].msg.bytes ELSE <<>>])
=============================================================================
