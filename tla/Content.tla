------------------------------ MODULE Content ------------------------------
(***************************************************************************)
(* The data that moves through the masternode: the origin's responses and  *)
(* the buffer chains (folly::IOBuf) that carry their bodies.               *)
(*                                                                         *)
(* A body is abstracted to the sequence of its chunks, one chunk for each  *)
(* time the origin connection delivers body bytes, and a chunk to the      *)
(* response it belongs to and its position in it.  That is enough to tell  *)
(* a whole body from a truncated, reordered or mixed one.                  *)
(***************************************************************************)
EXTENDS Naturals, Sequences

CONSTANTS
    Response,   \* the responses the origin may give: [status, html, len]
    NoResponse  \* the null HTTPMessage pointer

ASSUME ResponseAssumption ==
    /\ Response \subseteq [status : Nat, html : BOOLEAN, len : Nat]
    /\ NoResponse \notin Response

Chunk == Response \X Nat

\* The first n chunks of the body of response r, and all of them.
Body(r, n) == [i \in 1..n |-> <<r, i>>]
Whole(r) == Body(r, r.len)

-----------------------------------------------------------------------------
(***************************************************************************)
(* IOBuf chains.  The chain a handler accumulates is the sequence of the   *)
(* buffers it received.  A chain given to the cache is the record of its   *)
(* bytes and of the number of buffers they are spread over, because        *)
(* ServiceWorker::injectServiceWorker parses the head buffer only.         *)
(***************************************************************************)
IOBuf == [bytes : Seq(Chunk), bufs : Nat \ {0}]

clone(chain) == [bytes |-> chain, bufs |-> Len(chain)]
cloneCoalesced(chain) == [bytes |-> chain, bufs |-> 1]

\* buf.data(), buf.length(): the bytes of the head buffer of a chain, the
\* buffers after it holding one chunk each.
headBuffer(buf) == SubSeq(buf.bytes, 1, Len(buf.bytes) - (buf.bufs - 1))

\* Inserting before the head of a circular chain: the new buffer comes last.
\* Inserting after the head (appendChain): it comes second.
appendChain(chain, chunk) == <<Head(chain), chunk>> \o Tail(chain)
prependChain(chain, chunk) == Append(chain, chunk)
=============================================================================
