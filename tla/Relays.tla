-------------------------------- MODULE Relays --------------------------------
(***************************************************************************)
(* The outbounds that relay without Quota's loops: FragmentOutbound::handle  *)
(* (outbound/fragment.rs), two spawned tasks of which the upload cuts the    *)
(* first payload into pieces, and VlessClientOutbound::handle                *)
(* (outbound/vless_client.rs), which dials, shakes hands and then leaves both *)
(* directions to tokio's copy_bidirectional and counts what that reports.    *)
(* dispatch_connection drops the handler when the connection is shut down.   *)
(*                                                                         *)
(* Bytes are numbered in the order their sender wrote them.                  *)
(***************************************************************************)
EXTENDS Naturals, Sequences, SequencesExt

CONSTANTS
    Size,       \* bytes each side has to send, "up" and "down"
    BufSize,    \* 8192
    MinLen, MaxLen  \* FragmentSettings.length

Ways == {"up", "down"}
Min2(a, b) == IF a <= b THEN a ELSE b
Bytes(i, j) == [k \in 1 .. j - i |-> i + k]

VARIABLES
    kind,       \* "fragment", with its settings or "unfragmented" without, or "vless"
    handler,    \* "dial", "tls", "header", "response", "relay", "ended" or "dropped"
    read,       \* bytes read from each side
    hand,       \* bytes read and not written yet
    written,    \* bytes written to the other side, in order
    pc,         \* of each direction: "idle", "read", "write", "fragment", "eof" or "failed"
    first,      \* is_first_payload
    counted,    \* rx_counter and tx_counter
    zero        \* history: a piece of no bytes was drawn

vars == <<kind, handler, read, hand, written, pc, first, counted, zero>>

Init ==
    /\ kind \in {"fragment", "unfragmented", "vless"}
    /\ handler = "dial"
    /\ read = [w \in Ways |-> 0] /\ hand = [w \in Ways |-> <<>>] /\ written = [w \in Ways |-> <<>>]
    /\ pc = [w \in Ways |-> "idle"] /\ first = TRUE
    /\ counted = [rx |-> 0, tx |-> 0] /\ zero = FALSE

-----------------------------------------------------------------------------
\* The connection to the destination, or to the VLESS server and what precedes the
\* relay there: TLS, the request and its answer.
After(h) ==
    CASE h = "dial" -> IF kind = "vless" THEN {"tls", "header"} ELSE {"relay"}
      [] h = "tls" -> {"header"}
      [] h = "header" -> {"response"}
      [] h = "response" -> {"relay"}
Proceed ==
    /\ handler \in {"dial", "tls", "header", "response"}
    /\ handler' \in After(handler)
    /\ pc' = IF handler' = "relay" THEN [w \in Ways |-> "read"] ELSE pc
    /\ UNCHANGED <<kind, read, hand, written, first, counted, zero>>

\* Any of it fails, or the dial takes 10 s.
Refused ==
    /\ handler \in {"dial", "tls", "header", "response"}
    /\ handler' = "ended"
    /\ UNCHANGED <<kind, read, hand, written, pc, first, counted, zero>>

\* copy_bidirectional goes no further once one direction has failed; the two tasks of the
\* fragment outbound do not know of each other.
GoesOn == kind # "vless" \/ \A w \in Ways : pc[w] # "failed"

\* The first payload of an upload that is to be fragmented is handled apart.
Fragmented(w) == kind = "fragment" /\ w = "up" /\ first
Read(w) ==
    /\ GoesOn /\ pc[w] = "read" /\ read[w] < Size[w]
    /\ \E n \in 1 .. Min2(BufSize, Size[w] - read[w]) :
          /\ hand' = [hand EXCEPT ![w] = Bytes(read[w], read[w] + n)]
          /\ read' = [read EXCEPT ![w] = @ + n]
    /\ pc' = [pc EXCEPT ![w] = IF Fragmented(w) THEN "fragment" ELSE "write"]
    /\ first' = (first /\ ~Fragmented(w))
    /\ UNCHANGED <<kind, handler, written, counted, zero>>

\* Its sender has closed: the other side is shut down.
ReadEof(w) ==
    /\ GoesOn /\ pc[w] = "read" /\ read[w] = Size[w]
    /\ pc' = [pc EXCEPT ![w] = "eof"]
    /\ UNCHANGED <<kind, handler, read, hand, written, first, counted, zero>>

ReadFails(w) ==
    /\ GoesOn /\ pc[w] = "read"
    /\ pc' = [pc EXCEPT ![w] = "failed"]
    /\ UNCHANGED <<kind, handler, read, hand, written, first, counted, zero>>

\* The counter of a direction: what the client sends is tx in the tasks of the fragment
\* outbound, and rx where copy_bidirectional's two results are taken.
Counter(w) == IF (w = "up") = (kind = "vless") THEN "rx" ELSE "tx"

\* The first n bytes in hand go out; the tasks of the fragment outbound count them.
Put(w, n) ==
    /\ written' = [written EXCEPT ![w] = @ \o SubSeq(hand[w], 1, n)]
    /\ counted' = IF kind = "vless" THEN counted ELSE [counted EXCEPT ![Counter(w)] = @ + n]

Write(w) ==
    /\ GoesOn /\ pc[w] = "write"
    /\ Put(w, Len(hand[w]))
    /\ hand' = [hand EXCEPT ![w] = <<>>] /\ pc' = [pc EXCEPT ![w] = "read"]
    /\ UNCHANGED <<kind, handler, read, first, zero>>

\* Mutant of Rest: the rest of a payload is forgotten after the first piece.
RestNone(s, n) == <<>>
Rest(s, n) == SubSeq(s, n + 1, Len(s))

\* One piece of a length drawn from the range.  A piece of no bytes ends the loop, and what
\* is left of the payload is never written.
WriteFragment ==
    /\ pc["up"] = "fragment"
    /\ \E len \in MinLen .. MaxLen :
          LET n == Min2(len, Len(hand["up"]))
              rest == IF n = 0 THEN <<>> ELSE Rest(hand["up"], n)
          IN /\ Put("up", n)
             /\ hand' = [hand EXCEPT !["up"] = rest]
             /\ pc' = [pc EXCEPT !["up"] = IF rest = <<>> THEN "read" ELSE "fragment"]
             /\ zero' = (zero \/ n = 0)
    /\ UNCHANGED <<kind, handler, read, first>>

\* write_all fails with some of the bytes written, and nothing counted for them.
WriteFails(w) ==
    /\ GoesOn /\ pc[w] \in {"write", "fragment"}
    /\ \E n \in 0 .. Len(hand[w]) - 1 :
          written' = [written EXCEPT ![w] = @ \o SubSeq(hand[w], 1, n)]
    /\ hand' = [hand EXCEPT ![w] = <<>>] /\ pc' = [pc EXCEPT ![w] = "failed"]
    /\ UNCHANGED <<kind, handler, read, first, counted, zero>>

\* copy_bidirectional reports what it wrote from the client and to it, or an error.
Reported ==
    IF \E w \in Ways : pc[w] = "failed" THEN [rx |-> 0, tx |-> 0]
    ELSE [rx |-> Len(written["up"]), tx |-> Len(written["down"])]

\* Both tasks of the fragment outbound have ended; copy_bidirectional ends with both
\* directions or with the first error, and then the counters are raised.
Finish ==
    /\ handler = "relay"
    /\ \/ \A w \in Ways : pc[w] \in {"eof", "failed"}
       \/ kind = "vless" /\ \E w \in Ways : pc[w] = "failed"
    /\ handler' = "ended"
    /\ IF kind # "vless" THEN UNCHANGED <<counted, pc, hand>>
       ELSE /\ counted' = Reported
            /\ pc' = [w \in Ways |-> IF pc[w] = "eof" THEN "eof" ELSE "failed"]
            /\ hand' = [w \in Ways |-> <<>>]
    /\ UNCHANGED <<kind, read, written, first, zero>>

\* A dropped JoinHandle leaves its task running.
Detached == kind # "vless"

\* The connection is shut down (disconnect_user): the handler is dropped.
Kick ==
    /\ handler \notin {"ended", "dropped"}
    /\ handler' = "dropped"
    /\ IF Detached THEN UNCHANGED <<pc, hand>>
       ELSE pc' = [w \in Ways |-> "failed"] /\ hand' = [w \in Ways |-> <<>>]
    /\ UNCHANGED <<kind, read, written, first, counted, zero>>

Next ==
    \/ Proceed \/ Refused \/ WriteFragment \/ Finish \/ Kick
    \/ \E w \in Ways : Read(w) \/ ReadEof(w) \/ ReadFails(w) \/ Write(w) \/ WriteFails(w)

\* The runtime goes on with a task whose peers go on, including one whose handler is gone.
Step(w) == Read(w) \/ ReadEof(w) \/ Write(w)
Fairness == (\A w \in Ways : WF_vars(Step(w))) /\ WF_vars(WriteFragment) /\ WF_vars(Finish)
Spec == Init /\ [][Next]_vars

-----------------------------------------------------------------------------
\* What the receiver gets is the beginning of what the sender wrote, whatever pieces the
\* first payload is cut into and wherever a write fails; after a clean end it is all of it.
\* The one exception is a length range that begins at 0 and a piece of that length.
PiecesInOrder ==
    \A w \in Ways : ~(zero /\ w = "up") =>
        /\ IsPrefix(written[w], Bytes(0, Size[w]))
        /\ pc[w] = "eof" => Len(written[w]) = Size[w]

\* The fragment outbound counts what it wrote, except for a write that failed half-way.
\* The VLESS client counts everything when both directions ended cleanly, and nothing
\* when one failed or the connection was shut down.
CountsReported ==
    \A w \in Ways :
        IF kind # "vless"
        THEN /\ counted[Counter(w)] <= Len(written[w])
             /\ pc[w] # "failed" => counted[Counter(w)] = Len(written[w])
        ELSE counted[Counter(w)] =
                IF handler = "ended" /\ \A v \in Ways : pc[v] = "eof" THEN Len(written[w]) ELSE 0

\* A relay that began ends, with its handler or without it: a shut down connection of the
\* fragment outbound goes on until both its peers have closed.
RelaysEnd == []<>(\A w \in Ways : pc[w] \in {"idle", "eof", "failed"})

-----------------------------------------------------------------------------
\* What makes them inductive (DoorsProofs).
RelayAssumption ==
    /\ Size \in [Ways -> Nat]
    /\ BufSize \in Nat /\ MinLen \in Nat /\ MaxLen \in Nat

TypeOK ==
    /\ kind \in {"fragment", "unfragmented", "vless"}
    /\ handler \in {"dial", "tls", "header", "response", "relay", "ended", "dropped"}
    /\ read \in [Ways -> Nat] /\ hand \in [Ways -> Seq(Nat)] /\ written \in [Ways -> Seq(Nat)]
    /\ pc \in [Ways -> {"idle", "read", "write", "fragment", "eof", "failed"}]
    /\ counted \in [rx : Nat, tx : Nat]

\* The bytes of s are those after the first k.
Numbered(s, k) == \A i \in DOMAIN s : s[i] = k + i

\* What was written and what is in hand are the beginning of what was read, and all of it
\* before a write failed; but for a piece of no bytes.
InOrder(w) ==
    /\ Len(written[w]) + Len(hand[w]) <= read[w] /\ read[w] <= Size[w]
    /\ pc[w] \notin {"write", "fragment"} => hand[w] = <<>>
    /\ pc[w] = "eof" => read[w] = Size[w]
    /\ pc[w] = "fragment" => kind = "fragment" /\ w = "up"
    /\ ~(zero /\ w = "up") =>
          /\ Numbered(written[w], 0) /\ Numbered(hand[w], Len(written[w]))
          /\ pc[w] # "failed" => Len(written[w]) + Len(hand[w]) = read[w]

\* No direction of copy_bidirectional goes on.
Stopped ==
    \/ \A w \in Ways : pc[w] = "eof"
    \/ \E w \in Ways : pc[w] = "failed"
    \/ \A w \in Ways : pc[w] = "idle"

CountsSettled ==
    /\ handler \in {"dial", "tls", "header", "response"} => \A w \in Ways : pc[w] = "idle"
    /\ kind = "vless" /\ handler \in {"ended", "dropped"} => Stopped

IInv == TypeOK /\ (\A w \in Ways : InOrder(w)) /\ CountsSettled /\ CountsReported
=============================================================================
