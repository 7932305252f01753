------------------------------ MODULE MCOutbound ------------------------------
(***************************************************************************)
(* Outbound on small instances: focus names the component that runs, from its  *)
(* own initial state, and the others stay where they began.  They share no state *)
(* that the properties are about, so this is the union of a run of each.  A       *)
(* component's fairness is the premise of its own liveness property.              *)
(***************************************************************************)
EXTENDS Outbound

VARIABLE focus

allVars == <<focus, outboundVars>>

Named == [host |-> "p", colons |-> 1, port |-> "40000"]
Direct == [host |-> "none", colons |-> 0, port |-> "none"]
Req(k, d, p, b) == [kind |-> k, dest |-> d, proxy |-> p, bind |-> b]
\* Requests that meet: the same name through the proxy and directly, a proxy with a
\* name of its own, callers with and without a deadline.
DialOrder ==
    << Req("freedom", "d", Named, "none"), Req("vless", "d", Named, "none"),
      Req("freedom", "d", Direct, "none"), Req("preflight", "d", Direct, "none"),
      Req("freedom", "v6", Named, "none"), Req("vless", "v4", [Named EXCEPT !.host = "v4"], "v6"),
      Req("freedom", "v4", [Named EXCEPT !.port = "0"], "none") >>
Dials == {DialOrder[i] : i \in DOMAIN DialOrder}

\* The instance is one the theorems of OutboundProofs speak of.
ASSUME OutboundConstants == UdpAssumption /\ D!DialAssumption

AllInit ==
    /\ focus \in {"dial", "udp", "warp"}
    /\ OutboundInit
    /\ focus = "udp" \/ (mode = "packetaddr" /\ ~proxy)
    /\ focus = "warp" \/ up

\* The two calls are interchangeable and dial once: while both are under way c1 has the request
\* that comes first.
RequestOf(c) == Req(calls[c].kind, calls[c].dest, calls[c].proxy, calls[c].bind)
InOrder ==
    (\A c \in {"c1", "c2"} : calls[c].pc \notin {"idle", "done", "failed"}) =>
        \E i, j \in DOMAIN DialOrder : i <= j /\ DialOrder[i] = RequestOf("c1") /\ DialOrder[j] = RequestOf("c2")

AllNext ==
    /\ UNCHANGED focus
    /\ \/ focus = "dial" /\ DialStep /\ InOrder'
       \/ focus = "udp" /\ UdpStep
       \/ focus = "warp" /\ WarpStep

AllSpec == AllInit /\ [][AllNext]_allVars
=============================================================================
