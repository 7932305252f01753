----------------------------- MODULE MCDispatch -----------------------------
(* Instances of Dispatch for TLC.                                          *)
EXTENDS Dispatch

\* An ordinary destination; a local one and another that are in both kinds of
\* domain set; ones that a custom rule blocks and sends to WARP.
Plain     == [local |-> FALSE, warpSet |-> FALSE, directSet |-> FALSE, rule |-> "none"]
Listed    == [Plain EXCEPT !.warpSet = TRUE, !.directSet = TRUE]
ToWarp    == [Plain EXCEPT !.rule = "warp"]
MCDests   == {Plain, Listed, [Listed EXCEPT !.local = TRUE], [Plain EXCEPT !.rule = "block"], ToWarp}
PlainOnly == {Plain}
RuleOnly  == {ToWarp}

\* "direct" goes out freely and "block" is a blackhole; "warp" is not configured,
\* with or without a proxy, or another protocol.
Freedom(proxied) == [protocol |-> "freedom", proxy |-> proxied]
ConfigOf(warp) ==
    [t \in Tags |-> IF t = "warp" THEN warp
                    ELSE IF t = "block" THEN [protocol |-> "blackhole", proxy |-> FALSE] ELSE Freedom(FALSE)]
MCConfigs == {ConfigOf(o) : o \in {Missing, Freedom(TRUE), Freedom(FALSE), [protocol |-> "vless", proxy |-> FALSE]}}
NoWarp == {ConfigOf(Missing)}
=============================================================================
