----------------------------- MODULE RoutePolicy ------------------------------
(***************************************************************************)
(* The order of precedence of Router::resolve_route (router/mod.rs).  d has *)
(* what is known of the destination: whether it is local, in an enabled     *)
(* domain set of either kind, and the outbound of the first custom rule     *)
(* that matches it ("none" if there is none).                               *)
(***************************************************************************)

Modes == {"Smart", "BrowsingWarp", "LowLatencyDirect"}

resolve_route(m, d) ==
    IF d.local THEN "direct"
    ELSE IF m = "BrowsingWarp" /\ d.directSet THEN "direct"
    ELSE IF m = "Smart" /\ d.warpSet THEN "warp"
    ELSE IF d.rule # "none" THEN d.rule
    ELSE IF m = "BrowsingWarp" THEN "warp" ELSE "direct"
=============================================================================
