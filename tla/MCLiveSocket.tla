---------------------------- MODULE MCLiveSocket ----------------------------
(* One order watched by its id, by two components, and one by its token.   *)
EXTENDS LiveSocket, TLC
CONSTANTS ann, bob, byId, byToken, page, twin, guest
MCWatchOf == page :> byId @@ twin :> byId @@ guest :> byToken
MCMayWatch == ann :> {byId} @@ bob :> {}
=============================================================================
