------------------------- MODULE MCGitStateManager -------------------------
(* GitStateManager on a small instance: two servers, one of them with one   *)
(* caller or two.                                                           *)
EXTENDS GitStateManager

CONSTANTS s1, s2, a, b, c

OneEach == (a :> s1) @@ (c :> s2)
TwoServers == (a :> s1) @@ (b :> s1) @@ (c :> s2)
=============================================================================
