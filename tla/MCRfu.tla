------------------------------- MODULE MCRfu -------------------------------
(* Small instances of Rfu for TLC: three nodes, of which the games of each    *)
(* run use the commands that matter to its properties.                        *)
EXTENDS Rfu, TLC

CONSTANTS n0, n1, n2, d1, d2, d3, d4, d5, long, short

\* n0 hosts; n1 and n2 compete for its slots, n1 leaving and coming back, or hosting
\* itself.
OneHostCmds == (n0 :> {"host_start", "host_stop", "disconnect", "reset", "rtx_wait", "recv"})
            @@ (n1 :> {"connect", "send", "disconnect", "host_start"})
            @@ (n2 :> {"connect", "concompl", "send"})

\* n0 and n1 both host; n2 moves between them without taking leave.
TwoHostCmds == (n0 :> {"host_start", "rtx_wait", "send"})
            @@ (n1 :> {"host_start", "disconnect", "recv"})
            @@ (n2 :> {"connect", "concompl", "send", "recv", "rtx_wait"})

\* One host and one client that may be reset at any time.
PairCmds == (n0 :> {"host_start", "host_stop", "disconnect", "reset", "send"})
         @@ (n1 :> {"connect", "concompl", "disconnect", "reset"})

Symmetric == Permutations(DevIds)
=============================================================================
