------------------------------ MODULE MCWebClient ------------------------------
(***************************************************************************)
(* Small instances of WebClient for TLC.                                   *)
(***************************************************************************)
EXTENDS WebClient, TLC

CONSTANTS s1, s2, a1, a2

Budget(earlier, connect, metadata, failures, reloads, clicks, lost) ==
    [earlier |-> earlier, connect |-> connect, metadata |-> metadata, failures |-> failures,
     reloads |-> reloads, clicks |-> clicks, lost |-> lost]

Scenarios ==
    {Budget(FALSE, 0, 3, 0, 0, 0, 0), Budget(TRUE, 0, 3, 0, 0, 0, 0), Budget(FALSE, 1, 2, 0, 0, 0, 0),
     Budget(TRUE, 1, 2, 0, 0, 0, 0), Budget(TRUE, 0, 2, 1, 0, 0, 0), Budget(TRUE, 1, 1, 1, 0, 0, 0),
     Budget(TRUE, 0, 2, 0, 1, 0, 0), Budget(TRUE, 1, 1, 0, 1, 0, 0),
     Budget(FALSE, 0, 1, 0, 0, 2, 0), Budget(FALSE, 0, 0, 0, 0, 2, 1), Budget(FALSE, 0, 0, 0, 0, 3, 0)}

Alike == Permutations({s1, s2}) \cup Permutations({a1, a2})
==============================================================================
