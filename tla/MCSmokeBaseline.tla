--------------------------- MODULE MCSmokeBaseline ---------------------------
(* Smoke.tla with one more history variable: what the last passing run      *)
(* recorded of each server, whatever the later runs stored in its place.    *)
(* One server, run several times under the launches of MCSmoke.             *)
EXTENDS Smoke

VARIABLE last

LastInit == Init /\ last = results

LastNext ==
    /\ Next
    /\ last' = [n \in Names |-> IF HasSurface(results'[n]) THEN results'[n]
                                ELSE last[n]]

LastSpec == LastInit /\ [][LastNext]_<<vars, last>>

(* "Each passing run records a tool-surface fingerprint ... so a later run  *)
(* can say whether a changed surface came with a new artifact or without    *)
(* one" (docs/DATABASE.md): a surface that differs from the one the last    *)
(* passing run recorded is reported.                                        *)
ChangedSurfaceIsReported ==
    [][\A n \in Names :
        results'[n] # results[n] /\ HasSurface(results'[n])
            /\ HasSurface(last[n]) /\ results'[n].surface # last[n].surface
            => results'[n].drift # NoDrift]_<<vars, last>>
-----------------------------------------------------------------------------
MCPinned   == [artifact |-> "pkg@1", launch |-> "l1"]
MCUnpinned == [artifact |-> NoId, launch |-> "l1"]
MCIdentities == {MCPinned, MCUnpinned}

MCEntries ==
    {[kind |-> "server", identity |-> MCPinned],
     [kind |-> "unjailable", identity |-> MCUnpinned]}
=============================================================================
