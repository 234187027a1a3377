------------------------------ MODULE MCSmoke -------------------------------
(* Three servers.  A launch names its release, or names none and cannot be  *)
(* rebuilt by the sandbox; a pull request turns one into the other.         *)
EXTENDS Smoke

MCPinned   == [artifact |-> "pkg@1", launch |-> "l1"]
MCUnpinned == [artifact |-> NoId, launch |-> "l1"]
MCIdentities == {MCPinned, MCUnpinned}

MCEntries ==
    {[kind |-> "server", identity |-> MCPinned],
     [kind |-> "unjailable", identity |-> MCUnpinned]}
=============================================================================
