--------------------------- MODULE MCToolApproval ---------------------------
\* Two tools: one changes its print, the other comes and goes.
EXTENDS ToolApproval, TLC

MCSurfaces == {"read" :> "v1" @@ "write" :> "v1", "read" :> "v2"}

\* Runs are interchangeable, and so are the artifacts.
MCSymmetry == Permutations(Procs) \cup Permutations(Ids)
=============================================================================
