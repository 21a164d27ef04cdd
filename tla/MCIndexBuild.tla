---- MODULE MCIndexBuild ----
(* Instances of IndexBuild for TLC: files named with their directory. *)
EXTENDS IndexBuildProps

CONSTANTS d1, d2, d3

File(doc) == [doc |-> doc, bare |-> FALSE]
Bare(doc) == [doc |-> doc, bare |-> TRUE]

\* Two files, then one more beside one that is already indexed.
TwoRuns == << <<File(d1), File(d2)>>, <<File(d1), File(d3)>> >>
\* Three files at one go.
OneRun == << <<File(d1), File(d2), File(d3)>> >>
\* The same file twice, named without its directory.
SameAgain == << <<Bare(d1), Bare(d2)>>, <<Bare(d1)>> >>
====
