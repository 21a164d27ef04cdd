------------------------------ MODULE MCQuery ------------------------------
(***************************************************************************)
(* Queries for TLC.  "a" is a word that matches two words of the index (as *)
(* by stemming), "b" a prefix that matches one; "s" is a stop word; "m" is *)
(* not in the index, but the name of meta data 0.                          *)
(***************************************************************************)
EXTENDS QueryProps

MCMatches == [a |-> {1, 2}, b |-> {3}, c |-> {2}, d |-> {3}, s |-> {}, m |-> {}]
MCMetaIds == [m |-> 0]

Entry(file, rank, metas, pos) == [file |-> file, rank |-> rank, metas |-> metas, pos |-> pos]
AllFiles == [f \in 1..4 |-> Entry(f, 1, {}, <<9>>)]

\* In file 1 the words are often and once near, in file 2 never near, in
\* file 3 only one is, and which one differs; in file 4 there is neither.
\* Words that are in all files are too frequent.
MCIndices ==
  {<<<<Entry(1, 5, {}, <<1, 9>>), Entry(2, 7, {0}, <<9>>)>>, <<Entry(3, 2, {0}, <<2>>)>>,
     <<Entry(1, 4, {0}, <<4, 8>>), Entry(2, 1, {0}, <<5>>)>>>>,
   <<<<Entry(2, 5, {0}, <<3, 8, 20>>)>>, AllFiles,
     <<Entry(1, 3, {}, <<1>>), Entry(2, 9, {}, <<6, 15, 22>>), Entry(3, 2, {0}, <<1>>)>>>>,
   <<AllFiles, AllFiles, <<Entry(2, 1, {}, <<4>>)>>>>}
=============================================================================
