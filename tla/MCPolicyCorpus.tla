---------------------------- MODULE MCPolicyCorpus ----------------------------
(* Checked instances of PolicyCorpus. *)
EXTENDS PolicyCorpus, TLC

ClauseAt(name, distance) == [name |-> name, distance |-> distance]

(* The committed policy, in force from day 1 without an end, with one clause more
   than retrieval reads. *)
Refund == [source |-> "POL-REFUND", version |-> 1, from |-> 1, to |-> Endless,
           matches |-> TRUE, clauses |-> {ClauseAt("4.2", 4), ClauseAt("4.3", 6),
                          ClauseAt("4.4", 5), ClauseAt("4.5", 7)}]

(* The same version with another clause: it may not replace the first. *)
Edited == [Refund EXCEPT !.clauses = {ClauseAt("4.2", 5)}]

(* A second document that expires, with a clause as near as the first's. *)
Notice == [source |-> "POL-NOTICE", version |-> 1, from |-> 0, to |-> 1,
           matches |-> TRUE, clauses |-> {ClauseAt("1", 4)}]

(* Another carrier's, and one that has little to do with the query. *)
Foreign == [source |-> "POL-OTHER", version |-> 1, from |-> 0, to |-> Endless,
            matches |-> FALSE, clauses |-> {ClauseAt("1", 0)}]
Vague == [source |-> "POL-REFUND", version |-> 2, from |-> 2, to |-> Endless,
          matches |-> TRUE, clauses |-> {ClauseAt("9", 9)}]

(* A document of three near clauses, which fill the rows retrieval reads. *)
Long == [source |-> "POL-LONG", version |-> 1, from |-> 0, to |-> Endless,
         matches |-> TRUE,
         clauses |-> {ClauseAt("1", 1), ClauseAt("2", 2), ClauseAt("3", 3)}]

SmallCorpus == {Refund, Edited, Notice, Foreign, Vague}
LongCorpus == {Refund, Long}

Interchangeable == Permutations(Ingesters) \cup Permutations(Retrievers)
                     \cup Permutations(Proposals)
==============================================================================
