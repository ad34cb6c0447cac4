------------------------------ MODULE WriteOnce ------------------------------
(***************************************************************************)
(* A store whose cells are written once: what a published policy version   *)
(* is to those who cite it.                                                *)
(***************************************************************************)
CONSTANTS Cells, Contents, Empty

VARIABLE store   \* store[c]: the content of cell c, Empty until it is written

WriteOnceInit == store = [c \in Cells |-> Empty]

Write(c, v) == /\ store[c] = Empty
               /\ store' = [store EXCEPT ![c] = v]

WriteOnceNext == \E c \in Cells, v \in Contents : Write(c, v)

WriteOnceSpec == WriteOnceInit /\ [][WriteOnceNext]_store
==============================================================================
