------------------------------ MODULE MCPaging ------------------------------
(* Paging through up to nine rows, some of which have equal keys. *)
EXTENDS Paging

MCKey == [i \in 1..MaxRows |-> i \div 2]
MCRawNumbers == -1..11 \cup {Malformed}
MCRawSizes == 0..5 \cup {Malformed}
=============================================================================
