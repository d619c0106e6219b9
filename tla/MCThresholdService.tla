------------------------- MODULE MCThresholdService -------------------------
(***************************************************************************)
(* An instance of ThresholdService for TLC: a bounded number of keys, a    *)
(* pool of workers, single calls of each kind, and a batch.                *)
(***************************************************************************)
EXTENDS ThresholdService

Request(op, items) == [op |-> op, items |-> items]

AllRequests ==
  {Request("D", <<2>>), Request("P", <<1>>), Request("C", <<-1>>), Request("M", <<2, 3, 2>>)}

AllBatches == {q.items : q \in AllRequests} \cup {<<>>}
=============================================================================
