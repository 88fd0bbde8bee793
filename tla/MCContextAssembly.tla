--------------------------- MODULE MCContextAssembly ---------------------------
(***************************************************************************)
(* One session assembled twice, as when a failed first attempt is retried: *)
(* by a service with both optional stages, and by one with none.           *)
(***************************************************************************)
EXTENDS ContextAssembly

CONSTANTS first, retry

MCAssembly == {first, retry}
MCSessionOf == [a \in MCAssembly |-> "session"]
MCStagesOf == [a \in MCAssembly |-> IF a = first THEN {"ml_scoring", "memory"} ELSE {}]
MCCustomerOf == [a \in MCAssembly |-> "C002"]
=============================================================================
