--------------------------- MODULE MCKafkaWorker ---------------------------
(***************************************************************************)
(* Small partitions for KafkaWorker.                                       *)
(***************************************************************************)
EXTENDS KafkaWorker

CONSTANTS
  good,  \* an event that can be processed
  bad,   \* an event that is refused
  poison \* an event that fails whenever it is tried

MCVerdicts ==
  [e \in Event |-> CASE e = good   -> {"processed"}
                     [] e = bad    -> {"sent_to_dlq"}
                     [] e = poison -> {}]

\* A producer that sent bad twice, a failing event, a message that is no event.
LogWithCopies == <<bad, poison, good, bad, Malformed>>
RefusedThenGood == <<bad, good>>

=============================================================================
