-------------------------- MODULE LedgerRefinement --------------------------
(***************************************************************************)
(* EventProcessing implements EventLedger: the ledger is raw_events, and a *)
(* call is open while its transaction runs, broken between the rollback    *)
(* and the attempt to mark the event failed, answered at the end.          *)
(***************************************************************************)
EXTENDS EventProcessing

\* The statuses an event can enter raw_events with: the kind of the event leaves
\* a choice only to events with a known identifier, and a purchase that is
\* refused or a time without a zone takes processed away.  Failed is not among
\* them: a linked customer always has a profile.
StatusesOf(e) ==
  CASE ~Storable[e] -> {}
    [] Storable[e] /\ TypeOf[e] = "unsupported" -> {"sent_to_dlq"}
    [] Storable[e] /\ TypeOf[e] # "unsupported" /\ KnownIdentifiers(e) = {} ->
         {"ignored_anonymous"}
    [] OTHER -> {"sent_to_dlq"} \cup
                {s \in {"processed"} : Zoned[e] \/ TypeOf[e] = "purchase"}

CallOf(t) ==
  [event  |-> t.event,
   stage  |-> CASE t.pc = "mark_failed" -> "broken"
                [] t.pc = "reply"       -> "answered"
                [] OTHER                -> "open",
   answer |-> IF t.pc = "reply" THEN t.outcome ELSE "failed"]

OpenCalls == [w \in Busy |-> CallOf(tx[w])]

Ledger == INSTANCE EventLedger WITH
  Verdicts <- [e \in Event |-> StatusesOf(e)],
  ledger <- rawEvents,
  calls <- OpenCalls

\* Whatever the statements of concurrent transactions do, their callers see
\* one ledger in which an event is entered once, completely or not at all.
ImplementsLedger == Ledger!LedgerSpec
=============================================================================
