-------------------------- MODULE MCMessageEvents --------------------------
(***************************************************************************)
(* A small instance of MessageEvents: one delivery whose message was sent  *)
(* twice (ids m1, m2), a provider that names it by delivery or by message  *)
(* id, with and without an event id.                                       *)
(***************************************************************************)
EXTENDS MessageEvents

CONSTANTS m1, m2, e1, t1, t2

Notice(event, at, pmid, eventId, named) ==
  [event |-> event, at |-> at, pmid |-> pmid, eventId |-> eventId, named |-> named]

\* Two notifications that race for each first value, a click without message
\* id, one found by its message id only, and one that updates nothing.
MCNotices ==
  {Notice("send_requested", t1, m1, None, "delivery"),
   Notice("sent", t1, m1, None, "delivery"),
   Notice("sent", t2, m2, None, "delivery"),
   Notice("delivered", t2, m1, None, "pmid"),
   Notice("click", t2, None, e1, "delivery")}
=============================================================================
