------------------------------ MODULE Requests -------------------------------
(***************************************************************************)
(* What read_data() and write_data() promise to the holder of the future   *)
(* they return, without the handler list, the job thread, the reader       *)
(* thread and the remote: a future becomes ready at most once, a read      *)
(* future with the bytes of the addresses that were asked for and nothing  *)
(* else.  Wiimote is shown to implement this specification.                *)
(***************************************************************************)
EXTENDS Naturals, Sequences

CONSTANTS
  Asks,    \* the requests that are made: records [kind, addr, len]
  MayFail  \* addresses that the remote may refuse to read

VARIABLE futures  \* one record per request, in the order they were made

Kinds == {"read", "write"}

\* The n bytes of memory at address a.  A byte stands for its own address.
Bytes(a, n) == [i \in 1 .. n |-> a + (i - 1)]

\* What get() may return: the bytes, none after a read error, or the error code
\* of a write.
Answers(ask) ==
  IF ask.kind = "read"
  THEN {Bytes(ask.addr, ask.len)} \cup {v \in {<<>>} : ask.addr \in MayFail}
  ELSE {"ok", "error"}

Pending(ask) == [ask |-> ask, state |-> "pending", value |-> <<>>]

Init == futures = <<>>

Ask == \E ask \in Asks : futures' = Append(futures, Pending(ask))

Answer ==
  \E f \in DOMAIN futures :
    /\ futures[f].state = "pending"
    /\ \E v \in Answers(futures[f].ask) :
         futures' = [futures EXCEPT ![f].state = "ready", ![f].value = v]

Next == Ask \/ Answer

Spec == Init /\ [][Next]_futures

=============================================================================
