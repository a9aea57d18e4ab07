--------------------------- MODULE ClientExchange ---------------------------
(***************************************************************************)
(* What the handler of a request promises its client, whatever it does     *)
(* behind it: one answer with one status line.  A stream begins with 200;  *)
(* once it has begun an error can only end it, the status stays.  The      *)
(* request is handed to the reverse proxy only while nothing is written.   *)
(***************************************************************************)
EXTENDS Integers

VARIABLES
  phase,  \* "waiting", "streaming", and then "finished", "handed" or "dropped"
  code    \* status line, 0 before it is written

Codes == {200, 307, 400, 404, 429, 500, 502, 503}

Init == phase = "waiting" /\ code = 0

\* An answer in one piece, an error or the forwarded failure of a model.
Reply ==
  /\ phase = "waiting"
  /\ phase' = "finished"
  /\ code' \in Codes

Begin ==
  /\ phase = "waiting"
  /\ phase' = "streaming"
  /\ code' = 200

\* The stream is complete, or an error is the last thing in it.
Close ==
  /\ phase = "streaming"
  /\ phase' = "finished"
  /\ UNCHANGED code

HandOver ==
  /\ phase = "waiting"
  /\ phase' = "handed"
  /\ UNCHANGED code

\* The server drops the connection of a stream in the middle of it.
Drop ==
  /\ phase = "streaming"
  /\ phase' = "dropped"
  /\ UNCHANGED code

Next == Reply \/ Begin \/ Close \/ HandOver \/ Drop

\* No request is left waiting, and no stream open, for ever.
Spec == Init /\ [][Next]_<<phase, code>> /\ WF_<<phase, code>>(Next)
=============================================================================
