------------------------------ MODULE Delivery ------------------------------
(***************************************************************************)
(* What Casambi._send promises of an operation, whatever the link does: it *)
(* goes on the air at most once, only while the call that asked for it is  *)
(* open, and never while another one is being written.  Reconnections,     *)
(* handshakes and the lock are not seen here.                              *)
(***************************************************************************)
EXTENDS Naturals

CONSTANT Callers  \* the tasks that call the library

VARIABLES
  issued,   \* number of operations asked for
  open,     \* of each caller: the operation of its call, or 0
  radio,    \* the callers whose packet is being written
  aired     \* the operations that went on the air

vars == <<issued, open, radio, aired>>

Init == issued = 0 /\ open = [t \in Callers |-> 0] /\ radio = {} /\ aired = {}

\* A call is opened, or refused at once.
Begin(t) ==
  /\ issued' = issued + 1 /\ open[t] = 0
  /\ open' \in {open, [open EXCEPT ![t] = issued + 1]}
  /\ UNCHANGED <<radio, aired>>

Deliver(t) ==
  /\ radio = {} /\ radio' = {t}
  /\ open[t] \notin aired \cup {0} /\ aired' = aired \cup {open[t]}
  /\ UNCHANGED <<issued, open>>

\* The call returns or raises; nobody hears of its operation again.
End(t) ==
  /\ open[t] # 0
  /\ open' = [open EXCEPT ![t] = 0] /\ radio' = radio \ {t}
  /\ UNCHANGED <<issued, aired>>

Next == \E t \in Callers : Begin(t) \/ Deliver(t) \/ End(t)

Spec == Init /\ [][Next]_vars
=============================================================================
