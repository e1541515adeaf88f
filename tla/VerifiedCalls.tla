---------------------------- MODULE VerifiedCalls ----------------------------
(***************************************************************************)
(* What a connection promises the tasks that share it (src/conn.rs, the    *)
(* comment on NodeConnection): their calls take turns.  A call waits, has  *)
(* the connection to itself for one exchange with the node, and returns;   *)
(* if it returns Ok from get_verified, with the bytes it asked for.        *)
(* A call that could not even be sent fails when its turn comes.           *)
(***************************************************************************)
CONSTANTS Callers, Addresses, None

VARIABLES
  calling,   \* the task is inside a call
  request,   \* its latest call: [op, addr, id]
  outcome,   \* how that call ended: [status, seq, content]
  exchange   \* the task whose exchange it is, or None

vars == <<calling, request, outcome, exchange>>

Init ==
  /\ calling = [c \in Callers |-> FALSE]
  /\ \A c \in Callers : outcome[c].status = "none"
  /\ exchange = None

Others(f, c) == \A d \in Callers \ {c} : f[d]' = f[d]

Call(c) ==
  /\ ~calling[c] /\ calling' = [calling EXCEPT ![c] = TRUE]
  /\ Others(request, c) /\ Others(outcome, c)
  /\ outcome'[c].status = "none"
  /\ UNCHANGED exchange

Turn(c) ==
  /\ calling[c] /\ exchange = None
  /\ exchange' = c
  /\ UNCHANGED <<calling, request, outcome>>

Result(c, status) ==
  /\ calling' = [calling EXCEPT ![c] = FALSE]
  /\ Others(outcome, c) /\ outcome'[c].status = status
  /\ exchange' = None
  /\ UNCHANGED request

ReturnOk(c) ==
  /\ calling[c] /\ exchange = c
  /\ Result(c, "ok")
  /\ request[c].op = "get_verified" => outcome'[c].content = request[c].addr

ReturnErr(c) == calling[c] /\ exchange \in {c, None} /\ Result(c, "err")

Next == \E c \in Callers : Call(c) \/ Turn(c) \/ ReturnOk(c) \/ ReturnErr(c)

Spec == Init /\ [][Next]_vars
=============================================================================
