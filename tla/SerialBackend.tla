--------------------------- MODULE SerialBackend ----------------------------
(***************************************************************************)
(* What the backend executor promises, without its queue, locks and        *)
(* threads: the hardware is open or closed, and the requests of the        *)
(* connections are accepted, then, in the order in which they were         *)
(* accepted, run one at a time and at most once, on open hardware, or      *)
(* dropped without having run. The hardware changes hands only between two *)
(* runs, except that a run that crashes closes it.                         *)
(***************************************************************************)
CONSTANT Requests

VARIABLES phase,   \* what has become of each request
          ahead,   \* the requests each accepted one has to wait for
          open     \* the hardware is open

Phases == {"new", "accepted", "running", "done", "dropped", "lost"}

Init ==
  /\ phase = [r \in Requests |-> "new"]
  /\ ahead = [r \in Requests |-> {}]
  /\ open = FALSE

Idle == \A r \in Requests : phase[r] # "running"

Move(r, from, to) ==
  /\ phase[r] = from
  /\ phase' = [phase EXCEPT ![r] = to]

(* A request waits for those accepted before it, and leaves the queue only *)
(* once each of them has.                                                  *)
Join(r) == ahead' = [ahead EXCEPT ![r] = {q \in Requests : phase[q] = "accepted"}]

Leave(r) ==
  /\ ahead[r] = {}
  /\ ahead' = [q \in Requests |-> ahead[q] \ {r}]

Accept(r) == Move(r, "new", "accepted") /\ Join(r) /\ UNCHANGED open
Run(r)    == Move(r, "accepted", "running") /\ Leave(r) /\ open /\ Idle /\ UNCHANGED open
Drop(r)   == Move(r, "accepted", "dropped") /\ Leave(r) /\ UNCHANGED open
Finish(r) == Move(r, "running", "done") /\ UNCHANGED <<ahead, open>>
Crash(r)  == Move(r, "running", "lost") /\ open' = FALSE /\ UNCHANGED ahead

Open  == Idle /\ open' = TRUE /\ UNCHANGED <<phase, ahead>>
Close == Idle /\ open' = FALSE /\ UNCHANGED <<phase, ahead>>

Next ==
  \/ Open \/ Close
  \/ \E r \in Requests : Accept(r) \/ Run(r) \/ Finish(r) \/ Drop(r) \/ Crash(r)

Spec == Init /\ [][Next]_<<phase, ahead, open>>
=============================================================================
