--------------------------- MODULE SequencePromise ---------------------------
(***************************************************************************)
(* What a test run sequence promises: its configs are run one after the    *)
(* other, each once, the next one only when the run before has completed,  *)
(* and none once the sequence has stopped.  It stops for an outcome that   *)
(* its last run really had.                                                *)
(***************************************************************************)
EXTENDS Integers, Sequences

CONSTANT N  \* the number of configs of the sequence

VARIABLES
  results,   \* results[i]: the outcomes the run of config i has had so far
  finished,  \* the number of runs that the sequence has seen end
  status     \* the state of the sequence

pvars == <<results, finished, status>>

PInit == results = <<>> /\ finished = 0 /\ status = "RUNNING"

\* The next config is run, when nothing is running.
Start ==
  /\ status = "RUNNING"
  /\ Len(results) = finished
  /\ finished < N
  /\ results' = Append(results, {})
  /\ UNCHANGED <<finished, status>>

\* A run ends, or the outcome it had is replaced by a failure.
Outcome(i, outcome) ==
  /\ outcome = "COMPLETED" => results[i] = {}
  /\ results' = [results EXCEPT ![i] = @ \cup {outcome}]
  /\ UNCHANGED <<finished, status>>

\* The sequence takes note of an outcome of the run in progress; a failure, or
\* the end of the last run, ends the sequence.
Finish(outcome) ==
  /\ status = "RUNNING"
  /\ Len(results) = finished + 1
  /\ outcome \in results[finished + 1]
  /\ finished' = finished + 1
  /\ status' = IF outcome # "COMPLETED" \/ finished' = N THEN outcome
                                                        ELSE "RUNNING"
  /\ UNCHANGED results

PNext ==
  \/ Start
  \/ \E outcome \in {"COMPLETED", "CANCELED", "ERROR"} :
       \/ Finish(outcome)
       \/ \E i \in 1 .. Len(results) : Outcome(i, outcome)

Promise == PInit /\ [][PNext]_pvars
=============================================================================
