----------------------------- MODULE DurableLog -----------------------------
(***************************************************************************)
(* What a recording promises, with no file in sight: entries of a few      *)
(* kinds (executions, GC pauses) are appended in order; a flush            *)
(* acknowledges everything appended so far; the recorder may go down at    *)
(* any time; what is then read back is, of each kind, a prefix holding at  *)
(* least all that was acknowledged, each entry once and in order.          *)
(***************************************************************************)
EXTENDS Naturals

CONSTANT Kinds   \* kinds of entries

VARIABLES
  appended,      \* per kind, entries appended
  acked,         \* per kind, entries a successful flush has covered
  up,            \* the recorder is running
  reading,       \* "none" before the log is read back, then "intact"
  recovered      \* per kind, the length of the prefix read back

vars == <<appended, acked, up, reading, recovered>>

Counts == [Kinds -> Nat]
AtMost(f, g) == \A k \in Kinds : f[k] <= g[k]

Init ==
  /\ appended = [k \in Kinds |-> 0]
  /\ acked = [k \in Kinds |-> 0]
  /\ up = TRUE
  /\ reading = "none"
  /\ recovered = [k \in Kinds |-> 0]

Append ==
  /\ up
  /\ \E k \in Kinds : appended' = [appended EXCEPT ![k] = @ + 1]
  /\ UNCHANGED <<acked, up, reading, recovered>>

\* A flush returns Ok; the last one also ends the recording.
Ack ==
  /\ up
  /\ acked' = appended
  /\ up' \in BOOLEAN
  /\ UNCHANGED <<appended, reading, recovered>>

\* The process dies, or ends without a last flush.
GoDown ==
  /\ up
  /\ up' = FALSE
  /\ UNCHANGED <<appended, acked, reading, recovered>>

\* The recording is opened.
Recover ==
  /\ ~up
  /\ reading = "none"
  /\ reading' = "intact"
  /\ recovered' \in Counts
  /\ AtMost(acked, recovered') /\ AtMost(recovered', appended)
  /\ UNCHANGED <<appended, acked, up>>

Next == Append \/ Ack \/ GoDown \/ Recover

Spec == Init /\ [][Next]_vars
=============================================================================
