---------------------------- MODULE MCRecording ----------------------------
EXTENDS Recording

\* Three executions: a flush may be cut into up to three sub-segments, and
\* several flushes may each find something new; two pauses, so that a later
\* segment has its own.
SmallSession == [k \in Kinds |-> IF k = "execution" THEN 3 ELSE 2]
\* One of each is enough to tear a segment and write it again; two executions
\* leave something for the flush after that.
TinySession == [k \in Kinds |-> IF k = "execution" THEN 2 ELSE 1]
=============================================================================
