------------------------------- MODULE MCWire -------------------------------
EXTENDS Framing

Says(l, f, t) == [label |-> l, func |-> f, task |-> t]
Yield(took, stack) == [took |-> took, stack |-> stack]
\* With room for three strings the stack, or the second switch, may fill the pool
\* and the next find it full; a func may come back as a task.
TwoResumes == {Says("a", "b", ""), Says("a", "d", "b")}
\* A step the 24 bits hold and one just past them; no stack, a stack of one
\* frame, and one of two frames one of which may not fit any more.
ThreeYields == {Yield(1, << >>), Yield(1, <<"c">>), Yield(2, <<"a", "c">>)}
=============================================================================
