---- MODULE MCVideoBytes ----
(* Two independent machines in one run: each behaviour moves one of them, the other rests. *)
EXTENDS FrameConvert, NalUnits

VARIABLE subject

vars == <<subject, frameVars, streamVars>>

Resting == [fmt |-> "I420", w |-> 2, h |-> 2]

Init ==
    /\ FrameInit /\ StreamInit
    /\ subject \in {"frame", "stream"}
    /\ subject = "stream" => camera = Resting

Next ==
    \/ subject = "frame" /\ FrameNext /\ UNCHANGED <<subject, streamVars>>
    \/ subject = "stream" /\ StreamNext /\ UNCHANGED <<subject, frameVars>>

Spec == Init /\ [][Next]_vars
====
