---------------------------- MODULE FrameMailbox ----------------------------
(***************************************************************************)
(* What the path from camera to encoder promises: a mailbox that holds at   *)
(* most one frame.  Frames are numbered in order of arrival.  A frame that  *)
(* arrives is ignored, or delivered; a delivered one that the scaler writes *)
(* replaces the frame waiting, one that it does not write leaves that frame *)
(* alone, and puts a blank one (0) into an empty mailbox.  Taking empties   *)
(* the mailbox.                                                             *)
(***************************************************************************)
EXTENDS Integers

CONSTANT MaxFrames

VARIABLES
    box,         \* the frame waiting, or Empty
    pending,     \* the frame being delivered, Blank for one that is not written, or Empty
    offered,     \* number of frames that have arrived
    newestTaken  \* the newest frame taken

vars == <<box, pending, offered, newestTaken>>

Empty == -1
Blank == 0

Init == box = Empty /\ pending = Empty /\ offered = 0 /\ newestTaken = 0

Arrive ==
    /\ offered < MaxFrames
    /\ offered' = offered + 1
    /\ UNCHANGED <<box, newestTaken>>

Ignore == Arrive /\ UNCHANGED pending

Offer ==
    /\ pending = Empty
    /\ Arrive
    /\ pending' \in {offered', Blank}

Store ==
    /\ pending # Empty
    /\ pending' = Empty
    /\ box' = IF pending # Blank THEN pending ELSE IF box = Empty THEN Blank ELSE box
    /\ UNCHANGED <<offered, newestTaken>>

Take ==
    /\ box # Empty
    /\ box' = Empty
    /\ \/ box = Blank /\ UNCHANGED newestTaken
       \/ box > newestTaken /\ newestTaken' = box
    /\ UNCHANGED <<pending, offered>>

Next == Ignore \/ Offer \/ Store \/ Take

Spec == Init /\ [][Next]_vars
=============================================================================
