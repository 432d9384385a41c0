----------------------------- MODULE DaemonStart -----------------------------
(***************************************************************************)
(* The program of a daemon from its start (cmd/l2discovery/main.go): the   *)
(* inventory of its node and then, if that is possible, the receiver of an *)
(* interface, which reads frames through its buffer for good.              *)
(***************************************************************************)
EXTENDS Inventory

CONSTANTS
    Size, Frames    \* the buffer and the frames, see FrameParser

ASSUME FramesAssumption ==
    /\ Size \in Nat \ {0, 1}
    /\ \A frame \in Frames : IsSequence(frame) /\ Len(frame) \in 2 .. Size

VARIABLES
    data, aFrame, received      \* the receiver, see FrameParser

receiverVars == <<data, aFrame, received>>

Receiver == INSTANCE FrameParser

Start == Init /\ Receiver!Init

StartNext ==
    \/ Next /\ UNCHANGED receiverVars
    \/ pc = "run" /\ macs # <<>> /\ Receiver!Next /\ UNCHANGED vars

StartSpec == Start /\ [][StartNext]_<<vars, receiverVars>>

----------------------------------------------------------------------------
(* A frame is read as it was sent, and an announce that is cut off is not  *)
(* read: the properties of FrameParser.                                    *)
ReadAsSent == Receiver!ReadAsSent
ShortIsNil == Receiver!ShortIsNil
=============================================================================
