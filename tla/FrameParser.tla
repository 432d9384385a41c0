----------------------------- MODULE FrameParser -----------------------------
(***************************************************************************)
(* How a receiver of the daemon (cmd/l2discovery/main.go) reads a frame:   *)
(* Recvfrom copies it into a buffer that is made once, and the frame is    *)
(* parsed from the whole buffer, whatever its own length.                  *)
(*                                                                         *)
(* A frame is a sequence of cells, each a field of some bytes: the source  *)
(* address, any VLAN tags, the ethertype and, in a PTP message, the        *)
(* message type, the domain and the grandmaster.  L2Daemon takes a frame   *)
(* for what is found in it here.                                           *)
(***************************************************************************)
EXTENDS Integers, Sequences

CONSTANTS
    Size,           \* the number of cells of the buffer
    Frames,         \* the frames that may be received, of 2 to Size cells
    NIL             \* no announce

VlanTypes == {"8100", "88a8"}

\* The cells of an announce after the Ethernet header.
MinAnnouncePayload == 3

VARIABLES
    data,           \* the buffer
    aFrame,         \* what was parsed last: [MacSa, Type, announce]
    received        \* history: the frame it was parsed from

vars == <<data, aFrame, received>>

Zero == [cell \in 1 .. Size |-> "00"]

\* The length of the Ethernet header of a frame, or of the whole if it has no end.
ethernetHeaderLen(rawFrame) ==
    CHOOSE h \in 2 .. Len(rawFrame) :
        /\ \A cell \in 2 .. h - 1 : rawFrame[cell] \in VlanTypes
        /\ rawFrame[h] \notin VlanTypes \/ h = Len(rawFrame)

\* A mutant: any PTP message is taken for an announce.
parsePtpMessage(rawFrame) ==
    LET base == ethernetHeaderLen(rawFrame)
    IN  IF Len(rawFrame) < base + MinAnnouncePayload
          THEN NIL
          ELSE [domain |-> rawFrame[base + 2], gm |-> rawFrame[base + 3]]

parsePtpAnnounce(rawFrame) ==
    LET base == ethernetHeaderLen(rawFrame)
    IN  IF Len(rawFrame) < base + MinAnnouncePayload \/ rawFrame[base + 1] # "announce"
          THEN NIL
          ELSE [domain |-> rawFrame[base + 2], gm |-> rawFrame[base + 3]]

\* Frame.parse, and parsePtpAnnounce for a frame with the PTP ethertype.
parse(rawFrame) ==
    [MacSa |-> rawFrame[1], Type |-> rawFrame[2],
     announce |-> IF rawFrame[2] = "88f7" THEN parsePtpAnnounce(rawFrame) ELSE NIL]

Init == data = Zero /\ aFrame = parse(Zero) /\ received = Zero

RecvFrame(frame) ==
    /\ data' = [cell \in 1 .. Size |-> IF cell <= Len(frame) THEN frame[cell] ELSE data[cell]]
    /\ aFrame' = parse(data')
    /\ received' = frame

Next == \E frame \in Frames : RecvFrame(frame)

Spec == Init /\ [][Next]_vars

----------------------------------------------------------------------------
(***************************************************************************)
(* Properties.                                                             *)
(***************************************************************************)
(* A frame is read as it was sent, whatever the buffer held before: its    *)
(* address and type, its announce if it is an announce and untagged, and   *)
(* none if it is a shorter message that follows an announce.               *)
ReadAsSent ==
    /\ aFrame.MacSa = received[1] /\ aFrame.Type = received[2]
    /\ received[2] # "88f7" => aFrame.announce = NIL
    /\ received[2] = "88f7" /\ Len(received) >= 3 =>
          /\ received[3] # "announce" => aFrame.announce = NIL
          /\ received[3] = "announce" /\ Len(received) >= 5 =>
                aFrame.announce = [domain |-> received[4], gm |-> received[5]]

(* "Returns nil if the frame is not a PTP Announce message or is too       *)
(* short": an announce that is cut off is not read.                        *)
ShortIsNil == aFrame.announce # NIL => Len(received) >= 2 + MinAnnouncePayload
=============================================================================
