------------------------------ MODULE MCAxiBus ------------------------------
(***************************************************************************)
(* Instance of GolBus for TLC: the two marker addresses as devices, a line *)
(* of code, which may be data as well, and two more of data, so that the   *)
(* I-cache's line, the D-cache's and its victim may be equal and may all   *)
(* differ; lines of four beats as in the code; the markers of the Game of  *)
(* Life workload.  The serial port shares the address of the events.       *)
(***************************************************************************)
EXTENDS GolBus

Event(n)   == [addr |-> event, data |-> n]
Payload(n) == [addr |-> payload, data |-> n]

MCScript ==
  [harness |-> <<Event(1), Payload(60), Event(2), Event(3), Payload(70), Event(4),
                 Payload(80), Event(5), Event(6)>>,
   sim     |-> <<Event(72), Payload(0), Event(105), Event(10)>>]
=============================================================================
