----------------------------- MODULE MCOneWire ------------------------------
(* Instances of OneWire for TLC: one sensor, two temperatures above and    *)
(* below zero, the delays of cpe439 at 100 ticks a second.                 *)
EXTENDS OneWire

(* A scratchpad with its checksum.                                         *)
Scratchpad(lo, hi) ==
  LET s == <<lo, hi, 75, 70, 127, 255, 12, 16>>
  IN  Append(s, onewire_crc8(s))

MCRom == <<40, 97, 100, 0, 255, 21, 4, 129>>

(* +25.0625, -10.125 and the 85 degrees of a sensor that never converted.  *)
MCReadings == {Scratchpad(145, 1), Scratchpad(94, 255)}
MCPowerOn  == Scratchpad(80, 5)

(* No step reads the bytes of the UUID, only whether there is one.         *)
MCView ==
  <<drvVars, opVars, bitVars, readVars, have_uuid, prev_temp, hwVars, taskVars,
    low, senVars, late, faults>>
=============================================================================
