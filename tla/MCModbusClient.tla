---------------------------- MODULE MCModbusClient ----------------------------
(***************************************************************************)
(* Configuration of ModbusClient: two devices; the first has two ranges of *)
(* registers that are sent (addresses 0 and 2), the second an input        *)
(* register, which is not.                                                 *)
(***************************************************************************)
EXTENDS ModbusClient

TwoDevices == {<<1, "holding", 0>>, <<1, "holding", 2>>, <<2, "input", 0>>}
ReadSequence == << {<<1, "holding", 0>>}, {<<1, "holding", 2>>}, {<<2, "input", 0>>} >>
=============================================================================
