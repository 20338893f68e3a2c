------------------------------ MODULE GbtWire ------------------------------
(***************************************************************************)
(* The bytes on the serial line between the program and the GBT FPGA.      *)
(*                                                                         *)
(* A request is two bytes, a request code and an address.  Only a read     *)
(* request is answered, by one byte: bit 7 is the signal's value, bits 6-0 *)
(* its address.  The values of the request codes are those of main.c.      *)
(***************************************************************************)
EXTENDS Integers

Byte == 0 .. 255
Bit  == 0 .. 1

REQ_IDLE    == 0      \* 0x00: no request outstanding, never on the wire
REQ_READ    == 221    \* 0xDD
REQ_WRITE_0 == 238    \* 0xEE
REQ_WRITE_1 == 255    \* 0xFF
REQ_REPEAT  == 253    \* 0xFD: the last read got no answer, never on the wire

\* The value carried by a received byte: (b & (1 << 7)) >> 7.
DataOf(b) == (b \div 128) % 2

\* Its address: b << 1 truncated to a Byte, then shifted back.
AdrOf(b) == ((2 * b) % 256) \div 2

\* External: the byte with which the FPGA answers a read of address a.
ReplyByte(d, a) == 128 * d + a

\* External: how a read or write request drives the FPGA.
WriteRequests == {REQ_WRITE_0, REQ_WRITE_1}
WrittenBit(req) == IF req = REQ_WRITE_1 THEN 1 ELSE 0
=============================================================================
