------------------------- MODULE MC_PtpTransaction -------------------------
(* Instantiation of PtpTransaction for TLC: one application opcode, a    *)
(* two-byte PTP_Buffer so that three payload bytes already need a second *)
(* chunk, and the 16-bit width of the firmware's byte counters.          *)
EXTENDS PtpTransaction

MC_AppOps == {"Capture"}
MC_GetDeviceInfo == "GetDeviceInfo"

\* Header lengths: short (11), empty (12), one chunk (14), three chunks (17).
MC_DataLengths == {11, 12, 14, 17}
\* A DeviceInfo dataset that fits the buffer.
MC_DeviceInfoFits == {14}
\* A DeviceInfo dataset one byte longer than the buffer.
MC_DeviceInfoLong == {15}
\* A DataLength of 64 KiB + 15 bytes, whose payload no longer fits uint16.
MC_DataLengthsHuge == {65536 + 15}
=============================================================================
