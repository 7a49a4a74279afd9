--------------------------- MODULE PtpTransaction ---------------------------
(***************************************************************************)
(* The PTP transaction engine of src/src/PTP_Driver.c: PTP_Transaction,    *)
(* PTP_FetchData, PTP_GetEvent, PTP_Task, PTP_GetDeviceInfo and the USB    *)
(* host event handlers.                                                    *)
(*                                                                         *)
(* The firmware has one main thread and the USB interrupt.  The main       *)
(* thread runs one call at a time; a call is split into its pipe           *)
(* operations (send command, send/receive block header, read data, receive *)
(* response), because the interrupt handlers for unplug and host error can *)
(* run between any two of them.  The camera's answer to every pipe         *)
(* operation is chosen nondeterministically from small sets.               *)
(*                                                                         *)
(* Byte counts are kept as numbers: PTP_Bytes_Received and                 *)
(* PTP_Bytes_Remaining are uint16_t, so they are taken modulo 2^Width.     *)
(***************************************************************************)
EXTENDS Naturals, FiniteSets

CONSTANTS
    BufferSize,        \* PTP_BUFFER_SIZE
    Width,             \* bit width of PTP_Bytes_Received / _Remaining (16)
    DataLengths,       \* DataLength values of data headers the camera sends
    DeviceInfoLengths, \* DataLength values of its DeviceInfo data header
    AppOps,            \* opcodes the application (PTP.cpp) issues
    GetDeviceInfo,     \* PIMA_OPERATION_GETDEVICEINFO
    CameraResponses,   \* response codes the camera may answer with
    AllowIgnore,       \* may the application set PTP_IgnoreErrorsForNextTransaction
    MaxCalls,          \* bound on calls made by the main thread
    MaxEnv             \* bound on plug, unplug and host-error events

ASSUME BufferSize \in Nat \ {0}
ASSUME Width \in Nat \ {0}
ASSUME DataLengths \subseteq Nat /\ DeviceInfoLengths \subseteq Nat
ASSUME GetDeviceInfo \notin AppOps
ASSUME CameraResponses \subseteq {"OK", "Busy", "Fail"} /\ "OK" \in CameraResponses
ASSUME AllowIgnore \in BOOLEAN
ASSUME MaxCalls \in Nat /\ MaxEnv \in Nat

\* PIMA_COMMAND_SIZE(0): the 12-byte container header.
HeaderSize == 12

\* Response codes (0x2001 OK, 0x2019 Busy, anything else is Fail).
RespCodes == {"OK", "Busy", "Fail"}
Ops == AppOps \cup {GetDeviceInfo}
\* Values PIMA_Block.Code can hold: responses, opcodes of data blocks, events.
Codes == RespCodes \cup Ops \cup {"Event"}
NoError == "none"
Modes == {"none", "send", "recv"}
Returns == {"OK", "ERROR", "DATA_REMAINING"}
Callers == {"app", "task"}

VARIABLES
    host,        \* USB_HostState: unattached, attached, addressed, configured, disabled
    configured,  \* PTP_Driver's `configured == HOST_STATE_Configured`
    ready,       \* PTP_Ready
    connected,   \* PTP_Connected
    ptpError,    \* PTP_Error: none, the failing opcode, or "host" (value 1)
    respCode,    \* PTP_Response_Code
    blockCode,   \* PIMA_Block.Code, the one container shared by all phases
    ignoreNext,  \* PTP_IgnoreErrorsForNextTransaction
    received,    \* PTP_Bytes_Received
    remaining,   \* PTP_Bytes_Remaining
    pc,          \* where the main thread is inside the current call
    call,        \* the current call: caller, opcode, mode
    err,         \* the local `err` of PTP_Transaction
    result,      \* what the last finished call returned
    xfer,        \* history: caller, payload declared, bytes delivered, this transfer
    txFail,      \* history: a pipe operation of the current call failed
    badAnswer,   \* history: the camera answered Fail or a short header, this call
    ignoreSeen,  \* history: a call has begun since the ignore flag was set
    epoch,       \* history: number of attaches so far
    xferEpoch,   \* history: the attach during which the pending transfer began
    calls,       \* bound counter
    env          \* bound counter

vars == <<host, configured, ready, connected, ptpError, respCode,
          blockCode, ignoreNext, received, remaining, pc, call, err, result,
          xfer, txFail, badAnswer, ignoreSeen, epoch, xferEpoch, calls, env>>

Word(n) == n % (2 ^ Width)
MinOf(a, b) == IF a <= b THEN a ELSE b

(* The outcomes of one SI_Host_* pipe operation.  It fails at once      *)
(* unless USB_HostState is Configured (line 383), and while Configured   *)
(* it fails when the block header or the data cannot be read (lines     *)
(* 391-397: a timeout, stall or short packet).  Failures while           *)
(* Configured count against MaxEnv.                                      *)
PipeResults ==
    IF host # "configured" THEN {FALSE}
    ELSE IF env < MaxEnv THEN BOOLEAN ELSE {TRUE}

\* The bound counter after a pipe operation with outcome ok.
PipeFault(ok) == env' = IF ~ok /\ host = "configured" THEN env + 1 ELSE env
HostStates == {"unattached", "attached", "addressed", "configured", "disabled"}



(* Line 183-196: the header is rejected when its code is neither OK nor  *)
(* the opcode, or it is shorter than a container header.                 *)
HeaderBad(c, l, op) == c \notin {"OK", op} \/ l < HeaderSize

(* Lines 201-215: the first chunk of a payload of n bytes, and what is   *)
(* left for PTP_FetchData.                                                *)
ChunkSize_Unclamped(n) == n
ChunkSize(n) == MinOf(n, BufferSize)
ChunkRemaining_NoSubtract(n) == IF n > BufferSize THEN n ELSE 0
ChunkRemaining(n) == IF n > BufferSize THEN n - BufferSize ELSE 0

(* Lines 225-228: the response phase fails when SI_Host_ReceiveResponse- *)
(* Code fails, i.e. the pipe failed or the code read is not OK.          *)
ResponseError_CodeOnly(pipeOk, c) == c # "OK"
ResponseError(pipeOk, c) == ~pipeOk \/ c # "OK"

-----------------------------------------------------------------------------
(* Returning from the current call.  PTP_Task's call is GetDeviceInfo;  *)
(* when it returns OK the dataset is parsed before PTP_Ready is set.    *)
Return(ret, kind) ==
    /\ pc' = IF call.caller = "task" /\ ret = "OK" THEN "parse" ELSE "idle"
    /\ result' = [caller |-> call.caller, op |-> call.op, ret |-> ret, kind |-> kind]
    /\ ready' = ready

(* Lines 233-246: the error exit of PTP_Transaction latches the opcode; *)
(* rc is PTP_Response_Code as the call left it.                         *)
LatchError(rc) ==
    /\ ignoreNext' = FALSE
    /\ ptpError' = call.op
    /\ respCode' = IF rc = "OK" THEN "TransportErr" ELSE rc
    /\ pc' = "idle"
    /\ result' = [caller |-> call.caller, op |-> call.op, ret |-> "ERROR", kind |-> "other"]
    /\ ready' = FALSE

(* PTP_Transaction entry (lines 151-163): a latched error fails at once; *)
(* unread chunk data turns the call into PTP_FetchData(0); otherwise the *)
(* command is sent, which succeeds when pipeOk.  Only the application's  *)
(* calls count against MaxCalls: PTP_Task calls once per enumeration.    *)
Begin(caller, op, mode, pipeOk) ==
    /\ pc = "idle"
    /\ caller = "task" \/ calls < MaxCalls
    /\ calls' = IF caller = "app" THEN calls + 1 ELSE calls
    /\ call' = [caller |-> caller, op |-> op, mode |-> mode]
    /\ badAnswer' = FALSE
    /\ ignoreSeen' = ignoreNext
    /\ \/ /\ ptpError # NoError
          /\ txFail' = FALSE
          /\ pc' = "idle"
          /\ result' = [caller |-> caller, op |-> op, ret |-> "ERROR", kind |-> "other"]
          /\ UNCHANGED <<err, ready>>
       \/ /\ ptpError = NoError /\ remaining > 0
          /\ txFail' = FALSE
          /\ pc' = "fetchRead"
          /\ UNCHANGED <<err, result, ready>>
       \/ /\ ptpError = NoError /\ remaining = 0
          /\ err' = ~pipeOk
          /\ txFail' = ~pipeOk
          /\ pc' = IF ~pipeOk THEN "finish"
                   ELSE CASE mode = "send" -> "sendData"
                          [] mode = "recv" -> "recvHeader"
                          [] OTHER         -> "response"
          /\ UNCHANGED <<result, ready>>

\* Lines 165-177: the data phase of a send; PIMA_Block is rebuilt for it.
SendDataPhase ==
    /\ pc = "sendData"
    /\ blockCode' = call.op
    /\ \E ok \in PipeResults :
         /\ err' = ~ok
         /\ txFail' = ~ok
         /\ pc' = IF ok THEN "response" ELSE "finish"
         /\ PipeFault(ok)
    /\ UNCHANGED <<host, configured, ready, connected, ptpError, respCode,
                   ignoreNext, received, remaining, call, result, xfer,
                   badAnswer, epoch, xferEpoch, calls, ignoreSeen>>

(* Lines 178-199: the data header of a receive.  The camera sends a data *)
(* block of some DataLength, or a response block in its place.  A failed *)
(* read leaves PIMA_Block.Code as it was and DataLength 0.               *)
ReceiveDataHeader ==
    /\ pc = "recvHeader"
    /\ \E pipeOk \in PipeResults, code \in {call.op} \cup CameraResponses,
          len \in IF call.op = GetDeviceInfo THEN DeviceInfoLengths ELSE DataLengths :
         LET c    == IF pipeOk THEN code ELSE blockCode
             l    == IF pipeOk /\ code = call.op THEN len
                     ELSE IF pipeOk THEN HeaderSize ELSE 0
             bad  == HeaderBad(c, l, call.op)
             n    == Word(l - HeaderSize)
         IN /\ blockCode' = c
            /\ txFail' = ~pipeOk
            /\ PipeFault(pipeOk)
            /\ badAnswer' = (pipeOk /\ (code = "Fail" \/ l < HeaderSize))
            /\ IF bad
                 THEN /\ err' = TRUE
                      /\ respCode' = IF c \notin {"OK", call.op} THEN c ELSE "BadLength"
                      /\ received' = 0
                      /\ pc' = "finish"
                      /\ UNCHANGED <<remaining, xfer, xferEpoch, ignoreSeen>>
                 ELSE /\ err' = FALSE
                      /\ received' = ChunkSize(n)
                      /\ remaining' = ChunkRemaining(n)
                      /\ xfer' = [caller |-> call.caller, declared |-> l - HeaderSize,
                                  delivered |-> 0]
                      /\ xferEpoch' = epoch
                      /\ pc' = IF n > 0 THEN "readData" ELSE "response"
                      /\ UNCHANGED respCode
    /\ UNCHANGED <<host, configured, ready, connected, ptpError, ignoreNext,
                   call, result, epoch, calls, ignoreSeen>>

(* Lines 201-219: SI_Host_ReadData of the first (or only) chunk; a      *)
(* chunked transfer returns DATA_REMAINING with the rest left unread.   *)
ReadDataChunk ==
    /\ pc = "readData"
    /\ \E ok \in PipeResults :
         /\ txFail' = ~ok
         /\ PipeFault(ok)
         /\ xfer' = IF ok THEN [xfer EXCEPT !.delivered = @ + received] ELSE xfer
         /\ IF ok /\ remaining > 0
              THEN /\ ignoreNext' = FALSE
                   /\ Return("DATA_REMAINING", "other")
                   /\ UNCHANGED err
              ELSE /\ err' = ~ok
                   /\ pc' = IF ok THEN "response" ELSE "finish"
                   /\ UNCHANGED <<ignoreNext, result, ready>>
    /\ UNCHANGED <<host, configured, connected, ptpError, respCode, blockCode,
                   received, remaining, call, badAnswer, epoch, xferEpoch,
                   calls, ignoreSeen>>

(* Lines 221-248 with SI_Host_ReceiveResponseCode (lines 379-410): the   *)
(* response is read into PIMA_Block; on a failed read the code tested    *)
(* against Busy is whatever PIMA_Block held before.                      *)
ResponsePhase ==
    /\ pc = "response"
    /\ \E pipeOk \in PipeResults, r \in CameraResponses :
         LET c    == IF pipeOk THEN r ELSE blockCode
             e    == ResponseError(pipeOk, c) /\ ~(c = "Busy" \/ ignoreNext)
         IN /\ blockCode' = c
            /\ txFail' = ~pipeOk
            /\ PipeFault(pipeOk)
            /\ badAnswer' = (pipeOk /\ r = "Fail")
            /\ IF e
                 THEN /\ LatchError(c)
                      /\ err' = TRUE
                 ELSE /\ respCode' = c
                      /\ ignoreNext' = FALSE
                      /\ err' = FALSE
                      /\ Return("OK", IF call.mode = "recv" THEN "recv" ELSE "other")
                      /\ UNCHANGED ptpError
    /\ UNCHANGED <<host, configured, connected, received, remaining, call, xfer,
                   epoch, xferEpoch, calls, ignoreSeen>>

\* Lines 233-246 reached with err already set by an earlier phase.
FinishError ==
    /\ pc = "finish"
    /\ LatchError(respCode)
    /\ UNCHANGED <<host, configured, connected, blockCode, received, remaining,
                   call, err, xfer, txFail, badAnswer, epoch, xferEpoch, calls, env, ignoreSeen>>

(* PTP_FetchData(0), lines 251-268: the next chunk is read.  The count  *)
(* is taken off PTP_Bytes_Remaining before the read; a failed read      *)
(* returns ERROR without latching PTP_Error.                            *)
FetchReadChunk ==
    /\ pc = "fetchRead"
    /\ \E pipeOk \in PipeResults :
       LET n == MinOf(remaining, BufferSize) IN
         /\ received' = n
         /\ remaining' = remaining - n
         /\ txFail' = ~pipeOk
         /\ PipeFault(pipeOk)
         /\ IF ~pipeOk
              THEN /\ Return("ERROR", "other") /\ UNCHANGED xfer
              ELSE /\ xfer' = [xfer EXCEPT !.delivered = @ + n]
                   /\ IF remaining - n = 0
                        THEN pc' = "fetchResp" /\ UNCHANGED <<result, ready, ignoreSeen>>
                        ELSE Return("DATA_REMAINING", "other")
    /\ UNCHANGED <<host, configured, connected, ptpError, respCode, blockCode,
                   ignoreNext, call, err, badAnswer, epoch, xferEpoch, calls, ignoreSeen>>

(* Lines 270-283: the last chunk is followed by SI_Host_ReceiveResponse, *)
(* which reads into its own container and accepts only 0x2001; on error  *)
(* the device is deconfigured (USB_Host_SetDeviceConfiguration(0)).      *)
FetchResponse ==
    /\ pc = "fetchResp"
    /\ \E pipeOk \in PipeResults, r \in CameraResponses :
         LET ok == pipeOk /\ r = "OK" IN
         /\ txFail' = ~pipeOk
         /\ PipeFault(pipeOk)
         /\ badAnswer' = (pipeOk /\ r = "Fail")
         /\ host' = IF ~ok /\ host = "configured" THEN "addressed" ELSE host
         /\ IF ok THEN Return("OK", "recv") ELSE Return("ERROR", "other")
    /\ UNCHANGED <<configured, connected, ptpError, respCode, blockCode,
                   ignoreNext, received, remaining, call, err, xfer, epoch,
                   xferEpoch, calls, ignoreSeen>>

\* PTP_FetchData called directly by the application; line 287: nothing left.
PTP_FetchData ==
    /\ pc = "idle"
    /\ calls < MaxCalls
    /\ calls' = calls + 1
    /\ call' = [caller |-> "app", op |-> "fetch", mode |-> "recv"]
    /\ txFail' = FALSE
    /\ badAnswer' = FALSE
    /\ IF remaining > 0
         THEN pc' = "fetchRead" /\ UNCHANGED result
         ELSE /\ pc' = "idle"
              /\ result' = [caller |-> "app", op |-> "fetch", ret |-> "ERROR", kind |-> "other"]
    /\ UNCHANGED <<host, configured, ready, connected, ptpError, respCode,
                   blockCode, ignoreNext, received, remaining, err, xfer, epoch,
                   xferEpoch, env, ignoreSeen>>

(* PTP_GetEvent, lines 293-376: a non-blocking read of the event pipe   *)
(* that, when an event is waiting, overwrites the shared PIMA_Block.     *)
PTP_GetEvent ==
    /\ pc = "idle"
    /\ host = "configured"
    /\ blockCode' = "Event"
    /\ UNCHANGED <<host, configured, ready, connected, ptpError, respCode,
                   ignoreNext, received, remaining, pc, call, err, result, xfer,
                   txFail, badAnswer, epoch, xferEpoch, calls, env, ignoreSeen>>

(* PTP_OpenSession, lines 412-423: when SI_Host_OpenSession fails the    *)
(* device is deconfigured (USB_Host_SetDeviceConfiguration(0)), so the   *)
(* host drops back to Addressed and the pipes stop working.              *)
PTP_OpenSession(sessionOk) == host' = IF sessionOk THEN host ELSE "addressed"

(* PTP_Task, lines 94-111: on the first poll after the host reaches     *)
(* Configured, open a session (PTP_OpenSession, lines 412-423, which     *)
(* deconfigures the device when it fails) and call PTP_GetDeviceInfo     *)
(* (line 441).  Otherwise remember the host state and clear PTP_Ready.   *)
PTP_Task ==
    /\ pc = "idle"
    /\ \/ /\ host = "configured" /\ ~configured
          /\ configured' = TRUE
          /\ \E sessionOk \in BOOLEAN, ok \in PipeResults :
               /\ PTP_OpenSession(sessionOk)
               /\ Begin("task", GetDeviceInfo, "recv", sessionOk /\ ok)
               /\ PipeFault(ok)
          /\ UNCHANGED <<connected, ptpError, respCode, blockCode, ignoreNext,
                         received, remaining, xfer, epoch, xferEpoch>>
       \/ /\ host = "configured" /\ configured
          /\ UNCHANGED vars
       \/ /\ host # "configured"
          /\ configured' = FALSE
          /\ ready' = FALSE
          /\ UNCHANGED <<host, connected, ptpError, respCode, blockCode,
                         ignoreNext, received, remaining, pc, call, err, result,
                         xfer, txFail, badAnswer, epoch, xferEpoch, calls, env, ignoreSeen>>

ParseDeviceInfo_NoReady ==
    /\ pc = "parse"
    /\ pc' = "idle"
    /\ UNCHANGED <<host, configured, ready, connected, ptpError, respCode, blockCode,
                   ignoreNext, received, remaining, call, err, result, xfer,
                   txFail, badAnswer, epoch, xferEpoch, calls, env, ignoreSeen>>

(* PTP_GetDeviceInfo, lines 442-510, after its transaction returned OK: *)
(* the dataset in PTP_Buffer is parsed, then line 103 sets PTP_Ready.   *)
ParseDeviceInfo ==
    /\ pc = "parse"
    /\ pc' = "idle"
    /\ ready' = TRUE
    /\ UNCHANGED <<host, configured, connected, ptpError, respCode, blockCode,
                   ignoreNext, received, remaining, call, err, result, xfer,
                   txFail, badAnswer, epoch, xferEpoch, calls, env, ignoreSeen>>

\* A call from the application (PTP.cpp) in one of the three modes.
AppTransaction ==
    /\ \E op \in AppOps, mode \in Modes, ok \in PipeResults :
         Begin("app", op, mode, ok) /\ PipeFault(ok)
    /\ UNCHANGED <<host, configured, connected, ptpError, respCode, blockCode,
                   ignoreNext, received, remaining, xfer, epoch, xferEpoch>>

\* The application asks the next transaction to ignore errors.
SetIgnoreErrors ==
    /\ AllowIgnore /\ pc = "idle" /\ ~ignoreNext
    /\ ignoreNext' = TRUE
    /\ ignoreSeen' = FALSE
    /\ UNCHANGED <<host, configured, ready, connected, ptpError, respCode,
                   blockCode, received, remaining, pc, call, err, result, xfer,
                   txFail, badAnswer, epoch, xferEpoch, calls, env>>

-----------------------------------------------------------------------------
(* USB host events.  Attach and enumeration are raised by USB_USBTask,  *)
(* which the main loop calls between calls and PTP_Transaction calls   *)
(* before its response phase (line 223); unplug and host error are      *)
(* raised by the USB interrupt, between any two pipe operations.        *)

\* EVENT_USB_Host_DeviceAttached, lines 516-524.
EVENT_USB_Host_DeviceAttached ==
    /\ pc \in {"idle", "response"} /\ host = "unattached" /\ env < MaxEnv
    /\ host' = "attached"
    /\ ptpError' = NoError
    /\ connected' = TRUE
    /\ remaining' = 0
    /\ epoch' = epoch + 1
    /\ env' = env + 1
    /\ UNCHANGED <<configured, ready, respCode, blockCode, ignoreNext, received,
                   pc, call, err, result, xfer, txFail, badAnswer, xferEpoch, calls, ignoreSeen>>

(* EVENT_USB_Host_DeviceEnumerationComplete, lines 541-574: the device  *)
(* is configured unless one of the three set-up requests fails.          *)
EVENT_USB_Host_DeviceEnumerationComplete ==
    /\ pc = "idle" /\ host = "attached"
    /\ \E ok \in BOOLEAN : host' = IF ok THEN "configured" ELSE "addressed"
    /\ UNCHANGED <<configured, ready, connected, ptpError, respCode, blockCode,
                   ignoreNext, received, remaining, pc, call, err, result, xfer,
                   txFail, badAnswer, epoch, xferEpoch, calls, env, ignoreSeen>>

\* EVENT_USB_Host_DeviceUnattached, lines 529-536: PTP_Bytes_Remaining is kept.
EVENT_USB_Host_DeviceUnattached ==
    /\ host \in {"attached", "addressed", "configured"} /\ env < MaxEnv
    /\ host' = "unattached"
    /\ ptpError' = NoError
    /\ connected' = FALSE
    /\ env' = env + 1
    /\ UNCHANGED <<configured, ready, respCode, blockCode, ignoreNext, received,
                   remaining, pc, call, err, result, xfer, txFail, badAnswer,
                   epoch, xferEpoch, calls, ignoreSeen>>

(* PTP_Disable, lines 132-147: PTP_CloseSession (lines 425-436) leaves  *)
(* the device deconfigured whether or not the close succeeds, then USB   *)
(* is detached and disabled and configured, PTP_Ready, PTP_Connected and *)
(* PTP_Bytes_Remaining are cleared.  PTP_Error is left as it was.        *)
PTP_Disable ==
    /\ host' = "disabled"
    /\ configured' = FALSE
    /\ ready' = FALSE
    /\ connected' = FALSE
    /\ remaining' = 0

(* EVENT_USB_Host_HostError, lines 577-587: PTP_Disable shuts USB down,  *)
(* then PTP_Error = 1.                                                    *)
EVENT_USB_Host_HostError ==
    /\ host # "disabled" /\ env < MaxEnv
    /\ PTP_Disable
    /\ ptpError' = "host"
    /\ env' = env + 1
    /\ UNCHANGED <<respCode, blockCode, ignoreNext, received, pc, call, err,
                   result, xfer, txFail, badAnswer, epoch, xferEpoch, calls, ignoreSeen>>

\* PTP_Enable, lines 114-130, called by the application after a disable.
PTP_Enable ==
    /\ pc = "idle" /\ host = "disabled"
    /\ host' = "unattached"
    /\ configured' = FALSE
    /\ remaining' = 0
    /\ ready' = FALSE
    /\ ptpError' = NoError
    /\ UNCHANGED <<connected, respCode, blockCode, ignoreNext, received, pc,
                   call, err, result, xfer, txFail, badAnswer, epoch, xferEpoch,
                   calls, env, ignoreSeen>>

-----------------------------------------------------------------------------
Init ==
    /\ host = "unattached"
    /\ configured = FALSE
    /\ ready = FALSE
    /\ connected = FALSE
    /\ ptpError = NoError
    /\ respCode = "OK"
    /\ blockCode = "OK"
    /\ ignoreNext = FALSE
    /\ received = 0
    /\ remaining = 0
    /\ pc = "idle"
    /\ call = [caller |-> "app", op |-> "fetch", mode |-> "none"]
    /\ err = FALSE
    /\ result = [caller |-> "app", op |-> "fetch", ret |-> "OK", kind |-> "other"]
    /\ xfer = [caller |-> "app", declared |-> 0, delivered |-> 0]
    /\ txFail = FALSE
    /\ badAnswer = FALSE
    /\ ignoreSeen = FALSE
    /\ epoch = 0
    /\ xferEpoch = 0
    /\ calls = 0
    /\ env = 0

Next ==
    \/ PTP_Task
    \/ ParseDeviceInfo
    \/ AppTransaction
    \/ PTP_FetchData
    \/ SetIgnoreErrors
    \/ PTP_GetEvent
    \/ SendDataPhase
    \/ ReceiveDataHeader
    \/ ReadDataChunk
    \/ ResponsePhase
    \/ FinishError
    \/ FetchReadChunk
    \/ FetchResponse
    \/ EVENT_USB_Host_DeviceAttached
    \/ EVENT_USB_Host_DeviceEnumerationComplete
    \/ EVENT_USB_Host_DeviceUnattached
    \/ EVENT_USB_Host_HostError
    \/ PTP_Enable

(* PTP_Task is polled by the firmware's main loop whenever no            *)
(* transaction is in progress (PTP_Run_Task, line 157), and a call that   *)
(* has begun runs its pipe operations to the end.  Nothing obliges the   *)
(* application to call, nor the camera to be plugged in.                 *)
Fairness ==
    /\ WF_vars(PTP_Task)
    /\ WF_vars(ParseDeviceInfo)
    /\ WF_vars(SendDataPhase) /\ WF_vars(ReceiveDataHeader) /\ WF_vars(ReadDataChunk)
    /\ WF_vars(ResponsePhase) /\ WF_vars(FinishError)
    /\ WF_vars(FetchReadChunk) /\ WF_vars(FetchResponse)

Spec == Init /\ [][Next]_vars /\ Fairness

-----------------------------------------------------------------------------
PcValues == {"idle", "sendData", "recvHeader", "readData", "response",
             "finish", "fetchRead", "fetchResp", "parse"}
CallOps == Ops \cup {"fetch"}

TypeOK ==
    /\ host \in HostStates
    /\ {configured, ready, connected, ignoreNext, err, txFail, badAnswer,
        ignoreSeen} \subseteq BOOLEAN
    /\ ptpError \in {NoError, "host"} \cup Ops
    /\ respCode \in Codes \cup {"TransportErr", "BadLength"}
    /\ blockCode \in Codes
    /\ received \in 0..BufferSize
    /\ remaining \in 0..(2 ^ Width - 1)
    /\ pc \in PcValues
    /\ call \in [caller : Callers, op : CallOps, mode : Modes]
    /\ result \in [caller : Callers, op : CallOps, ret : Returns, kind : {"recv", "other"}]
    /\ xfer \in [caller : Callers, declared : Nat, delivered : Nat]
    /\ epoch \in 0..MaxEnv /\ xferEpoch \in 0..MaxEnv
    /\ calls \in 0..MaxCalls /\ env \in 0..MaxEnv

\* A step in which a call that reached the pipes returns to its caller.
Returning == pc \notin {"idle", "parse"} /\ pc' \in {"idle", "parse"}

(* A transport failure is reported: a call that was not asked to ignore *)
(* errors never returns OK when one of its pipe operations failed       *)
(* (PTP_Transaction's response phase, PTP_Driver.c:221-232).            *)
TransportFailureReported ==
    [][Returning /\ result'.ret = "OK" /\ ~ignoreNext => ~txFail']_vars

(* The ignore flag only tolerates the camera's response codes: even a   *)
(* call that set PTP_IgnoreErrorsForNextTransaction never returns OK    *)
(* after a pipe failure (spec: transport errors always latch).          *)
IgnoreFlagMasksOnlyResponses ==
    [][Returning /\ result'.ret = "OK" => ~txFail']_vars

(* A receive not asked to ignore errors that returns OK has delivered   *)
(* exactly the payload its data header declared, all of it read since   *)
(* the camera was last attached (chunking in PTP_Transaction and        *)
(* PTP_FetchData).                                                       *)
CompleteTransferDelivered ==
    [][Returning /\ result'.ret = "OK" /\ result'.kind = "recv" /\ ~ignoreNext
         => xfer'.delivered = xfer'.declared /\ xferEpoch' = epoch']_vars

(* A call returns ERROR only when a pipe operation failed or the camera *)
(* answered Fail or a malformed header: a Busy answer is never reported *)
(* as an error (spec section 8).                                         *)
BusyNeverReportedAsError ==
    [][Returning /\ result'.ret = "ERROR" => txFail' \/ badAnswer']_vars

(* The chunks PTP_FetchData reads belong to a transfer the same caller  *)
(* started: PTP_GetDeviceInfo's unread data never reaches an            *)
(* application call diverted by PTP_Transaction line 154.               *)
ChunksReachTheirCaller ==
    pc = "fetchRead" => xfer.caller = call.caller

(* The engine never reads past the data phase of the transfer it is    *)
(* in: the bytes delivered, the chunk being read and PTP_Bytes_Remaining *)
(* never add up to more than the data header declared, across the       *)
(* DATA_REMAINING returns, the calls PTP_Transaction diverts to          *)
(* PTP_FetchData (line 154), failed reads that have already taken their  *)
(* chunk off the count (line 263) and unplugs that keep the count (lines *)
(* 529-536); and a count left over is never read from a camera attached  *)
(* after the transfer began.  A read past the data phase would take the  *)
(* camera's response container for data.                                 *)
ReadsWithinTransfer ==
    /\ xfer.delivered + remaining + (IF pc = "readData" THEN received ELSE 0)
           <= xfer.declared
    /\ remaining > 0 /\ host = "configured" => xferEpoch = epoch

(* A transport failure latches (spec: "on a lower-level transport error: *)
(* latch the failing opcode ... and return Error"): a call that returns  *)
(* ERROR after one of its pipe operations failed leaves PTP_Error set,   *)
(* unless the camera is gone (unplugged or USB disabled).  PTP_FetchData *)
(* returns ERROR after a failed read (line 263) or response (line 277)   *)
(* without latching.                                                     *)
TransportErrorLatched ==
    [][Returning /\ result'.ret = "ERROR" /\ txFail'
         => ptpError' # NoError \/ host' \in {"unattached", "disabled"}]_vars

(* Once the device is configured, PTP_Task's next poll (lines 99-103)   *)
(* opens a session and reads DeviceInfo, and the camera eventually       *)
(* becomes ready, unless the host leaves Configured first or that one    *)
(* PTP_GetDeviceInfo fails (it is not retried while the host stays       *)
(* configured).  Application calls in between only delay it.            *)
ConfiguredLeadsToReady ==
    (host = "configured" /\ ~configured) ~>
        \/ ready
        \/ host # "configured"
        \/ configured /\ pc = "idle" /\ result.caller = "task" /\ result.ret # "OK"

(* PTP_IgnoreErrorsForNextTransaction applies to one call only: once a   *)
(* call has begun with it set, the flag is gone when the call returns.   *)
IgnoreFlagConsumed ==
    pc = "idle" /\ ignoreNext => ~ignoreSeen

=============================================================================
