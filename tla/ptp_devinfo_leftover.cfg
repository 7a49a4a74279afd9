\* A DeviceInfo dataset longer than PTP_Buffer is left unread for the next call.
CONSTANTS
    BufferSize = 2
    Width = 16
    DataLengths <- MC_DataLengths
    DeviceInfoLengths <- MC_DeviceInfoLong
    AppOps <- MC_AppOps
    GetDeviceInfo <- MC_GetDeviceInfo
    CameraResponses = {"OK", "Fail"}
    AllowIgnore = FALSE
    MaxCalls = 4
    MaxEnv = 3
SPECIFICATION Spec
INVARIANT ChunksReachTheirCaller
