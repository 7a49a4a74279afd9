\* A camera that answers Busy; a stale Busy in PIMA_Block hides an unplug.
CONSTANTS
    BufferSize = 2
    Width = 16
    DataLengths <- MC_DataLengths
    DeviceInfoLengths <- MC_DeviceInfoFits
    AppOps <- MC_AppOps
    GetDeviceInfo <- MC_GetDeviceInfo
    CameraResponses = {"OK", "Busy"}
    AllowIgnore = FALSE
    MaxCalls = 4
    MaxEnv = 3
SPECIFICATION Spec
PROPERTY TransportFailureReported
