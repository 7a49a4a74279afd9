\* The transaction engine against a camera that answers OK or Fail, with
\* pipe failures, unplug, replug and host errors at any point.
CONSTANTS
    BufferSize = 2
    Width = 16
    DataLengths <- MC_DataLengths
    DeviceInfoLengths <- MC_DeviceInfoFits
    AppOps <- MC_AppOps
    GetDeviceInfo <- MC_GetDeviceInfo
    CameraResponses = {"OK", "Fail"}
    AllowIgnore = TRUE
    MaxCalls = 4
    MaxEnv = 3
SPECIFICATION Spec
INVARIANTS
    TypeOK
    ReadsWithinTransfer
PROPERTIES
    TransportFailureReported
    ConfiguredLeadsToReady
