\* Three cameras for two EEPROM slots, so a new camera evicts one; a menu
\* edit value besides the factory and cleared values.
SPECIFICATION Spec
CONSTANTS
    s1 = s1
    s2 = s2
    s3 = s3
    none = none
    factory = factory
    zero = zero
    v1 = v1
    Serials <- MC_Serials
    NoSerial = none
    Vals <- MC_Vals
    FACTORY = factory
    ZERO = zero
    MAX_CAMERAS_SETTINGS = 2
    MaxEdits = 2
    DefaultWithCamera = FALSE
INVARIANT SavedSettingsPersist
PROPERTY CameraSettingsRestored StoreRefined
