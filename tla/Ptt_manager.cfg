SPECIFICATION DeviceFairSpec
PROPERTIES
    ImplementsKey
    ShortPressIsStretched
    ReleaseIsReported
    DeviceComesBack
