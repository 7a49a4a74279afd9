---------------------------- MODULE MC_ShutterLine ---------------------------
EXTENDS ShutterLine

\* Cable only, and cable with USB, as conf.camera.interface.
MC_CableInterfaces == {{"cable"}, {"cable", "usb"}}
\* A USB camera with an IR remote and no cable.
MC_IrInterfaces == {{"usb", "ir"}}
====
