--------------------------- MODULE MCDeviceScreens ---------------------------
\* The screens with one phone, two networks, two posts and two streams.
EXTENDS DeviceScreens
=============================================================================
