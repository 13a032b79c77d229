--------------------------- MODULE MCUartChannel ----------------------------
EXTENDS MCUart, UartChannel
=============================================================================
