------------------------------- MODULE MCUart -------------------------------
EXTENDS Uart

Nothing == << >>
LineMsg == <<"a", NL, "b">>
OneChar == <<"a">>
IrqChar == <<"i">>
Header  == <<"h">>
=============================================================================
