----------------------------- MODULE MCUartLink -----------------------------
(* UartLink with bytes that have long runs and bytes that alternate, on two *)
(* boards that are reset and on two whose clocks differ by a twentieth.     *)
EXTENDS UartLink, TLC

MCBytes == { <<0, 0, 0, 0, 0, 0, 0, 0>>, <<1, 0, 1, 1, 0, 0, 1, 1>> }

MCLinks ==
    { [rx_div |-> 3, tx_divs |-> {3}, resets |-> TRUE],
      [rx_div |-> 22, tx_divs |-> {21, 23}, resets |-> FALSE] }
=============================================================================
