----------------------------- MODULE MCSpiMemio -----------------------------
(* SpiMemio with a word and its successor, so that a read is answered from  *)
(* a prefetch, goes on or jumps, and all settings of the register.          *)
EXTENDS SpiMemio

Setting(d, q, c) == [en |-> TRUE, ddr |-> d, qspi |-> q, cont |-> c]
MCAddrs == {1048576, 1048580}
MCSettings == {Setting(d, q, c) : d, q, c \in BOOLEAN}

\* Liveness, with one setting of each width.
MCWidths == { Default, Setting(TRUE, FALSE, TRUE), Setting(FALSE, TRUE, TRUE),
              Setting(TRUE, TRUE, FALSE) }
=============================================================================
