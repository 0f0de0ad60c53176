---------------------------- MODULE MCDhrystone -----------------------------
(* Instances of Dhrystone: every alignment of the buffers and literals.     *)
EXTENDS Dhrystone

\* Short and long texts, bytes around the constants of the word test.
MCTexts == {<<49>>, <<50>>, <<1, 49>>, <<1, 128>>, <<128, 255, 49>>, <<128, 255, 50, 1>>}
=============================================================================
