----------------------------- MODULE MC_I2ecBus ------------------------------
(* Two threads on the backlight's gate (0x1611) and duty (0x1803) registers. *)
EXTENDS I2ecBus
CONSTANTS led, poll

MCThreads == {led, poll}
MCAddrs == {5649, 6147}
=============================================================================
