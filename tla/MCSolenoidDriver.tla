---------------------------- MODULE MCSolenoidDriver ----------------------------
(* Values of the constants of SolenoidDriver for TLC. *)
EXTENDS SolenoidDriver

\* Currents as shipped in kSolenoidBinding, but one beyond the range of the chip.
Hit  == [s \in 0..8 |-> IF s \in {5, 6, 8} THEN 900 ELSE IF s = 1 THEN 1200 ELSE 800]
Hold == [s \in 0..8 |-> <<400, 400, 400, 400, 400, 500, 700, 800, 0>>[s + 1]]

\* Neutral, the overlap of 1st and 2nd gear, 2nd gear with the park solenoid.
SomeMasks == {{}, {0, 1, 2, 4}, {0, 1, 4, 7}}

SomeFaults == {{<<0, 7, "over_current">>}, {<<1, 1, "open_load">>, <<1, 0, "short_to_supply">>}}

OrLate == {0, 1, 2}
=================================================================================
