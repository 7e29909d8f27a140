------------------------- MODULE MCEEPROMEmulation -------------------------
(* An EEPROM of two bytes on pages with room for two records. *)
EXTENDS EEPROMEmulation

MCSlots == [p \in {1, 2} |-> 2]

=============================================================================
