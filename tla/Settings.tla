------------------------------- MODULE Settings ------------------------------
(***************************************************************************)
(* What the configuration store promises about one plugin's entry: every   *)
(* setter changes its own field of the current entry at one instant, so    *)
(* that a concurrent change of the other field is not lost, and a restart  *)
(* brings back an entry that was current at some time.                     *)
(***************************************************************************)
CONSTANTS Configs, FirstEntry

Entries == [enabled : BOOLEAN, config : Configs]

VARIABLES
  entry,            \* the current entry
  past              \* the entries that were current so far

SettingsInit == entry = FirstEntry /\ past = {FirstEntry}

SetField(changed) ==
  /\ entry' = changed
  /\ past' = past \cup {changed}

SetConfig(c)  == SetField([entry EXCEPT !.config = c])
SetEnabled(b) == SetField([entry EXCEPT !.enabled = b])

Recover == entry' \in past /\ UNCHANGED past

SettingsNext ==
  \/ \E c \in Configs : SetConfig(c)
  \/ \E b \in BOOLEAN : SetEnabled(b)
  \/ Recover

SettingsSpec == SettingsInit /\ [][SettingsNext]_<<entry, past>>
=============================================================================
