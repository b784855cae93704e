------------------------------- MODULE MCPhone -------------------------------
(* What the driver's phone does: two tabs share a journal of captured work   *)
(* ("journal"), and a page prepares and starts a round ("preparation").      *)
(* Around the start the page holds the journal's lock, which is where they   *)
(* meet (module DeviceJournal); here each runs by itself.                    *)
EXTENDS DeviceJournal, RoundPreparation, TLC

CONSTANTS t1, t2

VARIABLE scenario

MCSymmetry == Permutations(Tabs)

PhoneInit == scenario \in {"journal", "preparation"} /\ JournalInit /\ PrepInit

PhoneNext ==
  /\ UNCHANGED scenario
  /\ \/ scenario = "journal" /\ JournalNext /\ UNCHANGED prepVars
     \/ scenario = "preparation" /\ PrepNext /\ UNCHANGED journalVars

PhoneSpec == PhoneInit /\ [][PhoneNext]_<<scenario, journalVars, prepVars>>
=============================================================================
