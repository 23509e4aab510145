------------------------------ MODULE MCWriter ------------------------------
(* Constant values for the runs of the writer.                             *)
EXTENDS WriterProps

OneGroup == <<2>>
ThreeByteRecords == <<3>>
TwoGroups == <<2, 1>>
NoStrings == <<0>>
OneString == <<1>>
FirstHasString == <<1, 0>>
=============================================================================
