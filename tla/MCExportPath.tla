----------------------------- MODULE MCExportPath -----------------------------
(* Up to four records of two devices: the first and the third are of one    *)
(* device and minute, the fourth of the same device a minute later.         *)
EXTENDS ExportPath

MCDevice == SubSeq(<<"a", "b", "a", "a">>, 1, MaxRecords)
MCMinute == SubSeq(<<1, 1, 1, 2>>, 1, MaxRecords)
=============================================================================
