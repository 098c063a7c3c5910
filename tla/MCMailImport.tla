---------------------------- MODULE MCMailImport ----------------------------
(* Small instances of MailImport.                                          *)
EXTENDS MailImport, TLC

CONSTANTS w1, w2, inbox, archive

\* The second message is in the archive folder, the others in the inbox.
TwoFolders == [m \in 1..N |-> IF m = 2 THEN archive ELSE inbox]

WorkerSymmetry == Permutations(Worker)
=============================================================================
