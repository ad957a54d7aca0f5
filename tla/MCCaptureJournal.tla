-------------------------- MODULE MCCaptureJournal --------------------------
(* Small instances of CaptureJournal. *)
EXTENDS CaptureJournal, TLC

\* Recordings are alike, and so are recoveries.
Alike == Permutations(Recorder) \cup Permutations(Recoverer)
=============================================================================
