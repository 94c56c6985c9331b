---------------------------- MODULE MCWriterJob ----------------------------
(* Model values for WriterJob. *)
EXTENDS WriterJob

CONSTANTS a, b, c

(* c is the file of the table `collections`.  One build has two files of *)
(* one content, and both have files in common.                           *)
MCInputs == {<<c, a, a>>, <<c, a, b>>}
=============================================================================
