---------------------------- MODULE MCTaskSampling ----------------------------
(* TaskSampling with the sample types that the options of the program ask for *)
(* and a buffer of a few samples.                                             *)
EXTENDS TaskSampling

Basic == {"IP", "TID", "TIME", "READ", "PERIOD"}

\* one event, several events, --mem and --branch
MCSampleTypes ==
    { Basic,
      Basic \cup {"IDENTIFIER", "WEIGHT", "DATA_SRC", "ADDR"},
      Basic \cup {"BRANCH_STACK"} }
===============================================================================
