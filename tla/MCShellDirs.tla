---------------------------- MODULE MCShellDirs -----------------------------
(* Constants of the model-checked instance of ShellDirs.                   *)
EXTENDS ShellDirs

\* A directory of the shell's, with one in it.
Tree == [root |-> "root", home |-> "root", sub |-> "home"]
=============================================================================
