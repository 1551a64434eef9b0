------------------------------- MODULE SvmRun -------------------------------
(* The program svm by itself (main of svm/svm.c): it reads any executable    *)
(* file, not only one that the code generator wrote, and runs it.            *)
EXTENDS Svm

CONSTANT Images  \* what parse may read

ASSUME ImagesAssumption == Images \subseteq Image

\* The file is on the disk before the process starts.
RunInit == image \in Images /\ SvmIdle
Start == Load(image)
Stopped == Halted /\ UNCHANGED svmVars

RunNext == Start \/ SvmNext \/ Stopped

\* The process is not stopped from outside.
RunSpec == RunInit /\ [][RunNext]_svmVars /\ WF_svmVars(Start \/ SvmNext)

\* Every image is run to an end: the machine needs no code it can trust for
\* that, as there is no instruction that jumps back (svm.c:517-834).
RunTerminates == <>Halted

=============================================================================
