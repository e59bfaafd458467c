------------------------------ MODULE MCSleep ------------------------------
(* Model-checking instance of the kernel with the time sys_sleep takes.    *)
EXTENDS SleepTime, MCKernel

SleepView == <<LiveView, history>>
=============================================================================
