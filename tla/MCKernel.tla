------------------------------ MODULE MCKernel ------------------------------
(***************************************************************************)
(* Small instances of the kernel for TLC.  Every bound is a constant.      *)
(*                                                                         *)
(* View leaves out what no action, and nothing that is checked here, ever  *)
(* reads: who created a task, which result a call had once it has one, and *)
(* the fields of a descriptor nobody has.  States that differ in no more   *)
(* than that have the same futures.                                        *)
(***************************************************************************)
EXTENDS Kernel

View ==
  << [t \in Slots |->
        IF Exists(t)
        THEN <<state[t], tid[t], priority[t], x0[t] = NoResult, send_to[t], ipc_receiver[t],
               event_type[t], wakeup[t]>>
        ELSE <<state[t]>>],
     send_queue, ready, timer_wait, io_wait, io_ready, active, next_tid, kpc >>
=============================================================================
