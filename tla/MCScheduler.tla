---------------------------- MODULE MCScheduler ----------------------------
(* The configurations name the four threads of init_kthreads by their ids:  *)
(* 1 keyboard_driver, 2 graphics_driver, 3 postbox_debug, 4 tty_driver.     *)
EXTENDS Scheduler
=============================================================================
