--------------------------- MODULE MCCronDelivery ---------------------------
(***************************************************************************)
(* A cron with a delivery age, results of two messages, and one retry.     *)
(***************************************************************************)
EXTENDS CronDelivery
=============================================================================
