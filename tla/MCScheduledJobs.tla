--------------------------- MODULE MCScheduledJobs ---------------------------
(***************************************************************************)
(* TLC instance of ScheduledJobs: a slow job before a frequent one, each    *)
(* with a lease of two units, as the Top 100 job stands before the price    *)
(* alerts in allJobs().                                                     *)
(***************************************************************************)
EXTENDS ScheduledJobs

CONSTANTS slow, often, off

MCJobList == <<slow, off, often>>
MCInterval == [j \in Jobs |-> IF j = slow THEN 3 ELSE 2]
MCLease == [j \in Jobs |-> 2]
==============================================================================
