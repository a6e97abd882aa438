------------------------------ MODULE MCServer ------------------------------
(* Instances of Server for TLC. *)
EXTENDS Server

(* A complete configuration, and one whose channel.yaml does not parse. *)
TwoSettings == { [services |-> "complete", channel |-> "absent"],
                 [services |-> "complete", channel |-> "broken"] }

OneSetting == { [services |-> "complete", channel |-> "given"] }

(* All is well, and a status of a newer worker, which nobody here knows. *)
TwoReports == {OK, "HEALTH_STATUS_4"}
=============================================================================
