------------------------------ MODULE MCAwsLab ------------------------------
(* Small instances of the AWS lab.                                         *)
EXTENDS AwsLab

OneOfEach == {[type |-> "small", hours |-> "7", soak |-> FALSE, stop |-> 1, expires_in |-> 1, close_egress |-> TRUE],
              [type |-> "small", hours |-> "36", soak |-> TRUE, stop |-> 1, expires_in |-> 1, close_egress |-> FALSE]}
OneShort == {[type |-> "small", hours |-> "7", soak |-> FALSE, stop |-> 1, expires_in |-> 1, close_egress |-> FALSE]}
FreePlan == {[plan |-> "FREE", credits |-> 3, expires |-> 9]}
=============================================================================
