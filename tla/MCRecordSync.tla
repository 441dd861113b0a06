---------------------------- MODULE MCRecordSync ----------------------------
(* Instances of RecordSync for TLC: two records, one of two lines; a trace   *)
(* number that straddles them; a target whose status is never final.         *)
EXTENDS RecordSync

TwoHeaders == <<"h1", "h1", "h2">>
Straddling == <<"t1", "t2", "t1">>
Answers ==
    [t1 |-> [contract |-> "platform", salesperson |-> "platform", status |-> "purchased"],
     t2 |-> [contract |-> "platform", salesperson |-> "platform", status |-> "stored"]]
=============================================================================
