------------------------------ MODULE MCEvents ------------------------------
(* Instances of EventPipeline for TLC. *)
EXTENDS EventPipeline

CONSTANTS m1, m2, m3

OneEach == [e \in Events |-> 1]
DailyAndWeekly == 1 :> "daily" @@ 2 :> "weekly"
OneAndTwo == 1 :> 1 @@ 2 :> 2

\* The file with concurrent commits, where dlq_local_path is not set; the file in the strict
\* mode; the table with concurrent commits; and the table in the strict mode with
\* start_from_latest.
FourSetups ==
    {[store |-> "file", ordered |-> FALSE, latest |-> FALSE, dlq |-> FALSE],
     [store |-> "file", ordered |-> TRUE, latest |-> FALSE, dlq |-> TRUE],
     [store |-> "sql", ordered |-> FALSE, latest |-> FALSE, dlq |-> TRUE],
     [store |-> "sql", ordered |-> TRUE, latest |-> TRUE, dlq |-> TRUE]}

\* A producing pod that is given more than its queue and its overflow goroutines hold; one
\* message and three faults; every producer with two messages; a consuming pod with a backlog
\* that holds m1 twice; one message from end to end; and redelivery across a change of the day
\* with two claims of the rewards, read from a replica.
SixDeployments ==
    {[kinds |-> {"kafka"}, backlog |-> <<>>, traffic |-> {m1, m2, m3}, consumes |-> FALSE,
      today |-> MaxDay, claimers |-> {}, slaves |-> FALSE, faults |-> 1],
     [kinds |-> {"kafka"}, backlog |-> <<>>, traffic |-> {m1}, consumes |-> FALSE,
      today |-> MaxDay, claimers |-> {}, slaves |-> FALSE, faults |-> 3],
     [kinds |-> Kinds, backlog |-> <<>>, traffic |-> {m1, m2}, consumes |-> FALSE,
      today |-> MaxDay, claimers |-> {}, slaves |-> FALSE, faults |-> 2],
     [kinds |-> Kinds, backlog |-> <<m1, m2, m1>>, traffic |-> {}, consumes |-> TRUE,
      today |-> MaxDay, claimers |-> {}, slaves |-> FALSE, faults |-> 2],
     [kinds |-> {"kafka", "rabbitmq"}, backlog |-> <<>>, traffic |-> {m1}, consumes |-> TRUE,
      today |-> MaxDay, claimers |-> {}, slaves |-> FALSE, faults |-> 1],
     [kinds |-> {"memory"}, backlog |-> <<m1, m1, m2>>, traffic |-> {}, consumes |-> TRUE,
      today |-> 1, claimers |-> Claimers, slaves |-> TRUE, faults |-> 0]}
=============================================================================
