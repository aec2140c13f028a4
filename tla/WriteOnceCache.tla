-------------------------- MODULE WriteOnceCache ---------------------------
(***************************************************************************)
(* What the content cache promises its readers: while the process runs, a  *)
(* URL is published at most once and what is published never changes or    *)
(* disappears.  Only the end of the process forgets it.                    *)
(***************************************************************************)
CONSTANTS Url, NoRoute

VARIABLES
    published,  \* published[u]: what every reader of u is given, or NoRoute
    running     \* the process is running

Empty == [u \in Url |-> NoRoute]

Init == published = Empty /\ running = TRUE

Publish(u) ==
    /\ running /\ running'
    /\ published[u] = NoRoute
    /\ published' = [published EXCEPT ![u] = published'[u]]

Stop == running /\ ~running' /\ published' = published

Start == ~running /\ running' /\ published' = Empty

Next == (\E u \in Url : Publish(u)) \/ Stop \/ Start

Spec == Init /\ [][Next]_<<published, running>>
=============================================================================
